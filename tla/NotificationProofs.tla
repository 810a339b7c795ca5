------------------------- MODULE NotificationProofs -------------------------
(***************************************************************************)
(* That the pipeline keeps its types and the delivery contract, and that   *)
(* every mail is accounted for, for every number of jobs, workers,         *)
(* consumers, sweepers and faults.                                         *)
(***************************************************************************)
EXTENDS NotificationPipeline, InductionLemmas

Steps == {"idle", "publish", "markProcessed", "recordRefusal", "recordFailure", "deadLetterRefusal",
          "deadLetter"}

Stages == {"idle", "cancel", "lookUp", "upsert", "send", "markSent", "markFailed", "markRetry"}

\* The tables of the outbox, and what a worker has in hand
OutboxTypes ==
    /\ outbox \in [Jobs -> Row]
    /\ batch \in [Workers -> SUBSET Jobs]
    /\ at \in [Workers -> Jobs \cup {Null}]
    /\ step \in [Workers -> Steps]
    /\ overtaken \in [Jobs -> Nat]

\* A row that is settled was requested and is not claimed any more.
SettledRows ==
    \A j \in Jobs : outbox[j].processed \/ outbox[j].deadLettered =>
        outbox[j].enqueued /\ outbox[j].claimAge = Null

\* The channel has accepted a message of j.
Accepted(j) == GoneOut(j) \/ j \in lost

\* A worker is at a row of its batch from the moment it publishes it; it marks as processed what the
\* channel has accepted, and dead-letters what has failed often enough.
WorkerOK(w) ==
    /\ \A j \in batch[w] : outbox[j].enqueued
    /\ at[w] \in batch[w] \cup {Null}
    /\ step[w] = "idle" => at[w] = Null
    /\ step[w] \notin {"idle", "publish"} => at[w] \in batch[w]
    /\ step[w] = "markProcessed" => Accepted(at[w])
    /\ step[w] \in {"deadLetterRefusal", "deadLetter"} => outbox[at[w]].attempts >= MaxAttempts

\* The queues, the table and the histories of the service
ServiceTypes ==
    /\ queue \in [Jobs -> Nat] /\ dlq \in [Jobs -> Nat]
    /\ wait \in [Jobs -> Nat]
    /\ rows \in [Keys -> RowType \cup {Null}]
    /\ stage \in [Senders -> Stages \cup {"claim"}]
    /\ record \in [Senders -> RecordType]
    /\ claimed \in [Sweepers -> SUBSET RecordType]
    /\ lost \subseteq Jobs /\ handled \subseteq Jobs /\ dropped \subseteq Jobs

\* A claim of a sweeper is of a row that exists.
ClaimOK(r) == r.key \in Keys /\ rows[r.key] # Null

\* A consumer works on one message, of a mail or not, and a row is only updated if it exists.
SenderOK(p) ==
    /\ p \in Consumers =>
         /\ stage[p] # "claim"
         /\ stage[p] = "idle" => record[p].job = Null
         /\ stage[p] # "idle" => record[p].job \in Jobs /\ record[p].from \in {"queue", "dlq"}
    /\ p \in Sweepers =>
         /\ stage[p] \notin {"cancel", "lookUp", "upsert"}
         /\ \A r \in claimed[p] : ClaimOK(r)
    /\ stage[p] \in {"lookUp", "upsert"} => record[p].key \in Keys
    /\ stage[p] \in {"send", "markSent", "markFailed", "markRetry"} => ClaimOK(record[p])

WellFormed ==
    /\ OutboxTypes
    /\ SettledRows
    /\ \A w \in Workers : WorkerOK(w)
    /\ ServiceTypes
    /\ \A p \in Senders : SenderOK(p)

-----------------------------------------------------------------------------
(* The initial state *)

LEMMA InitWellFormed == Init => WellFormed
<1> SUFFICES ASSUME Init PROVE WellFormed
    OBVIOUS
<1> USE OutboxAssumption, ServiceAssumption DEF Init, OutboxInit, ServiceInit
<1>1. NoRow \in Row
      BY DEF NoRow, Row
<1>2. OutboxTypes
      BY <1>1 DEF OutboxTypes, Steps
<1>3. SettledRows
      BY DEF SettledRows, NoRow
<1>4. ASSUME NEW w \in Workers PROVE WorkerOK(w)
      BY <1>4 DEF WorkerOK
<1>5. NoRecord \in RecordType
      BY DEF NoRecord, RecordType
<1>6. ASSUME NEW j \in Jobs
      PROVE  (IF Job[j].kind = "mail" THEN Job[j].delay ELSE 0) \in Nat
      BY <1>6 DEF JobType
<1>7. ServiceTypes
      BY <1>5, <1>6 DEF ServiceTypes, Stages
<1>8. ASSUME NEW p \in Senders PROVE SenderOK(p)
      BY <1>8 DEF SenderOK, Senders, NoRecord
<1> QED BY <1>2, <1>3, <1>4, <1>7, <1>8 DEF WellFormed

-----------------------------------------------------------------------------
(* The outbox *)

\* A step of the service leaves the outbox and its workers alone.
LEMMA ServiceLeavesOutbox ==
    ASSUME NEW p \in Senders, Work(p) \/ SenderFaults(p)
    PROVE  UNCHANGED outboxVars /\ UNCHANGED lost
BY DEF Work, SenderFaults, Deliver, CancelReminders, LookUp, Upsert, Reclaim, ClaimDue, SendMail,
       MarkSent, MarkFailed, MarkForRetry, HandlingFails, ConsumerCrashes, SweeperCrashes,
       SendMailFails, MarkFails

\* The statements of a worker's pass
LEMMA WorkerSteps ==
    ASSUME NEW w, Serve(w) \/ WorkerFaults(w)
    PROVE  \/ ClaimBatch(w) \/ Publish(w) \/ MarkProcessed(w) \/ RecordFailure(w) \/ DeadLetter(w)
           \/ PublishFails(w) \/ PublishIsRefused(w) \/ MarkProcessedFails(w)
           \/ RecordFailureFails(w) \/ WorkerCrashes(w)
BY DEF Serve, WorkerFaults

LEMMA OutboxTypesStep == WellFormed /\ [Next]_vars => OutboxTypes'
<1> SUFFICES ASSUME WellFormed, [Next]_vars PROVE OutboxTypes'
    OBVIOUS
<1> USE OutboxAssumption DEF OutboxTypes, Steps
<1>0. OutboxTypes
      BY DEF WellFormed
<1>1. ASSUME NEW j \in Jobs, Enqueue(j) PROVE OutboxTypes'
      BY <1>0, <1>1 DEF Enqueue, Row
<1>2. ASSUME NEW w \in Workers, Settled(w), UNCHANGED overtaken, outbox' \in [Jobs -> Row]
      PROVE  OutboxTypes'
      BY <1>0, <1>2 DEF Settled, Continue
<1>3. ASSUME NEW w \in Workers, Serve(w) \/ WorkerFaults(w) PROVE OutboxTypes'
  <2>0. /\ WorkerOK(w)
        /\ step[w] \notin {"idle", "publish"} => at[w] \in Jobs
        BY <1>0 DEF WellFormed, WorkerOK
  <2>1. CASE ClaimBatch(w)
    <3> DEFINE due == {j \in Jobs : Claimable(j)}
               taken == {j \in due : Cardinality({i \in due : i < j}) < BatchSize}
    <3>1. taken \in SUBSET Jobs
          OBVIOUS
    <3>2. /\ outbox' = [j \in Jobs |->
                          IF j \in taken THEN [outbox[j] EXCEPT !.claimAge = 0] ELSE outbox[j]]
          /\ batch' = [batch EXCEPT ![w] = taken]
          /\ step' = [step EXCEPT ![w] = "publish"] /\ UNCHANGED at
          /\ overtaken' \in [Jobs -> Nat]
          BY <1>0, <2>1 DEF ClaimBatch
    <3> HIDE DEF taken
    <3>3. outbox' \in [Jobs -> Row]
          BY <1>0, <3>2 DEF Row, Ages
    <3> QED BY <1>0, <3>1, <3>2, <3>3
  <2>2. CASE Publish(w) \/ PublishFails(w) \/ PublishIsRefused(w)
        BY <1>0, <2>2 DEF Publish, PublishFails, PublishIsRefused, TakeUp, Continue
  <2>3. CASE MarkProcessed(w)
    <3>0. ASSUME NEW r \in Row
          PROVE  [r EXCEPT !.processed = TRUE, !.claimAge = Null] \in Row
          BY DEF Row
    <3>1. outbox' \in [Jobs -> Row]
          BY <1>0, <2>0, <3>0, <2>3 DEF MarkProcessed
    <3> QED BY <1>2, <2>3, <3>1 DEF MarkProcessed
  <2>4. CASE RecordFailure(w)
    <3>1. outbox' \in [Jobs -> Row]
          BY <1>0, <2>0, <2>4 DEF RecordFailure, Row
    <3> QED BY <1>0, <1>2, <2>4, <3>1 DEF RecordFailure, Continue
  <2>5. CASE DeadLetter(w)
    <3>0. ASSUME NEW r \in Row
          PROVE  [r EXCEPT !.deadLettered = TRUE, !.claimAge = Null] \in Row
          BY DEF Row
    <3>1. outbox' \in [Jobs -> Row]
          BY <1>0, <2>0, <3>0, <2>5 DEF DeadLetter
    <3> QED BY <1>2, <2>5, <3>1 DEF DeadLetter
  <2>6. CASE MarkProcessedFails(w) \/ WorkerCrashes(w)
        BY <1>0, <2>6 DEF MarkProcessedFails, WorkerCrashes, Continue
  <2>7. CASE RecordFailureFails(w)
        BY <1>0, <1>2, <2>7 DEF RecordFailureFails, Continue
  <2> QED BY <1>3, <2>1, <2>2, <2>3, <2>4, <2>5, <2>6, <2>7, WorkerSteps
<1>4. ASSUME Tick PROVE OutboxTypes'
  <2>1. ASSUME NEW age \in Ages \cup {Null} PROVE Older(age) \in Ages \cup {Null}
        BY <2>1 DEF Older, Ages
  <2>2. outbox' \in [Jobs -> Row]
        BY <1>0, <1>4, <2>1 DEF Tick, OutboxTick, Row
  <2> QED BY <1>0, <1>4, <2>2 DEF Tick
<1>5. CASE UNCHANGED outboxVars
      BY <1>0, <1>5 DEF outboxVars
<1> QED BY <1>1, <1>3, <1>4, <1>5, ServiceLeavesOutbox DEF Next, vars

\* What is known of the rows only grows.
LEMMA RowsGrow ==
    ASSUME WellFormed, [Next]_vars, NEW j \in Jobs
    PROVE  /\ outbox[j].enqueued => outbox'[j].enqueued
           /\ outbox[j].attempts <= outbox'[j].attempts
<1> USE OutboxAssumption DEF OutboxTypes
<1>0. OutboxTypes /\ outbox[j] \in Row
      BY DEF WellFormed
<1>1. CASE UNCHANGED outbox
      BY <1>0, <1>1 DEF Row
<1>2. ASSUME NEW i \in Jobs, Enqueue(i)
      PROVE  /\ outbox[j].enqueued => outbox'[j].enqueued
             /\ outbox[j].attempts <= outbox'[j].attempts
      BY <1>0, <1>2 DEF Enqueue, Row
<1>3. ASSUME NEW w \in Workers, Serve(w) \/ WorkerFaults(w), ~UNCHANGED outbox
      PROVE  /\ outbox[j].enqueued => outbox'[j].enqueued
             /\ outbox[j].attempts <= outbox'[j].attempts
  <2>1. CASE ClaimBatch(w)
        BY <1>0, <2>1 DEF ClaimBatch, Row
  <2>2. CASE MarkProcessed(w)
        BY <1>0, <2>2 DEF MarkProcessed, Row
  <2>3. CASE RecordFailure(w)
        BY <1>0, <2>3 DEF RecordFailure, Row
  <2>4. CASE DeadLetter(w)
        BY <1>0, <2>4 DEF DeadLetter, Row
  <2> QED BY <1>3, <2>1, <2>2, <2>3, <2>4
          DEF Serve, WorkerFaults, Publish, PublishFails, PublishIsRefused, MarkProcessedFails,
              RecordFailureFails, WorkerCrashes
<1>4. CASE Tick
      BY <1>0, <1>4 DEF Tick, OutboxTick, Row
<1> QED BY <1>1, <1>2, <1>3, <1>4, ServiceLeavesOutbox DEF Next, vars, outboxVars

LEMMA SettledStep == WellFormed /\ [Next]_vars => SettledRows'
<1> SUFFICES ASSUME WellFormed, [Next]_vars, NEW j \in Jobs,
                    (outbox[j].processed \/ outbox[j].deadLettered)'
             PROVE  (outbox[j].enqueued /\ outbox[j].claimAge = Null)'
    BY DEF SettledRows
<1> USE OutboxAssumption DEF OutboxTypes
<1>0. OutboxTypes /\ SettledRows /\ outbox[j] \in Row
      BY DEF WellFormed
<1>1. CASE UNCHANGED outbox
      BY <1>0, <1>1 DEF SettledRows
<1>2. ASSUME NEW i \in Jobs, Enqueue(i)
      PROVE  (outbox[j].enqueued /\ outbox[j].claimAge = Null)'
      BY <1>0, <1>2 DEF Enqueue, Row, SettledRows
<1>3. ASSUME NEW w \in Workers, Serve(w) \/ WorkerFaults(w), ~UNCHANGED outbox
      PROVE  (outbox[j].enqueued /\ outbox[j].claimAge = Null)'
  <2>0. WorkerOK(w)
        BY DEF WellFormed
  <2>1. CASE ClaimBatch(w)
        BY <1>0, <2>1 DEF ClaimBatch, Claimable, Pending, Row, SettledRows
  <2>2. CASE MarkProcessed(w)
        BY <1>0, <2>0, <2>2 DEF MarkProcessed, Row, SettledRows, WorkerOK
  <2>3. CASE RecordFailure(w)
        BY <1>0, <2>3 DEF RecordFailure, Row, SettledRows
  <2>4. CASE DeadLetter(w)
        BY <1>0, <2>0, <2>4 DEF DeadLetter, Row, SettledRows, WorkerOK
  <2> QED BY <1>3, <2>1, <2>2, <2>3, <2>4
          DEF Serve, WorkerFaults, Publish, PublishFails, PublishIsRefused, MarkProcessedFails,
              RecordFailureFails, WorkerCrashes
<1>4. CASE Tick
      BY <1>0, <1>4 DEF Tick, OutboxTick, Older, Row, SettledRows
<1> QED BY <1>1, <1>2, <1>3, <1>4, ServiceLeavesOutbox DEF Next, vars, outboxVars

-----------------------------------------------------------------------------
(* Where the messages are *)

\* A message only changes hands in the service: none appears, and none is lost.
LEMMA SameGoneOut ==
    ASSUME WellFormed, NEW p \in Senders, Work(p) \/ SenderFaults(p), NEW j \in Jobs
    PROVE  GoneOut(j)' <=> GoneOut(j)
<1> USE OutboxAssumption, ServiceAssumption DEF ServiceTypes, Senders
<1>0. ServiceTypes /\ SenderOK(p) /\ UNCHANGED lost
      BY ServiceLeavesOutbox DEF WellFormed
<1>1. CASE /\ UNCHANGED <<queue, dlq, handled, dropped>>
           /\ p \in Sweepers \/ record'[p].job = record[p].job
           /\ \A q \in Senders \ {p} : record'[q] = record[q]
      BY <1>0, <1>1 DEF GoneOut
<1>2. CASE /\ UNCHANGED <<queue, dlq, dropped>>
           /\ p \in Consumers /\ stage[p] # "idle" /\ Ack(p)
           /\ record' = [record EXCEPT ![p] = NoRecord]
      BY <1>0, <1>2 DEF GoneOut, Ack, NoRecord, SenderOK
<1>3. CASE /\ UNCHANGED <<queue, handled>>
           /\ p \in Consumers /\ stage[p] # "idle" /\ Nack(p)
           /\ record' = [record EXCEPT ![p] = NoRecord]
      BY <1>0, <1>3 DEF GoneOut, Nack, NoRecord, SenderOK
<1>4. CASE Deliver(p)
  <2>1. PICK i \in Jobs :
          /\ Take(p, i, "queue") \/ Take(p, i, "dlq")
          /\ \/ queue[i] > 0 /\ queue' = [queue EXCEPT ![i] = @ - 1] /\ UNCHANGED dlq
             \/ dlq[i] > 0 /\ dlq' = [dlq EXCEPT ![i] = @ - 1] /\ UNCHANGED queue
        BY <1>4 DEF Deliver
  <2>2. record'[p].job = i /\ \A q \in Senders \ {p} : record'[q] = record[q]
    <3>1. ASSUME NEW from PROVE Message(i, from).job = i
          BY DEF Message
    <3>2. \E from : record' = [record EXCEPT ![p] = Message(i, from)]
          BY <2>1 DEF Take, Goto
    <3> QED BY <1>0, <3>1, <3>2
  <2>3. p \in Consumers /\ record[p].job = Null /\ UNCHANGED <<handled, dropped>>
        BY <1>0, <1>4 DEF Deliver, SenderOK
  <2>4. CASE j = i
        BY <1>0, <2>1, <2>2, <2>3, <2>4 DEF GoneOut
  <2>5. CASE j # i
        BY <1>0, <2>1, <2>2, <2>3, <2>5 DEF GoneOut
  <2> QED BY <2>4, <2>5
<1>5. CASE ConsumerCrashes(p)
      BY <1>0, <1>5 DEF ConsumerCrashes, GoneOut, SenderOK, Done, Goto, NoRecord
<1>6. CASE CancelReminders(p)
      BY <1>0, <1>2, <1>6 DEF CancelReminders, Done, Goto, SenderOK
<1>7. CASE LookUp(p)
      BY <1>0, <1>1, <1>2, <1>7 DEF LookUp, Done, Goto, SenderOK
<1>8. CASE Upsert(p)
      BY <1>0, <1>1, <1>2, <1>8 DEF Upsert, Done, Goto, SenderOK, RecordType
<1>9. CASE HandlingFails(p)
      BY <1>0, <1>3, <1>9 DEF HandlingFails, Done, Goto, SenderOK
<1>10. CASE Reclaim(p) \/ ClaimDue(p) \/ SweeperCrashes(p)
      BY <1>0, <1>1, <1>10 DEF Reclaim, ClaimDue, SweeperCrashes, SendOneOf, Done, Goto, SenderOK
<1>11. CASE SendMail(p) \/ SendMailFails(p)
      BY <1>0, <1>1, <1>11 DEF SendMail, SendMailFails, Goto
<1>12. CASE MarkSent(p) \/ MarkFailed(p) \/ MarkForRetry(p) \/ MarkFails(p)
  <2>1. stage[p] # "idle" /\ UNCHANGED queue /\ (Succeed(p) \/ Fail(p))
        BY <1>12 DEF MarkSent, MarkFailed, MarkForRetry, MarkFails
  <2>2. CASE p \in Consumers
        BY <1>2, <1>3, <2>1, <2>2 DEF Succeed, Fail, NextRow, Done, Goto
  <2>3. CASE p \in Sweepers
        BY <1>0, <1>1, <2>1, <2>3 DEF Succeed, Fail, NextRow, SendOneOf, Done, Goto
  <2> QED BY <2>2, <2>3
<1> QED BY <1>4, <1>5, <1>6, <1>7, <1>8, <1>9, <1>10, <1>11, <1>12 DEF Work, SenderFaults

\* What has gone out stays accounted for.
LEMMA GoneOutStays ==
    ASSUME WellFormed, [Next]_vars, NEW j \in Jobs, GoneOut(j)
    PROVE  GoneOut(j)'
<1> USE OutboxAssumption DEF ServiceTypes
<1>0. ServiceTypes /\ OutboxTypes
      BY DEF WellFormed
<1>1. CASE UNCHANGED <<queue, dlq, record, handled, dropped>>
      BY <1>1 DEF GoneOut
<1>2. ASSUME NEW w \in Workers, Serve(w) \/ WorkerFaults(w), UNCHANGED serviceVars
      PROVE  GoneOut(j)'
  <2>1. /\ \A i \in Jobs : queue'[i] >= queue[i]
        /\ queue' \in [Jobs -> Nat]
        BY <1>0, <1>2 DEF OutboxTypes, Serve, WorkerFaults, ClaimBatch, Publish, PublishFails,
                          PublishIsRefused, MarkProcessed, MarkProcessedFails, RecordFailure,
                          RecordFailureFails, DeadLetter, WorkerCrashes
  <2> QED BY <1>0, <1>2, <2>1 DEF GoneOut, serviceVars
<1> QED BY <1>1, <1>2, SameGoneOut DEF Next, Tick, Enqueue, vars, serviceVars, outboxVars

\* And so does what the channel has accepted.
LEMMA AcceptedStays ==
    ASSUME WellFormed, [Next]_vars, NEW j \in Jobs, Accepted(j)
    PROVE  Accepted(j)'
<1>1. lost \subseteq lost'
  <2>1. ASSUME NEW w \in Workers, Serve(w) \/ WorkerFaults(w) PROVE lost \subseteq lost'
        BY <2>1 DEF Serve, WorkerFaults, ClaimBatch, Publish, PublishFails, PublishIsRefused,
                    MarkProcessed, MarkProcessedFails, RecordFailure, RecordFailureFails, DeadLetter,
                    WorkerCrashes
  <2> QED BY <2>1, ServiceLeavesOutbox DEF Next, Tick, Enqueue, vars
<1> QED BY <1>1, GoneOutStays DEF Accepted

-----------------------------------------------------------------------------
(* The workers *)

\* What a worker has in hand stays right whatever the others do.
LEMMA WorkerKept ==
    ASSUME WellFormed, [Next]_vars, NEW w \in Workers,
           batch'[w] = batch[w], at'[w] = at[w], step'[w] = step[w]
    PROVE  WorkerOK(w)'
<1>0. WorkerOK(w) /\ OutboxTypes /\ OutboxTypes' /\ Null \notin Jobs
      BY OutboxTypesStep, ServiceAssumption DEF WellFormed
<1>1. \A j \in batch[w] : j \in Jobs /\ outbox'[j].enqueued
      BY <1>0, RowsGrow DEF OutboxTypes, WorkerOK
<1>2. step[w] = "markProcessed" => Accepted(at[w])'
  <2> SUFFICES ASSUME step[w] = "markProcessed" PROVE Accepted(at[w])'
      OBVIOUS
  <2>1. PICK j \in Jobs : j = at[w] /\ Accepted(j)
        BY <1>0, <1>1 DEF WorkerOK
  <2>2. Accepted(j)'
        BY <2>1, AcceptedStays
  <2> QED BY <2>1, <2>2 DEF Accepted, GoneOut
<1>3. step[w] \in {"deadLetterRefusal", "deadLetter"} => outbox'[at[w]].attempts >= MaxAttempts
  <2> SUFFICES ASSUME step[w] \in {"deadLetterRefusal", "deadLetter"}
               PROVE  outbox'[at[w]].attempts >= MaxAttempts
      OBVIOUS
  <2>1. at[w] \in Jobs /\ outbox[at[w]].attempts >= MaxAttempts
        BY <1>0, <1>1 DEF WorkerOK
  <2>2. outbox[at[w]].attempts <= outbox'[at[w]].attempts
        BY <2>1, RowsGrow
  <2>3. outbox[at[w]].attempts \in Nat /\ outbox'[at[w]].attempts \in Nat
        BY <1>0, <2>1 DEF OutboxTypes, Row
  <2> QED BY <2>1, <2>2, <2>3, OutboxAssumption
<1> QED BY <1>0, <1>1, <1>2, <1>3 DEF WorkerOK, Accepted, GoneOut

\* Each statement of a worker leaves it with what the next one needs.
LEMMA WorkerMoves ==
    ASSUME WellFormed, [Next]_vars, NEW w \in Workers, Serve(w) \/ WorkerFaults(w),
           UNCHANGED serviceVars
    PROVE  WorkerOK(w)'
<1> USE DEF OutboxTypes
<1>0. WorkerOK(w) /\ OutboxTypes /\ OutboxTypes' /\ ServiceTypes /\ Null \notin Jobs
      BY OutboxTypesStep, ServiceAssumption DEF WellFormed
<1>1. \A j \in batch[w] : j \in Jobs /\ outbox'[j].enqueued
      BY <1>0, RowsGrow DEF WorkerOK
<1>2. CASE ClaimBatch(w)
  <2>1. /\ step'[w] = "publish" /\ at'[w] = Null
        /\ \A j \in batch'[w] : j \in Jobs /\ Pending(j)
        BY <1>0, <1>2 DEF ClaimBatch, Claimable, WorkerOK
  <2>2. \A j \in batch'[w] : outbox'[j].enqueued
        BY <2>1, RowsGrow DEF Pending
  <2> QED BY <2>1, <2>2 DEF WorkerOK
<1>3. CASE Publish(w)
  <2>1. PICK j \in batch[w] :
          /\ at' = [at EXCEPT ![w] = j]
          /\ queue' = [queue EXCEPT ![j] = @ + 1] \/ lost' = lost \cup {j}
        BY <1>3 DEF Publish, TakeUp
  <2>2. Accepted(j)'
        BY <1>0, <1>1, <2>1 DEF Accepted, GoneOut, ServiceTypes, serviceVars
  <2>3. at'[w] = j /\ step'[w] = "markProcessed" /\ batch'[w] = batch[w]
        BY <1>0, <1>3, <2>1 DEF Publish, Continue
  <2> QED BY <1>1, <2>2, <2>3 DEF WorkerOK, Accepted, GoneOut
<1>4. CASE PublishFails(w) \/ PublishIsRefused(w)
      BY <1>0, <1>1, <1>4 DEF PublishFails, PublishIsRefused, TakeUp, Continue, WorkerOK
<1>5. ASSUME Settled(w) PROVE WorkerOK(w)'
  <2>1. at'[w] = Null /\ batch'[w] \subseteq batch[w] /\ step'[w] \in {"idle", "publish"}
        BY <1>0, <1>5 DEF Settled, Continue
  <2> QED BY <1>1, <2>1 DEF WorkerOK
<1>6. CASE MarkProcessed(w) \/ DeadLetter(w)
      BY <1>5, <1>6 DEF MarkProcessed, DeadLetter
<1>7. CASE RecordFailure(w) /\ ~Settled(w)
  <2>1. at[w] \in batch[w] /\ at[w] \in Jobs
        BY <1>0, <1>1, <1>7 DEF RecordFailure, WorkerOK
  <2>2. /\ outbox[at[w]].attempts \in Nat
        /\ outbox'[at[w]].attempts = outbox[at[w]].attempts + 1
        /\ ~(outbox[at[w]].attempts + 1 < MaxAttempts)
        BY <1>0, <1>7, <2>1 DEF RecordFailure, Row
  <2>3. /\ step'[w] \in {"deadLetterRefusal", "deadLetter"}
        /\ batch'[w] = batch[w] /\ at'[w] = at[w]
        BY <1>0, <1>7 DEF RecordFailure, Continue
  <2>4. outbox'[at'[w]].attempts >= MaxAttempts
        BY <2>2, <2>3, OutboxAssumption
  <2> QED BY <1>1, <2>1, <2>3, <2>4 DEF WorkerOK
<1>8. CASE (MarkProcessedFails(w) \/ RecordFailureFails(w)) /\ ~Settled(w)
      BY <1>0, <1>1, <1>8 DEF MarkProcessedFails, RecordFailureFails, Continue, WorkerOK
<1>9. CASE WorkerCrashes(w)
      BY <1>0, <1>9 DEF WorkerCrashes, Continue, WorkerOK
<1> QED BY <1>2, <1>3, <1>4, <1>5, <1>6, <1>7, <1>8, <1>9 DEF Serve, WorkerFaults

LEMMA WorkersStep == WellFormed /\ [Next]_vars => \A w \in Workers : WorkerOK(w)'
<1> SUFFICES ASSUME WellFormed, [Next]_vars, NEW w \in Workers PROVE WorkerOK(w)'
    OBVIOUS
<1>0. OutboxTypes
      BY DEF WellFormed
<1>1. CASE UNCHANGED <<batch, at, step>>
      BY <1>1, WorkerKept
<1>2. ASSUME NEW v \in Workers, Serve(v) \/ WorkerFaults(v), UNCHANGED serviceVars
      PROVE  WorkerOK(w)'
  <2>1. CASE v = w
        BY <1>2, <2>1, WorkerMoves
  <2>2. CASE v # w
    <3>1. batch'[w] = batch[w] /\ at'[w] = at[w] /\ step'[w] = step[w]
          BY <1>0, <1>2, <2>2
          DEF OutboxTypes, Serve, WorkerFaults, ClaimBatch, Publish, PublishFails, PublishIsRefused,
              MarkProcessed, MarkProcessedFails, RecordFailure, RecordFailureFails, DeadLetter,
              WorkerCrashes, Settled, Continue, TakeUp
    <3> QED BY <3>1, WorkerKept
  <2> QED BY <2>1, <2>2
<1> QED BY <1>1, <1>2, ServiceLeavesOutbox DEF Next, Tick, Enqueue, vars, outboxVars

-----------------------------------------------------------------------------
(* The notification service *)

\* A row stays a row whatever is written of its fields.
LEMMA RowWritten ==
    ASSUME NEW row \in RowType, NEW status \in Statuses, NEW w \in Nat, NEW retries \in Nat,
           NEW age \in 0..SendLease + 1
    PROVE  /\ [row EXCEPT !.status = status, !.wait = w, !.retries = retries, !.age = age] \in RowType
           /\ [row EXCEPT !.status = status, !.wait = w, !.age = age] \in RowType
           /\ [row EXCEPT !.status = status, !.wait = w] \in RowType
           /\ [row EXCEPT !.status = status, !.age = age] \in RowType
           /\ [row EXCEPT !.wait = w, !.age = age] \in RowType
<1>1. [row EXCEPT !.status = status, !.wait = w, !.retries = retries, !.age = age] \in RowType
      BY DEF RowType
<1>2. [row EXCEPT !.status = status, !.wait = w, !.age = age] \in RowType
      BY DEF RowType
<1>3. [row EXCEPT !.status = status, !.wait = w] \in RowType
      BY DEF RowType
<1>4. [row EXCEPT !.status = status, !.age = age] \in RowType
      BY DEF RowType
<1>5. [row EXCEPT !.wait = w, !.age = age] \in RowType
      BY DEF RowType
<1> QED BY <1>1, <1>2, <1>3, <1>4, <1>5

LEMMA OutcomeWritten ==
    ASSUME ServiceTypes, NEW k \in Keys, rows[k] # Null, NEW status \in Statuses, NEW w \in Nat,
           NEW retries \in Nat, SetRow(k, status, w, retries)
    PROVE  \A x \in Keys : rows'[x] \in RowType \/ rows'[x] = rows[x]
<1>1. rows[k] \in RowType /\ 0 \in 0..SendLease + 1
      BY ServiceAssumption DEF ServiceTypes
<1>2. [rows[k] EXCEPT !.status = status, !.wait = w, !.retries = retries, !.age = 0] \in RowType
      BY <1>1, RowWritten
<1> QED BY <1>2 DEF SetRow, ServiceTypes

\* What a consumer writes is a row.
LEMMA Upserted ==
    ASSUME WellFormed, NEW p \in Senders, Upsert(p)
    PROVE  /\ record[p].key \in Keys /\ rows'[record[p].key] \in RowType
           /\ \E row : rows' = [rows EXCEPT ![record[p].key] = row]
<1> USE ServiceAssumption
<1>0. ServiceTypes /\ SenderOK(p) /\ record[p] \in RecordType
      BY DEF WellFormed, ServiceTypes
<1>1. record[p].job \in Jobs /\ record[p].key \in Keys
      BY <1>0 DEF Upsert, SenderOK, Senders
<1>2. Job[record[p].job].entity \in Entities
      BY <1>1 DEF JobType
<1>3. (IF rows[record[p].key] = Null THEN 0 ELSE rows[record[p].key].retries) \in Nat
      BY <1>0, <1>1 DEF ServiceTypes, RowType
<1>4. (IF record[p].later THEN wait[record[p].job] ELSE 0) \in Nat
      BY <1>0, <1>1 DEF ServiceTypes
<1>5. rows'[record[p].key] \in RowType
      BY <1>0, <1>1, <1>2, <1>3, <1>4 DEF Upsert, RowType, ServiceTypes, Statuses
<1> QED BY <1>1, <1>5 DEF Upsert

\* No row is ever deleted.
LEMMA RowsStay ==
    ASSUME WellFormed, [Next]_vars
    PROVE  /\ rows' \in [Keys -> RowType \cup {Null}]
           /\ \A k \in Keys : rows[k] # Null => rows'[k] # Null
<1> USE ServiceAssumption
<1>0. ServiceTypes
      BY DEF WellFormed
<1>1. SUFFICES /\ rows' = [k \in Keys |-> rows'[k]]
               /\ \A k \in Keys : rows'[k] \in RowType \/ rows'[k] = rows[k]
      BY <1>0 DEF ServiceTypes
<1>2. CASE UNCHANGED rows
      BY <1>0, <1>2 DEF ServiceTypes
<1>3. ASSUME NEW p \in Senders, Work(p) \/ SenderFaults(p), ~UNCHANGED rows
      PROVE  /\ rows' = [k \in Keys |-> rows'[k]]
             /\ \A k \in Keys : rows'[k] \in RowType \/ rows'[k] = rows[k]
  <2>0. SenderOK(p) /\ record[p] \in RecordType
        BY <1>0 DEF WellFormed, ServiceTypes
  <2>1. CASE CancelReminders(p)
    <3>1. "CANCELLED" \in Statuses /\ 0 \in Nat
          BY DEF Statuses
    <3>2. PICK entity : rows' = [k \in Keys |-> Cancelled(rows[k], entity)]
          BY <2>1 DEF CancelReminders
    <3>3. ASSUME NEW k \in Keys, rows'[k] # rows[k] PROVE rows'[k] \in RowType
      <4>1. rows[k] \in RowType /\ rows'[k] = [rows[k] EXCEPT !.status = "CANCELLED", !.wait = 0]
            BY <1>0, <3>2, <3>3 DEF Cancelled, ServiceTypes
      <4>2. ASSUME NEW r \in RowType PROVE [r EXCEPT !.status = "CANCELLED", !.wait = 0] \in RowType
            BY <3>1 DEF RowType
      <4> QED BY <4>1, <4>2
    <3> QED BY <3>2, <3>3
  <2>2. CASE Upsert(p)
        BY <1>0, <2>2, Upserted DEF ServiceTypes
  <2>3. CASE Reclaim(p)
    <3>1. "RETRYING" \in Statuses /\ 0 \in Nat /\ 0 \in 0..SendLease + 1
          BY DEF Statuses
    <3> QED BY <1>0, <2>3, <3>1, RowWritten DEF Reclaim, Stale, ServiceTypes
  <2>4. CASE ClaimDue(p)
    <3>1. "SENDING" \in Statuses /\ 0 \in Nat /\ 0 \in 0..SendLease + 1
          BY DEF Statuses
    <3>2. PICK keys \in SUBSET {k \in Keys : Due(rows[k])} :
             rows' = [k \in Keys |-> IF k \in keys THEN [rows[k] EXCEPT !.status = "SENDING", !.age = 0]
                                    ELSE rows[k]]
          BY <2>4 DEF ClaimDue
    <3>3. ASSUME NEW k \in keys PROVE rows'[k] \in RowType
      <4>1. rows[k] \in RowType /\ rows'[k] = [rows[k] EXCEPT !.status = "SENDING", !.age = 0]
            BY <1>0, <3>2, <3>3 DEF Due, ServiceTypes
      <4>2. ASSUME NEW r \in RowType PROVE [r EXCEPT !.status = "SENDING", !.age = 0] \in RowType
            BY <3>1 DEF RowType
      <4> QED BY <4>1, <4>2
    <3> QED BY <3>2, <3>3
  <2>5. CASE MarkSent(p) \/ MarkFailed(p) \/ MarkForRetry(p)
    <3>1. record[p].key \in Keys /\ rows[record[p].key] # Null /\ rows[record[p].key] \in RowType
          BY <1>0, <2>0, <2>5 DEF MarkSent, MarkFailed, MarkForRetry, SenderOK, ClaimOK, ServiceTypes
    <3>2. rows[record[p].key].retries \in Nat /\ record[p].retries \in Nat
          BY <2>0, <3>1 DEF RowType, RecordType
    <3>3. ASSUME NEW m \in Nat, NEW n \in Nat PROVE m * n \in Nat
          BY <3>3
    <3>4. Backoff * (record[p].retries + 1) \in Nat
          BY <3>2, <3>3
    <3>5. \E status \in Statuses, w \in Nat, retries \in Nat :
             SetRow(record[p].key, status, w, retries)
          BY <2>5, <3>2, <3>4 DEF MarkSent, MarkFailed, MarkForRetry, Statuses
    <3>6. \A k \in Keys : rows'[k] \in RowType \/ rows'[k] = rows[k]
          BY <1>0, <3>1, <3>5, OutcomeWritten
    <3> QED BY <1>0, <3>5, <3>6 DEF SetRow, ServiceTypes
  <2> QED BY <1>3, <2>1, <2>2, <2>3, <2>4, <2>5
          DEF Work, SenderFaults, Deliver, LookUp, SendMail, HandlingFails, ConsumerCrashes,
              SweeperCrashes, SendMailFails, MarkFails
<1>4. CASE Tick
  <2>1. ASSUME NEW n \in Nat PROVE CountDown(n) \in Nat
        BY <2>1 DEF CountDown
  <2>2. rows' = [k \in Keys |-> rows'[k]]
        BY <1>4 DEF Tick, ServiceTick
  <2>3. ASSUME NEW k \in Keys, rows[k] # Null PROVE rows'[k] \in RowType
    <3>1. rows[k] \in RowType
          BY <1>0, <2>3 DEF ServiceTypes
    <3>2. rows'[k] = [rows[k] EXCEPT !.wait = CountDown(@),
                                     !.age = IF rows[k].status = "SENDING" /\ @ <= SendLease
                                             THEN @ + 1 ELSE @]
          BY <1>4, <2>3 DEF Tick, ServiceTick
    <3>3. /\ CountDown(rows[k].wait) \in Nat
          /\ (IF rows[k].status = "SENDING" /\ rows[k].age <= SendLease
              THEN rows[k].age + 1 ELSE rows[k].age) \in 0..SendLease + 1
          BY <2>1, <3>1 DEF RowType
    <3>4. "SENT" \in Statuses /\ 0 \in Nat
          BY DEF Statuses
    <3>5. [rows[k] EXCEPT !.wait = CountDown(rows[k].wait),
                          !.age = IF rows[k].status = "SENDING" /\ rows[k].age <= SendLease
                                  THEN rows[k].age + 1 ELSE rows[k].age] \in RowType
          BY <3>1, <3>3, <3>4, RowWritten
    <3> QED BY <3>2, <3>5
  <2>4. ASSUME NEW k \in Keys, rows[k] = Null PROVE rows'[k] = rows[k]
        BY <1>4, <2>4 DEF Tick, ServiceTick
  <2> QED BY <2>2, <2>3, <2>4
<1> QED BY <1>2, <1>3, <1>4 DEF Next, vars, serviceVars, Enqueue

\* A step of the service is one of one sender.
LEMMA SenderFrame ==
    ASSUME WellFormed, NEW p \in Senders, Work(p) \/ SenderFaults(p)
    PROVE  /\ \E next, r : Goto(p, next, r)
           /\ UNCHANGED claimed \/ (p \in Sweepers /\ \E c : claimed' = [claimed EXCEPT ![p] = c])
           /\ UNCHANGED <<wait, lost>>
<1>0. SenderOK(p)
      BY DEF WellFormed
<1>1. CASE Deliver(p)
      BY <1>1 DEF Deliver, Take
<1>2. CASE CancelReminders(p) \/ LookUp(p) \/ Upsert(p) \/ HandlingFails(p) \/ ConsumerCrashes(p)
      BY <1>2 DEF CancelReminders, LookUp, Upsert, HandlingFails, ConsumerCrashes, Done
<1>3. CASE Reclaim(p) \/ SweeperCrashes(p) \/ SendMail(p) \/ SendMailFails(p)
      BY <1>3 DEF Reclaim, SweeperCrashes, SendMail, SendMailFails, Done
<1>4. CASE ClaimDue(p)
      BY <1>0, <1>4 DEF ClaimDue, SendOneOf, Done, SenderOK, Senders
<1>5. CASE MarkSent(p) \/ MarkFailed(p) \/ MarkForRetry(p) \/ MarkFails(p)
  <2>1. NextRow(p) /\ UNCHANGED <<wait, lost>>
        BY <1>5 DEF MarkSent, MarkFailed, MarkForRetry, MarkFails, Succeed, Fail
  <2> QED BY <2>1 DEF NextRow, SendOneOf, Done
<1> QED BY <1>1, <1>2, <1>3, <1>4, <1>5 DEF Work, SenderFaults

\* What a sender has in hand is typed, and it is of a row that exists.
SenderTypes(p) ==
    /\ stage[p] \in Stages \cup {"claim"}
    /\ record[p] \in RecordType
    /\ p \in Sweepers => claimed[p] \subseteq RecordType

LEMMA ClaimRecord ==
    ASSUME ServiceTypes, NEW k \in Keys, rows[k] # Null
    PROVE  Claim(k) \in RecordType /\ Claim(k).key = k
BY ServiceAssumption DEF ServiceTypes, RowType, RecordType, Claim, NoRecord

LEMMA TakenTypes ==
    ASSUME NEW j \in Jobs, NEW from \in {"queue", "dlq"}
    PROVE  /\ Message(j, from) \in RecordType
           /\ Message(j, from).job = j /\ Message(j, from).from = from
           /\ Job[j].kind = "mail" => Message(j, from).key \in Keys
<1>2. Job[j] \in JobType
      BY ServiceAssumption
<1>3. Job[j].kind = "mail" => Job[j].key \in Keys
      BY <1>2 DEF JobType
<1>4. (wait[j] > 0) \in BOOLEAN
      OBVIOUS
<1> QED BY <1>3, <1>4 DEF RecordType, Message

LEMMA SenderMoves ==
    ASSUME WellFormed, [Next]_vars, NEW p \in Senders, Work(p) \/ SenderFaults(p)
    PROVE  SenderTypes(p)' /\ SenderOK(p)'
<1> USE ServiceAssumption DEF ServiceTypes, Stages
<1>0. /\ ServiceTypes /\ SenderOK(p) /\ SenderTypes(p)
      /\ \A k \in Keys : rows[k] # Null => rows'[k] # Null
      BY RowsStay DEF WellFormed, SenderTypes
<1>1. NoRecord \in RecordType /\ NoRecord.job = Null
      BY DEF NoRecord, RecordType
<1>2. ASSUME Done(p), UNCHANGED claimed \/ (p \in Sweepers /\ claimed' = [claimed EXCEPT ![p] = {}])
      PROVE  SenderTypes(p)' /\ SenderOK(p)'
  <2>1. stage'[p] = "idle" /\ record'[p] = NoRecord
        BY <1>0, <1>2 DEF Done, Goto
  <2>2. p \in Sweepers => claimed'[p] \subseteq claimed[p]
        BY <1>0, <1>2
  <2> QED BY <1>0, <1>1, <2>1, <2>2 DEF SenderTypes, SenderOK, ClaimOK
<1>3. CASE Deliver(p)
  <2>1. PICK j \in Jobs, from \in {"queue", "dlq"} : Take(p, j, from)
        BY <1>3 DEF Deliver
  <2>2. /\ record'[p] = Message(j, from)
        /\ stage'[p] = IF Job[j].kind = "mail" THEN "lookUp" ELSE "cancel"
        BY <1>0, <2>1 DEF Take, Goto
  <2>3. p \in Consumers /\ p \notin Sweepers
        BY <1>3 DEF Deliver
  <2> QED BY <2>2, <2>3, TakenTypes DEF SenderTypes, SenderOK
<1>4. CASE CancelReminders(p) \/ HandlingFails(p) \/ ConsumerCrashes(p) \/ SweeperCrashes(p)
      BY <1>2, <1>4 DEF CancelReminders, HandlingFails, ConsumerCrashes, SweeperCrashes
<1>5. CASE LookUp(p)
  <2>1. CASE Goto(p, "upsert", record[p])
    <3>1. stage'[p] = "upsert" /\ record'[p] = record[p] /\ UNCHANGED claimed
          BY <1>0, <1>5, <2>1 DEF Goto, LookUp
    <3> QED BY <1>0, <1>5, <3>1 DEF LookUp, SenderTypes, SenderOK
  <2> QED BY <1>2, <1>5, <2>1 DEF LookUp
<1>6. CASE Upsert(p)
  <2>1. p \in Consumers /\ p \notin Sweepers /\ record[p].key \in Keys
        BY <1>0, <1>6 DEF Upsert, SenderOK, Senders
  <2>2. CASE ~Done(p)
    <3> DEFINE n == IF rows[record[p].key] = Null THEN 0 ELSE rows[record[p].key].retries
    <3>1. stage'[p] = "send" /\ record'[p] = [record[p] EXCEPT !.retries = n]
          BY <1>0, <1>6, <2>2 DEF Upsert, Goto
    <3>2. n \in Nat
          BY <1>0, <2>1 DEF RowType
    <3>3. /\ record'[p] \in RecordType
          /\ record'[p].job = record[p].job /\ record'[p].from = record[p].from
          /\ record'[p].key = record[p].key
          BY <1>0, <3>1, <3>2 DEF RecordType
    <3>4. rows'[record[p].key] # Null
          BY <1>6, Upserted
    <3> QED BY <1>0, <1>6, <2>1, <3>1, <3>3, <3>4 DEF Upsert, SenderTypes, SenderOK, ClaimOK
  <2> QED BY <1>2, <1>6, <2>2 DEF Upsert
<1>7. CASE Reclaim(p)
  <2>1. /\ p \in Sweepers /\ p \notin Consumers /\ UNCHANGED claimed
        /\ stage'[p] = "claim" /\ record'[p] = NoRecord
        BY <1>0, <1>7 DEF Reclaim, Goto
  <2> QED BY <1>0, <1>1, <2>1 DEF SenderTypes, SenderOK, ClaimOK
<1>8. ASSUME p \in Sweepers, NEW claims, SendOneOf(p, claims),
             \A r \in claims : r \in RecordType /\ ClaimOK(r)
      PROVE  SenderTypes(p)' /\ SenderOK(p)'
  <2>1. PICK r \in claims : /\ stage'[p] = "send" /\ record'[p] = r
                            /\ claimed'[p] = claims \ {r}
        BY <1>0, <1>8 DEF SendOneOf, Goto
  <2> QED BY <1>0, <1>8, <2>1 DEF SenderTypes, SenderOK, ClaimOK, Senders
<1>9. CASE ClaimDue(p)
  <2>1. p \in Sweepers
        BY <1>0, <1>9 DEF ClaimDue, SenderOK, Senders
  <2>2. PICK keys \in SUBSET {k \in Keys : Due(rows[k])} :
           \/ Done(p) /\ UNCHANGED claimed
           \/ SendOneOf(p, {Claim(k) : k \in keys})
        BY <1>9 DEF ClaimDue
  <2>3. \A k \in keys : rows[k] # Null
        BY <2>2 DEF Due
  <2>4. \A r \in {Claim(k) : k \in keys} : r \in RecordType /\ ClaimOK(r)
        BY <1>0, <2>2, <2>3, ClaimRecord DEF ClaimOK
  <2> QED BY <1>2, <1>8, <2>1, <2>2, <2>4
<1>10. ASSUME NextRow(p) PROVE SenderTypes(p)' /\ SenderOK(p)'
  <2>1. CASE p \in Sweepers /\ claimed[p] # {}
    <3>1. SendOneOf(p, claimed[p])
          BY <1>10, <2>1 DEF NextRow
    <3>2. \A r \in claimed[p] : r \in RecordType /\ ClaimOK(r)
          BY <1>0, <2>1 DEF SenderOK, SenderTypes
    <3> QED BY <1>8, <2>1, <3>1, <3>2
  <2>2. CASE ~(p \in Sweepers /\ claimed[p] # {})
        BY <1>2, <1>10, <2>2 DEF NextRow
  <2> QED BY <2>1, <2>2
<1>11. CASE SendMail(p) \/ SendMailFails(p)
  <2>1. /\ stage[p] = "send" /\ stage'[p] \in {"markSent", "markFailed", "markRetry"}
        /\ record'[p] = record[p] /\ UNCHANGED claimed
        BY <1>0, <1>11 DEF SendMail, SendMailFails, Goto
  <2> QED BY <1>0, <2>1 DEF SenderTypes, SenderOK, ClaimOK
<1>12. CASE MarkSent(p) \/ MarkFailed(p) \/ MarkForRetry(p) \/ MarkFails(p)
      BY <1>10, <1>12 DEF MarkSent, MarkFailed, MarkForRetry, MarkFails, Succeed, Fail
<1> QED BY <1>3, <1>4, <1>5, <1>6, <1>7, <1>9, <1>11, <1>12 DEF Work, SenderFaults

\* The queues and the histories, which a sender moves its message between.
QueueTypes ==
    /\ queue \in [Jobs -> Nat] /\ dlq \in [Jobs -> Nat]
    /\ handled \subseteq Jobs /\ dropped \subseteq Jobs

LEMMA QueuesStep ==
    ASSUME WellFormed, NEW p \in Senders, Work(p) \/ SenderFaults(p)
    PROVE  QueueTypes'
<1>0. QueueTypes /\ SenderOK(p)
      BY DEF WellFormed, ServiceTypes, QueueTypes
<1> USE DEF QueueTypes
<1>1. ASSUME p \in Consumers, stage[p] # "idle", Ack(p) \/ UNCHANGED handled,
             Nack(p) \/ UNCHANGED <<dlq, dropped>>, UNCHANGED queue
      PROVE  QueueTypes'
  <2>1. record[p].job \in Jobs
        BY <1>0, <1>1 DEF SenderOK
  <2> QED BY <1>0, <1>1, <2>1 DEF Ack, Nack
<1>2. CASE Deliver(p)
      BY <1>0, <1>2 DEF Deliver
<1>3. CASE CancelReminders(p) \/ LookUp(p) \/ Upsert(p) \/ HandlingFails(p)
  <2>1. p \in Consumers /\ stage[p] # "idle"
        BY <1>0, <1>3 DEF CancelReminders, LookUp, Upsert, HandlingFails, SenderOK, Senders
  <2> QED BY <1>1, <1>3, <2>1 DEF CancelReminders, LookUp, Upsert, HandlingFails
<1>4. CASE ConsumerCrashes(p)
  <2>1. record[p].job \in Jobs
        BY <1>0, <1>4 DEF ConsumerCrashes, SenderOK
  <2> QED BY <1>0, <1>4, <2>1 DEF ConsumerCrashes
<1>5. CASE Reclaim(p) \/ ClaimDue(p) \/ SweeperCrashes(p) \/ SendMail(p) \/ SendMailFails(p)
      BY <1>0, <1>5 DEF Reclaim, ClaimDue, SweeperCrashes, SendMail, SendMailFails
<1>6. CASE MarkSent(p) \/ MarkFailed(p) \/ MarkForRetry(p) \/ MarkFails(p)
  <2>1. stage[p] # "idle" /\ UNCHANGED queue /\ (Succeed(p) \/ Fail(p))
        BY <1>6 DEF MarkSent, MarkFailed, MarkForRetry, MarkFails
  <2> QED BY <1>0, <1>1, <2>1 DEF Succeed, Fail
<1> QED BY <1>2, <1>3, <1>4, <1>5, <1>6 DEF Work, SenderFaults

LEMMA SendersStep == WellFormed /\ [Next]_vars => \A p \in Senders : SenderOK(p)'
<1> SUFFICES ASSUME WellFormed, [Next]_vars, NEW p \in Senders PROVE SenderOK(p)'
    OBVIOUS
<1>0. ServiceTypes /\ SenderOK(p) /\ \A k \in Keys : rows[k] # Null => rows'[k] # Null
      BY RowsStay DEF WellFormed
<1>1. ASSUME stage'[p] = stage[p], record'[p] = record[p],
             p \in Sweepers => claimed'[p] = claimed[p]
      PROVE  SenderOK(p)'
      BY <1>0, <1>1 DEF SenderOK, ClaimOK
<1>2. CASE UNCHANGED <<stage, record, claimed>>
      BY <1>1, <1>2
<1>3. ASSUME NEW q \in Senders, Work(q) \/ SenderFaults(q) PROVE SenderOK(p)'
  <2>1. CASE q = p
        BY <1>3, <2>1, SenderMoves
  <2>2. CASE q # p
    <3>1. PICK next, r : Goto(q, next, r)
          BY <1>3, SenderFrame
    <3>2. stage'[p] = stage[p] /\ record'[p] = record[p]
          BY <1>0, <2>2, <3>1 DEF Goto, ServiceTypes
    <3>3. p \in Sweepers => claimed'[p] = claimed[p]
          BY <1>0, <1>3, <2>2, SenderFrame DEF ServiceTypes
    <3> QED BY <1>1, <3>2, <3>3
  <2> QED BY <2>1, <2>2
<1> QED BY <1>2, <1>3 DEF Next, Tick, Enqueue, vars, serviceVars

LEMMA ServiceTypesStep == WellFormed /\ [Next]_vars => ServiceTypes'
<1> SUFFICES ASSUME WellFormed, [Next]_vars PROVE ServiceTypes'
    OBVIOUS
<1>0. ServiceTypes /\ OutboxTypes /\ rows' \in [Keys -> RowType \cup {Null}]
      BY RowsStay DEF WellFormed
<1>1. CASE UNCHANGED vars
      BY <1>0, <1>1 DEF vars, serviceVars, ServiceTypes
<1>2. ASSUME NEW j \in Jobs, Enqueue(j), UNCHANGED serviceVars PROVE ServiceTypes'
      BY <1>0, <1>2 DEF Enqueue, serviceVars, ServiceTypes
<1>3. ASSUME NEW w \in Workers, Serve(w) \/ WorkerFaults(w), UNCHANGED serviceVars
      PROVE  ServiceTypes'
  <2>1. queue' \in [Jobs -> Nat] /\ lost' \subseteq Jobs
        BY <1>0, <1>3 DEF OutboxTypes, ServiceTypes, Serve, WorkerFaults, ClaimBatch, Publish,
                          PublishFails, PublishIsRefused, MarkProcessed, MarkProcessedFails,
                          RecordFailure, RecordFailureFails, DeadLetter, WorkerCrashes
  <2> QED BY <1>0, <1>3, <2>1 DEF serviceVars, ServiceTypes
<1>4. CASE Tick
  <2>1. wait' \in [Jobs -> Nat]
    <3>1. ASSUME NEW n \in Nat PROVE CountDown(n) \in Nat
          BY <3>1 DEF CountDown
    <3> QED BY <1>0, <1>4, <3>1 DEF Tick, ServiceTick, ServiceTypes
  <2> QED BY <1>0, <1>4, <2>1 DEF Tick, ServiceTypes
<1>5. ASSUME NEW p \in Senders, Work(p) \/ SenderFaults(p) PROVE ServiceTypes'
  <2>1. QueueTypes' /\ SenderTypes(p)' /\ UNCHANGED <<wait, lost>>
        BY <1>5, QueuesStep, SenderMoves, SenderFrame
  <2>2. PICK next, r : /\ stage' = [stage EXCEPT ![p] = next] /\ record' = [record EXCEPT ![p] = r]
        BY <1>5, SenderFrame DEF Goto
  <2>3. stage' \in [Senders -> Stages \cup {"claim"}] /\ record' \in [Senders -> RecordType]
        BY <1>0, <2>1, <2>2 DEF SenderTypes, ServiceTypes
  <2>4. claimed' \in [Sweepers -> SUBSET RecordType]
        BY <1>0, <1>5, <2>1, SenderFrame DEF SenderTypes, ServiceTypes
  <2> QED BY <1>0, <2>1, <2>3, <2>4 DEF QueueTypes, ServiceTypes
<1> QED BY <1>1, <1>2, <1>3, <1>4, <1>5 DEF Next

-----------------------------------------------------------------------------
(* The theorems *)

\* The inductive invariant of the pipeline: what each worker, consumer and sweeper has in hand exists,
\* and a worker marks as processed only what the channel has accepted (outbox.worker.ts, notificationService.ts).
THEOREM WellFormedInvariant == Spec => []WellFormed
<1>1. WellFormed /\ [Next]_vars => WellFormed'
      BY OutboxTypesStep, SettledStep, WorkersStep, ServiceTypesStep, SendersStep DEF WellFormed
<1> QED BY <1>1, InitWellFormed, PTL DEF Spec

\* Tables, queues and handlers keep their types whatever crashes, and a settled row is never claimed
\* again (claimBatch, markProcessed, recordFailure).
THEOREM TypeCorrect == Spec => []TypeOK
<1>1. WellFormed => TypeOK
  <2> SUFFICES ASSUME WellFormed PROVE TypeOK
      OBVIOUS
  <2> QED BY DEF WellFormed, TypeOK, OutboxTypes, SettledRows, WorkerOK, ServiceTypes
<1> QED BY <1>1, WellFormedInvariant, PTL

-----------------------------------------------------------------------------
(* The delivery contract *)

\* The mapping of NotificationPipeline!Contract
Promise == <<{j \in Jobs : Pending(j)}, {j \in Jobs : GoneOut(j)}, lost, {j \in Jobs : outbox[j].processed},
             {j \in Jobs : outbox[j].deadLettered}, [j \in Jobs |-> outbox[j].attempts]>>

LEMMA ContractInit == Init => Contract!Init
<1> SUFFICES ASSUME Init PROVE Contract!Init
    OBVIOUS
<1>1. \A j \in Jobs : ~GoneOut(j)
      BY ServiceAssumption DEF Init, OutboxInit, ServiceInit, GoneOut, NoRecord, Senders
<1> QED BY <1>1 DEF Init, OutboxInit, NoRow, Pending, Contract!Init

\* What the service does is nothing to the contract, nor is the passing of time.
LEMMA ServiceIsSilent ==
    ASSUME WellFormed, NEW p \in Senders, Work(p) \/ SenderFaults(p)
    PROVE  UNCHANGED Promise
<1>1. UNCHANGED <<outbox, lost>>
      BY ServiceLeavesOutbox DEF outboxVars
<1>2. \A j \in Jobs : GoneOut(j)' <=> GoneOut(j)
      BY SameGoneOut
<1> QED BY <1>1, <1>2 DEF Promise, Pending

LEMMA TimeIsSilent == ASSUME WellFormed, Tick PROVE UNCHANGED Promise
<1>1. UNCHANGED lost /\ \A j \in Jobs : GoneOut(j)' <=> GoneOut(j)
      BY DEF Tick, GoneOut
<1>2. \A j \in Jobs : /\ outbox'[j].enqueued = outbox[j].enqueued
                      /\ outbox'[j].processed = outbox[j].processed
                      /\ outbox'[j].deadLettered = outbox[j].deadLettered
                      /\ outbox'[j].attempts = outbox[j].attempts
      BY DEF WellFormed, OutboxTypes, Row, Tick, OutboxTick
<1> QED BY <1>1, <1>2 DEF Promise, Pending

\* Messages that have gone out, when a step touches no queue
LEMMA SameMessages ==
    ASSUME UNCHANGED queue, UNCHANGED serviceVars, NEW j
    PROVE  GoneOut(j)' <=> GoneOut(j)
BY DEF GoneOut, serviceVars

LEMMA RequestKept ==
    ASSUME WellFormed, NEW j \in Jobs, Enqueue(j), UNCHANGED serviceVars
    PROVE  Contract!Next
<1>0. OutboxTypes /\ SettledRows /\ \A i \in Jobs : outbox[i] \in Row
      BY DEF WellFormed, OutboxTypes
<1>1. outbox' = [outbox EXCEPT ![j].enqueued = TRUE] /\ ~outbox[j].enqueued
      BY DEF Enqueue
<1>2. /\ ~outbox[j].processed /\ ~outbox[j].deadLettered
      /\ outbox'[j].enqueued /\ ~outbox'[j].processed /\ ~outbox'[j].deadLettered
      /\ outbox'[j].attempts = outbox[j].attempts
      /\ \A i \in Jobs \ {j} : outbox'[i] = outbox[i]
      BY <1>0, <1>1 DEF SettledRows, OutboxTypes, Row
<1>3. \A i \in Jobs : GoneOut(i)' <=> GoneOut(i)
      BY SameMessages DEF Enqueue
<1>4. UNCHANGED lost
      BY DEF Enqueue
<1>5. Contract!Request(j)
      BY <1>1, <1>2, <1>3, <1>4 DEF Contract!Request, Contract!Requested, Pending
<1> QED BY <1>5 DEF Contract!Next

\* A worker's step is one of the contract, or none.
LEMMA WorkKept ==
    ASSUME WellFormed, [Next]_vars, NEW w \in Workers, Serve(w) \/ WorkerFaults(w),
           UNCHANGED serviceVars
    PROVE  Contract!Next \/ UNCHANGED Promise
<1>0. /\ OutboxTypes /\ WorkerOK(w) /\ ServiceTypes
      /\ \A i \in Jobs : outbox[i] \in Row /\ (GoneOut(i) => GoneOut(i)')
      /\ \A i \in batch[w] : i \in Jobs
      BY GoneOutStays DEF WellFormed, OutboxTypes
<1>1. CASE ClaimBatch(w)
  <2>1. \A j \in Jobs : /\ outbox'[j].enqueued = outbox[j].enqueued
                        /\ outbox'[j].processed = outbox[j].processed
                        /\ outbox'[j].deadLettered = outbox[j].deadLettered
                        /\ outbox'[j].attempts = outbox[j].attempts
        BY <1>0, <1>1 DEF ClaimBatch, Row
  <2>2. UNCHANGED lost /\ \A i \in Jobs : GoneOut(i)' <=> GoneOut(i)
        BY <1>1, SameMessages DEF ClaimBatch
  <2> QED BY <2>1, <2>2 DEF Promise, Pending
<1>2. ASSUME NEW j \in Jobs, outbox[j].enqueued, UNCHANGED <<outbox, lost>>, GoneOut(j)',
             \A i \in Jobs \ {j} : GoneOut(i)' <=> GoneOut(i)
      PROVE  Contract!Next
  <2>1. {i \in Jobs : GoneOut(i)}' = {i \in Jobs : GoneOut(i)} \cup {j}
        BY <1>2
  <2>2. Contract!SendOut(j)
        BY <1>2, <2>1 DEF Contract!SendOut, Contract!Requested, Pending
  <2> QED BY <2>2 DEF Contract!Next
<1>3. CASE Publish(w) \/ PublishIsRefused(w)
  <2>1. PICK j \in batch[w] : \/ queue' = [queue EXCEPT ![j] = @ + 1] /\ UNCHANGED lost
                              \/ lost' = lost \cup {j} /\ UNCHANGED queue
        BY <1>3 DEF Publish, PublishIsRefused
  <2>2. j \in Jobs /\ outbox[j].enqueued /\ UNCHANGED outbox
        BY <1>0, <1>3 DEF WorkerOK, Publish, PublishIsRefused
  <2>3. CASE queue' = [queue EXCEPT ![j] = @ + 1] /\ UNCHANGED lost
    <3>1. GoneOut(j)' /\ \A i \in Jobs \ {j} : GoneOut(i)' <=> GoneOut(i)
          BY <1>0, <2>2, <2>3 DEF GoneOut, ServiceTypes, serviceVars
    <3> QED BY <1>2, <2>2, <2>3, <3>1
  <2>4. CASE lost' = lost \cup {j} /\ UNCHANGED queue
    <3>1. \A i \in Jobs : GoneOut(i)' <=> GoneOut(i)
          BY <2>4, SameMessages
    <3>2. Contract!Lose(j)
          BY <2>2, <2>4, <3>1 DEF Contract!Lose, Contract!Requested, Pending
    <3> QED BY <2>2, <3>2 DEF Contract!Next
  <2> QED BY <2>1, <2>3, <2>4
<1>4. CASE UNCHANGED <<outbox, queue, lost>>
  <2>1. \A i \in Jobs : GoneOut(i)' <=> GoneOut(i)
        BY <1>4, SameMessages
  <2> QED BY <1>4, <2>1 DEF Promise, Pending
<1>5. ASSUME ~UNCHANGED outbox, ~ClaimBatch(w)
      PROVE  /\ MarkProcessed(w) \/ RecordFailure(w) \/ DeadLetter(w)
             /\ at[w] \in Jobs /\ outbox[at[w]].enqueued
             /\ UNCHANGED lost
             /\ \A i \in Jobs : GoneOut(i)' <=> GoneOut(i)
  <2>1. MarkProcessed(w) \/ RecordFailure(w) \/ DeadLetter(w)
        BY <1>5 DEF Serve, WorkerFaults, Publish, PublishFails, PublishIsRefused,
                    MarkProcessedFails, RecordFailureFails, WorkerCrashes
  <2>2. step[w] \notin {"idle", "publish"} /\ UNCHANGED <<queue, lost>>
        BY <2>1 DEF MarkProcessed, RecordFailure, DeadLetter
  <2> QED BY <1>0, <2>1, <2>2, SameMessages DEF WorkerOK
<1>6. ASSUME NEW j \in Jobs, Contract!Settle(j) \/ Contract!CountFailure(j) \/ Contract!GiveUp(j)
      PROVE  Contract!Next
      BY <1>6 DEF Contract!Next
<1>7. CASE MarkProcessed(w) /\ ~UNCHANGED outbox /\ ~ClaimBatch(w)
  <2> PICK j \in Jobs : j = at[w]
      BY <1>5, <1>7
  <2>1. Accepted(j) /\ UNCHANGED lost /\ \A i \in Jobs : GoneOut(i)' <=> GoneOut(i)
        BY <1>0, <1>5, <1>7 DEF MarkProcessed, WorkerOK
  <2>2. /\ outbox'[j].processed
        /\ outbox'[j].deadLettered = outbox[j].deadLettered
        /\ outbox'[j].attempts = outbox[j].attempts
        /\ \A i \in Jobs \ {j} : outbox'[i] = outbox[i]
        BY <1>0, <1>7, <2>1 DEF MarkProcessed, OutboxTypes, Row
  <2>3. Contract!Settle(j)
        BY <2>1, <2>2 DEF Contract!Settle, Accepted, Pending
  <2> QED BY <1>6, <2>1, <2>3
<1>8. CASE RecordFailure(w) /\ ~UNCHANGED outbox /\ ~ClaimBatch(w)
  <2> PICK j \in Jobs : j = at[w]
      BY <1>5, <1>8
  <2>1. outbox[j].enqueued /\ UNCHANGED lost /\ \A i \in Jobs : GoneOut(i)' <=> GoneOut(i)
        BY <1>5, <1>8
  <2>2. /\ outbox'[j].enqueued = outbox[j].enqueued
        /\ outbox'[j].processed = outbox[j].processed
        /\ outbox'[j].deadLettered = outbox[j].deadLettered
        /\ outbox'[j].attempts = outbox[j].attempts + 1
        /\ \A i \in Jobs \ {j} : outbox'[i] = outbox[i]
        BY <1>0, <1>8, <2>1 DEF RecordFailure, OutboxTypes, Row
  <2>3. Contract!CountFailure(j)
        BY <2>1, <2>2 DEF Contract!CountFailure, Contract!Requested, Pending
  <2> QED BY <1>6, <2>1, <2>3
<1>9. CASE DeadLetter(w) /\ ~UNCHANGED outbox /\ ~ClaimBatch(w)
  <2> PICK j \in Jobs : j = at[w]
      BY <1>5, <1>9
  <2>1. /\ outbox[j].attempts >= MaxAttempts
        /\ UNCHANGED lost
        /\ \A i \in Jobs : GoneOut(i)' <=> GoneOut(i)
        BY <1>0, <1>5, <1>9 DEF DeadLetter, WorkerOK
  <2>2. /\ outbox'[j].deadLettered
        /\ outbox'[j].processed = outbox[j].processed
        /\ outbox'[j].attempts = outbox[j].attempts
        /\ \A i \in Jobs \ {j} : outbox'[i] = outbox[i]
        BY <1>0, <1>9, <2>1 DEF DeadLetter, OutboxTypes, Row
  <2>3. Contract!GiveUp(j)
        BY <2>1, <2>2 DEF Contract!GiveUp, Pending
  <2> QED BY <1>6, <2>1, <2>3
<1>10. CASE UNCHANGED outbox
  <2>1. \/ Publish(w) \/ PublishIsRefused(w)
        \/ UNCHANGED <<queue, lost>>
        BY DEF Serve, WorkerFaults, ClaimBatch, MarkProcessed, RecordFailure, DeadLetter, PublishFails,
               MarkProcessedFails, RecordFailureFails, WorkerCrashes
  <2> QED BY <1>3, <1>4, <1>10, <2>1
<1> QED BY <1>1, <1>5, <1>7, <1>8, <1>9, <1>10

\* "Retrying on failure" (outbox.worker.ts): the outbox, with any number of workers whose leases overlap
\* and who crash anywhere, implements DeliveryContract.  A notification is owed until a message of it
\* is in somebody's hands or has been lost by the broker, the only loss that the outbox does not see.
THEOREM ImplementsContract == Spec => KeepsContract
<1>1. WellFormed /\ [Next]_vars => Contract!Next \/ UNCHANGED Promise
  <2> SUFFICES ASSUME WellFormed, [Next]_vars PROVE Contract!Next \/ UNCHANGED Promise
      OBVIOUS
  <2>1. CASE UNCHANGED vars
        BY <2>1 DEF vars, outboxVars, serviceVars, Promise, Pending, GoneOut
  <2> QED BY <2>1, RequestKept, WorkKept, ServiceIsSilent, TimeIsSilent DEF Next
<1>2. UNCHANGED Promise => UNCHANGED <<{j \in Jobs : Pending(j)}, {j \in Jobs : GoneOut(j)}, lost,
                                       {j \in Jobs : outbox[j].processed},
                                       {j \in Jobs : outbox[j].deadLettered},
                                       [j \in Jobs |-> outbox[j].attempts]>>
      BY DEF Promise
<1>3. UNCHANGED Promise => UNCHANGED Contract!vars
      BY <1>2 DEF Contract!vars
<1>4. WellFormed /\ [Next]_vars => [Contract!Next]_(Contract!vars)
      BY <1>1, <1>3
<1> QED BY <1>4, ContractInit, WellFormedInvariant, PTL DEF Spec, KeepsContract, Contract!Spec

-----------------------------------------------------------------------------
(* The balance of the mails.  For a key, count what has been sent and all  *)
(* that may still be sent: a row the scheduler would send, the mails that  *)
(* senders work on or have claimed, the messages in the queues, and those  *)
(* that the workers and the outbox may yet publish.  Requests, faults,     *)
(* reclaimed rows and overtaken leases are what can raise this count, each *)
(* by one; what moves a mail from one place to the next leaves it alone.   *)

Bit(b) == IF b THEN 1 ELSE 0

\* What sender p may still send of key k: what it works on, unless that mail has left, and its claims.
Weight(p, k) ==
    Bit(record[p].key = k /\ stage[p] # "markSent")
      + Bit(p \in Sweepers /\ \E r \in claimed[p] : r.key = k)

InWork(k) == SumOf([p \in Senders |-> Weight(p, k)], Senders)

\* Worker w has claimed j and not published it yet, or has failed to settle it.
Holds(w, j) == j \in batch[w] /\ ~(at[w] = j /\ step[w] = "markProcessed")

Held(j) == SumOf([w \in Workers |-> Bit(Holds(w, j))], Workers)

\* Row j may be claimed while no worker has it.
Waiting(j) == Pending(j) /\ \A w \in Workers : j \notin batch[w]

\* The messages of j that there are or may yet be, over what has been asked for.
Excess(j) ==
    queue[j] + dlq[j] + Held(j) + Bit(Waiting(j)) - overtaken[j] - Bit(outbox[j].enqueued)

JobsOf(k) == {j \in Jobs : Job[j].kind = "mail" /\ Job[j].key = k}

Outstanding(k) == SumOf([j \in Jobs |-> Excess(j)], JobsOf(k))

LEMMA SendersFinite == IsFiniteSet(Senders)
BY ServiceAssumption, FS_Union DEF Senders

LEMMA BitType == \A b : Bit(b) \in Nat /\ Bit(b) <= 1
BY DEF Bit

LEMMA WeightType == \A p, k : Weight(p, k) \in Nat /\ Weight(p, k)' \in Nat
BY DEF Weight, Bit

LEMMA InWorkStep ==
    ASSUME NEW k, NEW p \in Senders, \A q \in Senders \ {p} : Weight(q, k)' = Weight(q, k)
    PROVE  InWork(k)' <= InWork(k) + (Weight(p, k)' - Weight(p, k))
<1> DEFINE f == [q \in Senders |-> Weight(q, k)]
           g == [q \in Senders |-> Weight(q, k)']
           d == Weight(p, k)' - Weight(p, k)
<1>1. \A q \in Senders : /\ f[q] \in Int /\ g[q] \in Int
                         /\ g[q] <= f[q] + (IF q = p THEN d ELSE 0)
      BY WeightType
<1>2. d \in Int
      BY WeightType
<1>3. InWork(k) = SumOf(f, Senders) /\ InWork(k)' = SumOf(g, Senders)
      BY DEF InWork
<1> HIDE DEF f, g
<1>4. SumOf(g, Senders) <= SumOf(f, Senders) + (IF p \in Senders THEN d ELSE 0)
      BY <1>1, <1>2, SendersFinite, SumStep
<1> QED BY <1>3, <1>4

LEMMA HeldStep ==
    ASSUME NEW j, NEW w \in Workers, \A v \in Workers \ {w} : Holds(v, j)' = Holds(v, j)
    PROVE  Held(j)' <= Held(j) + (Bit(Holds(w, j))' - Bit(Holds(w, j)))
<1> DEFINE f == [v \in Workers |-> Bit(Holds(v, j))]
           g == [v \in Workers |-> Bit(Holds(v, j)')]
           d == Bit(Holds(w, j)') - Bit(Holds(w, j))
<1>1. \A v \in Workers : /\ f[v] \in Int /\ g[v] \in Int
                         /\ g[v] <= f[v] + (IF v = w THEN d ELSE 0)
      BY DEF Bit
<1>2. d \in Int
      BY DEF Bit
<1>3. Held(j) = SumOf(f, Workers) /\ Held(j)' = SumOf(g, Workers)
      BY DEF Held
<1> HIDE DEF f, g
<1>4. SumOf(g, Workers) <= SumOf(f, Workers) + (IF w \in Workers THEN d ELSE 0)
      BY <1>1, <1>2, OutboxAssumption, SumStep
<1> QED BY <1>3, <1>4 DEF Bit

LEMMA HeldType == \A j : Held(j) \in Int /\ Held(j)' \in Int
<1> SUFFICES ASSUME NEW j PROVE Held(j) \in Int /\ Held(j)' \in Int
    OBVIOUS
<1> DEFINE f == [v \in Workers |-> Bit(Holds(v, j))]
           g == [v \in Workers |-> Bit(Holds(v, j)')]
<1>1. Held(j) = SumOf(f, Workers) /\ Held(j)' = SumOf(g, Workers)
      BY DEF Held
<1>2. \A v \in Workers : f[v] \in Int /\ g[v] \in Int
      BY DEF Bit
<1> HIDE DEF f, g
<1> QED BY <1>1, <1>2, OutboxAssumption, SumType

LEMMA ExcessType ==
    ASSUME WellFormed, WellFormed', NEW j \in Jobs
    PROVE  Excess(j) \in Int /\ Excess(j)' \in Int
<1>1. /\ queue[j] \in Nat /\ dlq[j] \in Nat /\ overtaken[j] \in Nat
      /\ queue'[j] \in Nat /\ dlq'[j] \in Nat /\ overtaken'[j] \in Nat
      BY DEF WellFormed, OutboxTypes, ServiceTypes
<1> QED BY <1>1, HeldType DEF Excess, Bit

LEMMA OutstandingStep ==
    ASSUME WellFormed, WellFormed', NEW k, NEW i, NEW d \in Int,
           \A j \in Jobs : Excess(j)' <= Excess(j) + (IF j = i THEN d ELSE 0)
    PROVE  Outstanding(k)' <= Outstanding(k) + (IF i \in JobsOf(k) THEN d ELSE 0)
<1> DEFINE f == [j \in Jobs |-> Excess(j)]
           g == [j \in Jobs |-> Excess(j)']
           S == JobsOf(k)
<1>1. S \subseteq Jobs /\ IsFiniteSet(S)
      BY OutboxAssumption, FS_Subset DEF JobsOf
<1>2. \A j \in S : /\ f[j] \in Int /\ g[j] \in Int
                   /\ g[j] <= f[j] + (IF j = i THEN d ELSE 0)
      BY <1>1, ExcessType
<1>3. Outstanding(k) = SumOf(f, S) /\ Outstanding(k)' = SumOf(g, S)
      BY DEF Outstanding, JobsOf
<1> HIDE DEF f, g, S
<1>4. SumOf(g, S) <= SumOf(f, S) + (IF i \in S THEN d ELSE 0)
      BY <1>1, <1>2, SumStep
<1> QED BY <1>3, <1>4 DEF S

LEMMA OutstandingType == ASSUME WellFormed, WellFormed', NEW k
    PROVE Outstanding(k) \in Int /\ Outstanding(k)' \in Int
<1> DEFINE f == [j \in Jobs |-> Excess(j)]
           g == [j \in Jobs |-> Excess(j)']
           S == JobsOf(k)
<1>1. S \subseteq Jobs /\ IsFiniteSet(S)
      BY OutboxAssumption, FS_Subset DEF JobsOf
<1>2. \A j \in S : f[j] \in Int /\ g[j] \in Int
      BY <1>1, ExcessType
<1>3. Outstanding(k) = SumOf(f, S) /\ Outstanding(k)' = SumOf(g, S)
      BY DEF Outstanding, JobsOf
<1> HIDE DEF f, g, S
<1> QED BY <1>1, <1>2, <1>3, SumType

\* What a step of worker w changes of the excess of j
Local(w, j) ==
    queue[j] + Bit(Holds(w, j)) + Bit(Waiting(j)) - overtaken[j] - Bit(outbox[j].enqueued)

LEMMA WorkerFrame ==
    ASSUME WellFormed, NEW w \in Workers, Serve(w) \/ WorkerFaults(w), NEW v \in Workers \ {w}
    PROVE  batch'[v] = batch[v] /\ at'[v] = at[v] /\ step'[v] = step[v]
BY DEF WellFormed, OutboxTypes, Serve, WorkerFaults, ClaimBatch, Publish, PublishFails, PublishIsRefused,
       MarkProcessed, MarkProcessedFails, RecordFailure, RecordFailureFails, DeadLetter,
       WorkerCrashes, Settled, Continue, TakeUp

LEMMA LocalExcess ==
    ASSUME WellFormed, WellFormed', NEW w \in Workers, NEW j \in Jobs, NEW d \in Int,
           Serve(w) \/ WorkerFaults(w), UNCHANGED serviceVars, Local(w, j)' <= Local(w, j) + d
    PROVE  Excess(j)' <= Excess(j) + d
<1>1. /\ queue[j] \in Nat /\ dlq[j] \in Nat /\ overtaken[j] \in Nat
      /\ queue'[j] \in Nat /\ dlq'[j] = dlq[j] /\ overtaken'[j] \in Nat
      BY DEF WellFormed, OutboxTypes, ServiceTypes, serviceVars
<1>2. ASSUME NEW v \in Workers \ {w} PROVE Holds(v, j)' = Holds(v, j)
      BY WorkerFrame DEF Holds
<1>3. Held(j)' <= Held(j) + (Bit(Holds(w, j))' - Bit(Holds(w, j)))
      BY <1>2, HeldStep
<1>4. Held(j) \in Int /\ Held(j)' \in Int
      BY HeldType
<1> DEFINE h == Bit(Holds(w, j))
           x == Bit(Waiting(j)) 
           e == Bit(outbox[j].enqueued)
<1>5. h \in Int /\ h' \in Int /\ x \in Int /\ x' \in Int /\ e \in Int /\ e' \in Int
      BY DEF Bit
<1>6. /\ Local(w, j) = queue[j] + h + x - overtaken[j] - e
      /\ Local(w, j)' = queue'[j] + h' + x' - overtaken'[j] - e'
      /\ Excess(j) = queue[j] + dlq[j] + Held(j) + x - overtaken[j] - e
      /\ Excess(j)' = queue'[j] + dlq'[j] + Held(j)' + x' - overtaken'[j] - e'
      BY DEF Local, Excess
<1>7. Held(j)' <= Held(j) + (h' - h)
      BY <1>3
<1> HIDE DEF h, x, e
<1> QED BY <1>1, <1>4, <1>5, <1>6, <1>7

\* An idle worker has claimed nothing, and what nobody has asked for nobody has claimed.
Shape ==
    /\ faults \in Nat /\ mails \in [Keys -> Nat] /\ reclaimed \in [Keys -> Nat]
    /\ \A j \in Jobs : ~outbox[j].enqueued => overtaken[j] = 0
    /\ \A w \in Workers : step[w] = "idle" => batch[w] = {}

\* No worker other than w has j.
OthersLack(w, j) == \A v \in Workers \ {w} : j \notin batch[v]

LEMMA WaitingOf ==
    ASSUME WellFormed, NEW w \in Workers, Serve(w) \/ WorkerFaults(w), NEW j
    PROVE  /\ Waiting(j) <=> Pending(j) /\ j \notin batch[w] /\ OthersLack(w, j)
           /\ Waiting(j)' <=> Pending(j)' /\ j \notin batch'[w] /\ OthersLack(w, j)
<1>1. \A v \in Workers \ {w} : batch'[v] = batch[v]
      BY WorkerFrame
<1> QED BY <1>1 DEF Waiting, OthersLack

LEMMA LocalType ==
    ASSUME WellFormed, WellFormed', NEW w, NEW j \in Jobs PROVE Local(w, j) \in Int /\ Local(w, j)' \in Int
<1>1. /\ queue[j] \in Nat /\ overtaken[j] \in Nat /\ queue'[j] \in Nat /\ overtaken'[j] \in Nat
      BY DEF WellFormed, OutboxTypes, ServiceTypes
<1> QED BY <1>1 DEF Local, Bit

\* A worker that is done with a row without having published it leaves it to the others.
LEMMA SettledLocal ==
    ASSUME WellFormed, WellFormed', NEW w \in Workers, Serve(w) \/ WorkerFaults(w), Settled(w),
           at[w] \in batch[w], step[w] # "markProcessed", UNCHANGED <<queue, overtaken>>,
           NEW j \in Jobs, outbox'[j].enqueued = outbox[j].enqueued, Pending(j)' <=> Pending(j)
    PROVE  Local(w, j)' <= Local(w, j)
<1>1. /\ batch'[w] = batch[w] \ {at[w]} /\ step'[w] # "markProcessed"
      /\ queue[j] \in Nat /\ overtaken[j] \in Nat
      BY DEF WellFormed, OutboxTypes, ServiceTypes, Settled, Continue
<1>2. /\ Holds(w, j) <=> j \in batch[w]
      /\ Holds(w, j)' <=> j \in batch[w] /\ j # at[w]
      BY <1>1 DEF Holds
<1>3. /\ Waiting(j)' => Waiting(j) \/ j = at[w]
      /\ j = at[w] => ~Waiting(j)
      BY <1>1, WaitingOf
<1> QED BY <1>1, <1>2, <1>3 DEF Local, Bit

LEMMA LocalStep ==
    ASSUME WellFormed, WellFormed', Shape, Shape', NEW w \in Workers, Serve(w) \/ WorkerFaults(w),
           UNCHANGED serviceVars
    PROVE  \E i : \A j \in Jobs :
             Local(w, j)' <= Local(w, j) + (IF j = i THEN faults' - faults ELSE 0)
<1>0. /\ outbox \in [Jobs -> Row] /\ batch \in [Workers -> SUBSET Jobs]
      /\ at \in [Workers -> Jobs \cup {Null}] /\ step \in [Workers -> Steps]
      /\ overtaken \in [Jobs -> Nat] /\ queue \in [Jobs -> Nat] /\ faults \in Nat
      /\ Null \notin Jobs
      /\ step[w] = "idle" => batch[w] = {} /\ at[w] = Null
      /\ step[w] \notin {"idle", "publish"} => at[w] \in batch[w] /\ at[w] \in Jobs
  <2>1. /\ outbox \in [Jobs -> Row] /\ batch \in [Workers -> SUBSET Jobs]
        /\ at \in [Workers -> Jobs \cup {Null}] /\ step \in [Workers -> Steps]
        /\ overtaken \in [Jobs -> Nat] /\ queue \in [Jobs -> Nat] /\ faults \in Nat
        /\ Null \notin Jobs /\ WorkerOK(w) /\ (step[w] = "idle" => batch[w] = {})
        BY ServiceAssumption DEF WellFormed, OutboxTypes, ServiceTypes, Shape
  <2> QED BY <2>1 DEF WorkerOK
<1>1. CASE ClaimBatch(w)
  <2> DEFINE due == {j \in Jobs : Claimable(j)}
             taken == {j \in due : Cardinality({i \in due : i < j}) < BatchSize}
  <2>1. /\ batch[w] = {} /\ batch'[w] = taken /\ at'[w] = Null
        /\ outbox' = [j \in Jobs |->
                         IF j \in taken THEN [outbox[j] EXCEPT !.claimAge = 0] ELSE outbox[j]]
        /\ overtaken' = [j \in Jobs |->
                            IF j \in taken /\ \E v \in Workers : j \in batch[v]
                            THEN overtaken[j] + 1 ELSE overtaken[j]]
        /\ UNCHANGED <<queue, faults>>
        BY <1>0, <1>1 DEF ClaimBatch
  <2>2. \A j \in taken : Pending(j) /\ j \in Jobs
        BY DEF Claimable
  <2> HIDE DEF taken
  <2>3. ASSUME NEW j \in Jobs PROVE Local(w, j)' <= Local(w, j)
    <3>1. Pending(j)' <=> Pending(j)
          BY <1>0, <2>1 DEF Pending, Row
    <3>2. outbox'[j].enqueued = outbox[j].enqueued /\ queue'[j] = queue[j]
          BY <1>0, <2>1 DEF Row
    <3>3. Holds(w, j)' <=> j \in taken
          BY <1>0, <2>1 DEF Holds
    <3>4. ~Holds(w, j)
          BY <2>1 DEF Holds
    <3>5. /\ Waiting(j) <=> Pending(j) /\ OthersLack(w, j)
          /\ Waiting(j)' <=> Pending(j) /\ j \notin taken /\ OthersLack(w, j)
          BY <2>1, <3>1, WaitingOf
    <3>6. j \in taken /\ ~OthersLack(w, j) => overtaken'[j] = overtaken[j] + 1
          BY <2>1 DEF OthersLack
    <3>7. overtaken'[j] = overtaken[j] \/ overtaken'[j] = overtaken[j] + 1
          BY <2>1
    <3>8. j \in taken => Pending(j)
          BY <2>2
    <3> QED BY <1>0, <3>2, <3>3, <3>4, <3>5, <3>6, <3>7, <3>8 DEF Local, Bit
  <2>4. \A j \in Jobs : Local(w, j)' <= Local(w, j) + (IF j = w THEN faults' - faults ELSE 0)
        BY <1>0, <2>1, <2>3, LocalType
  <2> QED BY <2>4
<1>2. CASE Publish(w)
  <2>1. PICK i \in batch[w] :
          /\ at'[w] = i
          /\ \/ queue' = [queue EXCEPT ![i] = @ + 1] /\ UNCHANGED faults
             \/ UNCHANGED queue /\ faults' = faults + 1
        BY <1>0, <1>2 DEF Publish, TakeUp, Fault
  <2>2. /\ step[w] = "publish" /\ step'[w] = "markProcessed"
        /\ UNCHANGED <<outbox, batch, overtaken>>
        BY <1>0, <1>2 DEF Publish, Continue
  <2>3. ASSUME NEW j \in Jobs
        PROVE  Local(w, j)' <= Local(w, j) + (IF j = i THEN faults' - faults ELSE 0)
    <3>1. Waiting(j)' <=> Waiting(j)
          BY <2>2 DEF Waiting, Pending
    <3>2. /\ Holds(w, j) <=> j \in batch[w]
          /\ Holds(w, j)' <=> j \in batch[w] /\ j # i
          BY <2>1, <2>2 DEF Holds
    <3>3. /\ queue'[j] = queue[j] \/ (j = i /\ queue'[j] = queue[j] + 1)
          /\ faults' = faults \/ faults' = faults + 1
          BY <1>0, <2>1
    <3> QED BY <1>0, <2>1, <2>2, <3>1, <3>2, <3>3 DEF Local, Bit
  <2> QED BY <2>3
<1>3. CASE PublishFails(w)
  <2>1. /\ step[w] = "publish" /\ step'[w] = "recordFailure"
        /\ UNCHANGED <<outbox, batch, queue, overtaken>> /\ faults' = faults + 1
        BY <1>0, <1>3 DEF PublishFails, Continue, Fault
  <2>2. ASSUME NEW j \in Jobs PROVE Local(w, j)' = Local(w, j)
    <3>1. Waiting(j)' <=> Waiting(j)
          BY <2>1 DEF Waiting, Pending
    <3>2. Holds(w, j)' <=> Holds(w, j)
          BY <2>1 DEF Holds
    <3> QED BY <2>1, <3>1, <3>2 DEF Local, Bit
  <2> QED BY <1>0, <2>1, <2>2, LocalType
<1>4. CASE PublishIsRefused(w)
  <2>1. PICK i \in batch[w] : queue' = [queue EXCEPT ![i] = @ + 1]
        BY <1>4 DEF PublishIsRefused
  <2>2. /\ step[w] = "publish" /\ step'[w] = "recordRefusal"
        /\ UNCHANGED <<outbox, batch, overtaken>> /\ faults' = faults + 1
        BY <1>0, <1>4 DEF PublishIsRefused, Continue, Fault
  <2>3. ASSUME NEW j \in Jobs
        PROVE  Local(w, j)' <= Local(w, j) + (IF j = i THEN faults' - faults ELSE 0)
    <3>1. Waiting(j)' <=> Waiting(j)
          BY <2>2 DEF Waiting, Pending
    <3>2. Holds(w, j)' <=> Holds(w, j)
          BY <2>2 DEF Holds
    <3>3. queue'[j] = queue[j] \/ (j = i /\ queue'[j] = queue[j] + 1)
          BY <1>0, <2>1
    <3> QED BY <1>0, <2>2, <3>1, <3>2, <3>3 DEF Local, Bit
  <2> QED BY <2>3
<1>5. CASE MarkProcessed(w) \/ DeadLetter(w)
  <2>1. /\ Settled(w) /\ at[w] \in batch[w] /\ at[w] \in Jobs
        /\ UNCHANGED <<queue, overtaken, faults>>
        BY <1>0, <1>5 DEF MarkProcessed, DeadLetter
  <2>2. ASSUME NEW j \in Jobs
        PROVE  /\ outbox'[j].enqueued = outbox[j].enqueued
               /\ Pending(j)' => Pending(j) /\ j # at[w]
    <3>1. CASE MarkProcessed(w)
          BY <1>0, <2>1, <3>1 DEF MarkProcessed, Pending, Row
    <3>2. CASE DeadLetter(w)
          BY <1>0, <2>1, <3>2 DEF DeadLetter, Pending, Row
    <3> QED BY <1>5, <3>1, <3>2
  <2>3. ASSUME NEW j \in Jobs PROVE Local(w, j)' <= Local(w, j)
    <3>1. Waiting(j)' => Waiting(j)
      <4>1. j # at[w] => (j \in batch'[w] <=> j \in batch[w])
            BY <1>0, <2>1 DEF Settled
      <4> QED BY <2>2, <4>1, WaitingOf
    <3>2. Holds(w, j)' => Holds(w, j)
          BY <1>0, <2>1 DEF Holds, Settled
    <3>3. /\ queue'[j] = queue[j] /\ overtaken'[j] = overtaken[j]
          /\ outbox'[j].enqueued = outbox[j].enqueued
          BY <2>1, <2>2
    <3> QED BY <1>0, <3>1, <3>2, <3>3 DEF Local, Bit
  <2>4. \A j \in Jobs : Local(w, j)' <= Local(w, j) + (IF j = w THEN faults' - faults ELSE 0)
        BY <1>0, <2>1, <2>3, LocalType
  <2> QED BY <2>4
<1>6. CASE RecordFailure(w)
  <2>1. /\ at[w] \in batch[w] /\ at[w] \in Jobs /\ step[w] \in {"recordRefusal", "recordFailure"}
        /\ UNCHANGED <<queue, overtaken, faults>>
        BY <1>0, <1>6 DEF RecordFailure
  <2>2. ASSUME NEW j \in Jobs
        PROVE  outbox'[j].enqueued = outbox[j].enqueued /\ (Pending(j)' <=> Pending(j))
        BY <1>0, <1>6, <2>1 DEF RecordFailure, Pending, Row
  <2>3. ASSUME NEW j \in Jobs PROVE Local(w, j)' <= Local(w, j)
    <3>1. CASE Settled(w)
          BY <1>0, <2>1, <2>2, <3>1, SettledLocal
    <3>2. CASE ~Settled(w)
      <4>1. /\ step'[w] \in {"deadLetterRefusal", "deadLetter"}
            /\ UNCHANGED <<batch, at>>
            BY <1>0, <1>6, <3>2 DEF RecordFailure, Continue
      <4>2. Holds(w, j)' <=> Holds(w, j)
            BY <2>1, <4>1 DEF Holds
      <4>3. Waiting(j)' <=> Waiting(j)
            BY <2>2, <4>1, WaitingOf
      <4>4. /\ queue'[j] = queue[j] /\ overtaken'[j] = overtaken[j]
            /\ outbox'[j].enqueued = outbox[j].enqueued
            BY <2>1, <2>2
      <4> QED BY <1>0, <4>2, <4>3, <4>4 DEF Local, Bit
    <3> QED BY <3>1, <3>2
  <2>4. \A j \in Jobs : Local(w, j)' <= Local(w, j) + (IF j = w THEN faults' - faults ELSE 0)
        BY <1>0, <2>1, <2>3, LocalType
  <2> QED BY <2>4
<1>7. CASE MarkProcessedFails(w)
  <2>1. /\ step[w] = "markProcessed" /\ step'[w] = "recordFailure" /\ faults' = faults + 1
        /\ UNCHANGED <<outbox, batch, at, queue, overtaken>>
        BY <1>0, <1>7 DEF MarkProcessedFails, Continue, Fault
  <2>2. ASSUME NEW j \in Jobs
        PROVE  Local(w, j)' <= Local(w, j) + (IF j = at[w] THEN faults' - faults ELSE 0)
    <3>1. Waiting(j)' <=> Waiting(j)
          BY <2>1 DEF Waiting, Pending
    <3>2. j # at[w] => (Holds(w, j)' <=> Holds(w, j))
          BY <2>1 DEF Holds
    <3> QED BY <1>0, <2>1, <3>1, <3>2 DEF Local, Bit
  <2> QED BY <2>2
<1>8. CASE RecordFailureFails(w)
  <2>1. /\ at[w] \in batch[w] /\ at[w] \in Jobs /\ step[w] # "markProcessed"
        /\ UNCHANGED <<outbox, queue, overtaken>> /\ faults' = faults + 1
        BY <1>0, <1>8 DEF RecordFailureFails, Fault
  <2>2. ASSUME NEW j \in Jobs PROVE Local(w, j)' <= Local(w, j)
    <3>1. CASE Settled(w)
          BY <1>0, <2>1, <3>1, SettledLocal DEF Pending
    <3>2. CASE ~Settled(w)
      <4>1. step'[w] = "recordFailure" /\ UNCHANGED <<batch, at>>
            BY <1>0, <1>8, <3>2 DEF RecordFailureFails, Continue
      <4>2. Holds(w, j)' <=> Holds(w, j)
            BY <2>1, <4>1 DEF Holds
      <4>3. Waiting(j)' <=> Waiting(j)
            BY <2>1, <4>1 DEF Waiting, Pending
      <4> QED BY <1>0, <2>1, <4>2, <4>3 DEF Local, Bit
    <3> QED BY <3>1, <3>2
  <2> QED BY <1>0, <2>1, <2>2, LocalType
<1>9. CASE WorkerCrashes(w)
  <2>1. batch'[w] = {} /\ faults' = faults + 1 /\ UNCHANGED <<outbox, queue, overtaken>>
        BY <1>0, <1>9 DEF WorkerCrashes, Fault
  <2>2. ASSUME NEW j \in Jobs
        PROVE  Local(w, j)' <= Local(w, j) + (IF j = at[w] THEN faults' - faults ELSE 0)
    <3>1. ~Holds(w, j)'
          BY <2>1 DEF Holds
    <3>2. Waiting(j)' => Waiting(j) \/ j \in batch[w]
          BY <2>1, WaitingOf DEF Pending
    <3>3. j \in batch[w] /\ j # at[w] => Holds(w, j)
          BY DEF Holds
    <3>4. j \in batch[w] => ~Waiting(j)
          BY DEF Waiting
    <3> QED BY <1>0, <2>1, <3>1, <3>2, <3>3, <3>4 DEF Local, Bit
  <2> QED BY <2>2
<1> QED BY <1>1, <1>2, <1>3, <1>4, <1>5, <1>6, <1>7, <1>8, <1>9, WorkerSteps

LEMMA HeldSame ==
    ASSUME NEW j, UNCHANGED <<batch, at, step>>
    PROVE  Held(j)' = Held(j)
<1> DEFINE f == [v \in Workers |-> Bit(Holds(v, j))]
           g == [v \in Workers |-> Bit(Holds(v, j)')]
<1>1. Held(j) = SumOf(f, Workers) /\ Held(j)' = SumOf(g, Workers)
      BY DEF Held
<1>2. \A v : Holds(v, j)' <=> Holds(v, j)
      BY DEF Holds
<1>3. f = g
      BY <1>2 DEF Bit
<1> HIDE DEF f, g
<1> QED BY <1>1, <1>3

\* A step of the outbox promises no mail that is not asked for, or owed to a fault.
LEMMA OutboxBalance ==
    ASSUME WellFormed, WellFormed', Shape, Shape', UNCHANGED serviceVars, NEW k,
           (\E j \in Jobs : Enqueue(j)) \/ (\E w \in Workers : Serve(w) \/ WorkerFaults(w))
    PROVE  Outstanding(k)' - faults' <= Outstanding(k) - faults
<1>0. /\ faults \in Nat /\ faults' \in Nat
      /\ Outstanding(k) \in Int /\ Outstanding(k)' \in Int
      BY OutstandingType DEF Shape
<1>1. ASSUME NEW i \in Jobs, Enqueue(i) PROVE Outstanding(k)' - faults' <= Outstanding(k) - faults
  <2>1. /\ outbox' = [outbox EXCEPT ![i].enqueued = TRUE] /\ ~outbox[i].enqueued
        /\ UNCHANGED <<batch, at, step, queue, dlq, overtaken, faults>>
        BY <1>1 DEF Enqueue, serviceVars
  <2>2. ASSUME NEW j \in Jobs PROVE Excess(j)' <= Excess(j)
    <3>1. Held(j)' = Held(j) /\ Held(j) \in Int
          BY <2>1, HeldSame, HeldType
    <3>2. j # i => outbox'[j] = outbox[j]
          BY <2>1 DEF WellFormed, OutboxTypes
    <3>3. j = i => ~Waiting(j) /\ outbox'[j].enqueued
          BY <2>1 DEF WellFormed, OutboxTypes, Row, Waiting, Pending
    <3>4. j # i => (Waiting(j)' <=> Waiting(j))
          BY <2>1, <3>2 DEF Waiting, Pending
    <3>5. queue[j] \in Nat /\ dlq[j] \in Nat /\ overtaken[j] \in Nat
          BY DEF WellFormed, OutboxTypes, ServiceTypes
    <3> QED BY <2>1, <3>1, <3>2, <3>3, <3>4, <3>5 DEF Excess, Bit
  <2>3. \A j \in Jobs : Excess(j)' <= Excess(j) + (IF j = i THEN 0 ELSE 0)
        BY <2>2, ExcessType
  <2>4. Outstanding(k)' <= Outstanding(k) + (IF i \in JobsOf(k) THEN 0 ELSE 0)
        BY <2>3, OutstandingStep
  <2> QED BY <1>0, <2>1, <2>4
<1>2. ASSUME NEW w \in Workers, Serve(w) \/ WorkerFaults(w)
      PROVE  Outstanding(k)' - faults' <= Outstanding(k) - faults
  <2> DEFINE d == faults' - faults
  <2>1. faults' = faults \/ faults' = faults + 1
        BY <1>2 DEF Serve, WorkerFaults, ClaimBatch, Publish, PublishFails, PublishIsRefused,
                    MarkProcessed, MarkProcessedFails, RecordFailure, RecordFailureFails, DeadLetter,
                    WorkerCrashes, Fault
  <2>2. d \in Int /\ 0 <= d
    <3>1. d = 0 \/ d = 1
      <4>1. ASSUME NEW m \in Nat, NEW n \in Nat, n = m \/ n = m + 1 PROVE n - m = 0 \/ n - m = 1
            BY <4>1
      <4> QED BY <1>0, <2>1, <4>1
    <3> HIDE DEF d
    <3> QED BY <3>1
  <2>3. PICK i : \A j \in Jobs : Local(w, j)' <= Local(w, j) + (IF j = i THEN d ELSE 0)
        BY <1>2, LocalStep
  <2>4. ASSUME NEW j \in Jobs PROVE Excess(j)' <= Excess(j) + (IF j = i THEN d ELSE 0)
    <3> DEFINE x == IF j = i THEN d ELSE 0
    <3>1. x \in Int /\ Local(w, j)' <= Local(w, j) + x
          BY <2>2, <2>3
    <3> HIDE DEF x
    <3>2. Excess(j)' <= Excess(j) + x
          BY <1>2, <3>1, LocalExcess
    <3> QED BY <3>2 DEF x
  <2> HIDE DEF d
  <2>5. Outstanding(k)' <= Outstanding(k) + (IF i \in JobsOf(k) THEN d ELSE 0)
        BY <2>2, <2>4, OutstandingStep
  <2>6. Outstanding(k)' <= Outstanding(k) + d
        BY <1>0, <2>2, <2>5
  <2> QED BY <1>0, <2>6 DEF d
<1> QED BY <1>1, <1>2

-----------------------------------------------------------------------------
(* The service *)

\* A row that the scheduler will send once more: due some day, or left behind in a sending state.
RowDue(k) ==
    /\ rows[k] # Null
    /\ \/ rows[k].status \in {"SCHEDULED", "RETRYING"}
       \/ rows[k].status = "SENDING" /\ \A s \in Sweepers : ~InHand(s, k)

KeyOf(j) == IF Job[j].kind = "mail" THEN Job[j].key ELSE Null

\* What a sender has in hand belongs to its stage, and its claims are of different rows.
InStage(p) ==
    /\ stage[p] \in {"idle", "claim", "cancel"} => record[p].key = Null
    /\ p \in Sweepers =>
         /\ stage[p] \in {"idle", "claim"} => claimed[p] = {}
         /\ \A q, r \in claimed[p] : q.key = r.key => q = r
    /\ p \in Consumers =>
         /\ stage[p] # "markRetry"
         /\ stage[p] # "idle" => record[p].key = KeyOf(record[p].job)

Total(k) ==
    mails[k] + Bit(RowDue(k)) + InWork(k) + Outstanding(k) - faults - reclaimed[k]

LEMMA InWorkType == \A k : InWork(k) \in Int /\ InWork(k)' \in Int
<1> SUFFICES ASSUME NEW k PROVE InWork(k) \in Int /\ InWork(k)' \in Int
    OBVIOUS
<1> DEFINE f == [p \in Senders |-> Weight(p, k)]
           g == [p \in Senders |-> Weight(p, k)']
<1>1. InWork(k) = SumOf(f, Senders) /\ InWork(k)' = SumOf(g, Senders)
      BY DEF InWork
<1>2. \A p \in Senders : f[p] \in Int /\ g[p] \in Int
      BY WeightType
<1> HIDE DEF f, g
<1> QED BY <1>1, <1>2, SendersFinite, SumType

\* What a step of the service changes of the outbox is a message more or less.
LEMMA MessagesStep ==
    ASSUME WellFormed, WellFormed', UNCHANGED outboxVars, NEW k, NEW i, NEW d \in Int,
           \A j \in Jobs : queue'[j] + dlq'[j] <= queue[j] + dlq[j] + (IF j = i THEN d ELSE 0)
    PROVE  Outstanding(k)' <= Outstanding(k) + (IF i \in JobsOf(k) THEN d ELSE 0)
<1>1. UNCHANGED <<outbox, batch, at, step, overtaken>>
      BY DEF outboxVars
<1>2. ASSUME NEW j \in Jobs PROVE Excess(j)' <= Excess(j) + (IF j = i THEN d ELSE 0)
  <2>1. Held(j)' = Held(j) /\ Held(j) \in Int
        BY <1>1, HeldSame, HeldType
  <2>2. Waiting(j)' <=> Waiting(j)
        BY <1>1 DEF Waiting, Pending
  <2>3. /\ queue[j] \in Nat /\ dlq[j] \in Nat /\ overtaken[j] \in Nat
        /\ queue'[j] \in Nat /\ dlq'[j] \in Nat
        BY DEF WellFormed, OutboxTypes, ServiceTypes
  <2>4. queue'[j] + dlq'[j] <= queue[j] + dlq[j] + (IF j = i THEN d ELSE 0)
        OBVIOUS
  <2> QED BY <1>1, <2>1, <2>2, <2>3, <2>4 DEF Excess, Bit
<1> QED BY <1>2, OutstandingStep

\* The balance of one sender's step
LEMMA SenderBalance ==
    ASSUME WellFormed, WellFormed', Shape, Shape', NEW p \in Senders, Work(p) \/ SenderFaults(p),
           NEW k \in Keys, NEW i, NEW d \in Int,
           \A j \in Jobs : queue'[j] + dlq'[j] <= queue[j] + dlq[j] + (IF j = i THEN d ELSE 0),
           mails'[k] + Bit(RowDue(k))' + Weight(p, k)' + (IF i \in JobsOf(k) THEN d ELSE 0)
               + faults + reclaimed[k]
             <= mails[k] + Bit(RowDue(k)) + Weight(p, k) + faults' + reclaimed'[k]
    PROVE  Total(k)' <= Total(k)
<1>1. ASSUME NEW q \in Senders \ {p} PROVE Weight(q, k)' = Weight(q, k)
      BY SenderFrame DEF Goto, Weight, WellFormed, ServiceTypes
<1>2. InWork(k)' <= InWork(k) + (Weight(p, k)' - Weight(p, k))
      BY <1>1, InWorkStep
<1>3. UNCHANGED outboxVars
      BY ServiceLeavesOutbox
<1> DEFINE m == IF i \in JobsOf(k) THEN d ELSE 0
<1>4. Outstanding(k)' <= Outstanding(k) + m
      BY <1>3, MessagesStep
<1>5. /\ mails[k] \in Nat /\ mails'[k] \in Nat /\ reclaimed[k] \in Nat /\ reclaimed'[k] \in Nat
      /\ faults \in Nat /\ faults' \in Nat /\ m \in Int
      BY DEF Shape
<1>6. /\ InWork(k) \in Int /\ InWork(k)' \in Int
      /\ Weight(p, k) \in Int /\ Weight(p, k)' \in Int
      /\ Outstanding(k) \in Int /\ Outstanding(k)' \in Int
      BY InWorkType, WeightType, OutstandingType
<1> DEFINE x == Bit(RowDue(k))
<1>7. x \in Int /\ x' \in Int
      BY DEF Bit
<1>8. /\ mails'[k] + x' + Weight(p, k)' + m + faults + reclaimed[k]
           <= mails[k] + x + Weight(p, k) + faults' + reclaimed'[k]
      OBVIOUS
<1>9. /\ Total(k) = mails[k] + x + InWork(k) + Outstanding(k) - faults - reclaimed[k]
      /\ Total(k)' = mails'[k] + x' + InWork(k)' + Outstanding(k)' - faults' - reclaimed'[k]
      BY DEF Total
<1> HIDE DEF x, m
<1> QED BY <1>2, <1>4, <1>5, <1>6, <1>7, <1>8, <1>9

LEMMA StageKept ==
    ASSUME WellFormed, WellFormed', NEW p \in Senders, InStage(p), Work(p) \/ SenderFaults(p)
    PROVE  InStage(p)'
<1>0. /\ stage \in [Senders -> Stages \cup {"claim"}] /\ record \in [Senders -> RecordType]
      /\ claimed \in [Sweepers -> SUBSET RecordType]
      /\ SenderOK(p) /\ Null \notin Keys /\ (p \in Consumers <=> p \notin Sweepers)
      BY ServiceAssumption DEF WellFormed, ServiceTypes, Senders
<1>1. ASSUME Done(p), p \in Sweepers => claimed'[p] = {} PROVE InStage(p)'
  <2>1. stage'[p] = "idle" /\ record'[p] = NoRecord
        BY <1>0, <1>1 DEF Done, Goto
  <2> QED BY <1>1, <2>1 DEF InStage, NoRecord
<1>2. ASSUME p \in Sweepers, NEW claims, SendOneOf(p, claims),
             \A q, r \in claims : q.key = r.key => q = r
      PROVE  InStage(p)'
  <2>1. stage'[p] = "send" /\ claimed'[p] \subseteq claims
        BY <1>0, <1>2 DEF SendOneOf, Goto
  <2> QED BY <1>0, <1>2, <2>1 DEF InStage
<1>3. CASE Deliver(p)
  <2>1. PICK j \in Jobs, from \in {"queue", "dlq"} : Take(p, j, from)
        BY <1>3 DEF Deliver
  <2>2. /\ record'[p] = Message(j, from)
        /\ stage'[p] = IF Job[j].kind = "mail" THEN "lookUp" ELSE "cancel"
        BY <1>0, <2>1 DEF Take, Goto
  <2>3. p \in Consumers /\ p \notin Sweepers
        BY <1>0, <1>3 DEF Deliver
  <2>4. record'[p].key = KeyOf(j) /\ record'[p].job = j
        BY <2>2 DEF Message, KeyOf
  <2>5. stage'[p] = "cancel" => record'[p].key = Null
        BY <2>2, <2>4 DEF KeyOf
  <2> QED BY <2>2, <2>3, <2>4, <2>5 DEF InStage
<1>4. CASE CancelReminders(p) \/ HandlingFails(p) \/ ConsumerCrashes(p) \/ SweeperCrashes(p)
  <2>1. p \in Sweepers => claimed'[p] = {}
        BY <1>0, <1>4 DEF CancelReminders, HandlingFails, ConsumerCrashes, SweeperCrashes, SenderOK
  <2> QED BY <1>1, <1>4, <2>1 DEF CancelReminders, HandlingFails, ConsumerCrashes, SweeperCrashes
<1>5. CASE LookUp(p) \/ Upsert(p)
  <2>1. p \in Consumers /\ p \notin Sweepers
        BY <1>0, <1>5 DEF LookUp, Upsert, SenderOK
  <2>2. CASE Done(p)
        BY <1>1, <2>1, <2>2
  <2>3. CASE ~Done(p)
    <3>1. /\ stage'[p] \in {"upsert", "send"} /\ stage[p] # "idle"
          /\ record'[p].key = record[p].key /\ record'[p].job = record[p].job
      <4>1. CASE LookUp(p)
            BY <1>0, <2>3, <4>1 DEF LookUp, Goto
      <4>2. CASE Upsert(p)
        <5> DEFINE n == IF rows[record[p].key] = Null THEN 0 ELSE rows[record[p].key].retries
        <5>1. /\ stage'[p] = "send" /\ stage[p] = "upsert"
              /\ record'[p] = [record[p] EXCEPT !.retries = n]
              BY <1>0, <2>3, <4>2 DEF Upsert, Goto
        <5> QED BY <1>0, <5>1 DEF RecordType
      <4> QED BY <1>5, <4>1, <4>2
    <3> QED BY <2>1, <3>1 DEF InStage
  <2> QED BY <2>2, <2>3
<1>6. CASE Reclaim(p)
      BY <1>0, <1>6 DEF Reclaim, Goto, InStage, NoRecord
<1>7. CASE ClaimDue(p)
  <2>1. p \in Sweepers /\ claimed[p] = {}
        BY <1>0, <1>7 DEF ClaimDue, SenderOK, InStage
  <2>2. PICK keys \in SUBSET {k \in Keys : Due(rows[k])} :
           \/ Done(p) /\ UNCHANGED claimed
           \/ SendOneOf(p, {Claim(k) : k \in keys})
        BY <1>7 DEF ClaimDue
  <2>3. \A k \in keys : Claim(k).key = k
        BY <2>2, ClaimRecord DEF Due, WellFormed
  <2>4. \A q, r \in {Claim(k) : k \in keys} : q.key = r.key => q = r
        BY <2>3
  <2> HIDE DEF Due
  <2> QED BY <1>1, <1>2, <2>1, <2>2, <2>4
<1>8. CASE SendMail(p) \/ SendMailFails(p)
  <2>1. /\ stage[p] = "send" /\ stage'[p] \in {"markSent", "markFailed", "markRetry"}
        /\ record'[p] = record[p] /\ UNCHANGED claimed
        /\ stage'[p] = "markRetry" => p \in Sweepers
        BY <1>0, <1>8 DEF SendMail, SendMailFails, Goto
  <2> QED BY <1>0, <2>1 DEF InStage
<1>9. CASE MarkSent(p) \/ MarkFailed(p) \/ MarkForRetry(p) \/ MarkFails(p)
  <2>1. NextRow(p)
        BY <1>9 DEF MarkSent, MarkFailed, MarkForRetry, MarkFails, Succeed, Fail
  <2>2. CASE p \in Sweepers /\ claimed[p] # {}
        BY <1>2, <2>1, <2>2 DEF NextRow, InStage
  <2>3. CASE ~(p \in Sweepers /\ claimed[p] # {})
        BY <1>1, <2>1, <2>3 DEF NextRow
  <2> QED BY <2>2, <2>3
<1> QED BY <1>3, <1>4, <1>5, <1>6, <1>7, <1>8, <1>9 DEF Work, SenderFaults

LEMMA StagesStep ==
    ASSUME WellFormed, WellFormed', \A p \in Senders : InStage(p), [Next]_vars
    PROVE  \A p \in Senders : InStage(p)'
<1> SUFFICES ASSUME NEW p \in Senders PROVE InStage(p)'
    OBVIOUS
<1>1. ASSUME stage'[p] = stage[p], record'[p] = record[p],
             p \in Sweepers => claimed'[p] = claimed[p]
      PROVE  InStage(p)'
      BY <1>1 DEF InStage
<1>2. CASE UNCHANGED <<stage, record, claimed>>
      BY <1>1, <1>2
<1>3. ASSUME NEW q \in Senders, Work(q) \/ SenderFaults(q) PROVE InStage(p)'
  <2>1. CASE q = p
        BY <1>3, <2>1, StageKept
  <2>2. CASE q # p
    <3>1. PICK next, r : Goto(q, next, r)
          BY <1>3, SenderFrame
    <3>2. stage'[p] = stage[p] /\ record'[p] = record[p]
          BY <2>2, <3>1 DEF Goto, WellFormed, ServiceTypes
    <3>3. p \in Sweepers => claimed'[p] = claimed[p]
          BY <1>3, <2>2, SenderFrame DEF WellFormed, ServiceTypes
    <3> QED BY <1>1, <3>2, <3>3
  <2> QED BY <2>1, <2>2
<1> QED BY <1>2, <1>3 DEF Next, Tick, Enqueue, vars, serviceVars

LEMMA ShapeStep == ASSUME WellFormed, WellFormed', Shape, [Next]_vars PROVE Shape'
<1>0. /\ outbox \in [Jobs -> Row] /\ outbox' \in [Jobs -> Row] /\ batch \in [Workers -> SUBSET Jobs]
      /\ step \in [Workers -> Steps] /\ at \in [Workers -> Jobs \cup {Null}]
      /\ overtaken \in [Jobs -> Nat] /\ \A w \in Workers : WorkerOK(w)
      BY DEF WellFormed, OutboxTypes
<1>1. UNCHANGED faults \/ Fault
  <2>1. ASSUME NEW w \in Workers, Serve(w) \/ WorkerFaults(w) PROVE UNCHANGED faults \/ Fault
        BY <2>1 DEF Serve, WorkerFaults, ClaimBatch, Publish, PublishFails, PublishIsRefused,
                    MarkProcessed, MarkProcessedFails, RecordFailure, RecordFailureFails, DeadLetter,
                    WorkerCrashes
  <2>2. ASSUME NEW p \in Senders, Work(p) \/ SenderFaults(p) PROVE UNCHANGED faults \/ Fault
        BY <2>2 DEF Work, SenderFaults, Deliver, CancelReminders, LookUp, Upsert, Reclaim, ClaimDue,
                    SendMail, MarkSent, MarkFailed, MarkForRetry, HandlingFails, ConsumerCrashes,
                    SweeperCrashes, SendMailFails, MarkFails
  <2> QED BY <2>1, <2>2 DEF Next, Enqueue, Tick, vars
<1>2. /\ mails' \in [Keys -> Nat] /\ reclaimed' \in [Keys -> Nat]
  <2>1. CASE UNCHANGED <<mails, reclaimed>>
        BY <2>1 DEF Shape
  <2>2. ASSUME NEW p \in Senders, SendMail(p) PROVE mails' \in [Keys -> Nat] /\ UNCHANGED reclaimed
    <3>1. SenderOK(p)
          BY DEF WellFormed
    <3>2. record[p].key \in Keys
          BY <2>2, <3>1 DEF SendMail, SenderOK, ClaimOK
    <3> QED BY <2>2, <3>2 DEF SendMail, Shape
  <2>3. ASSUME NEW p \in Senders, Reclaim(p) PROVE reclaimed' \in [Keys -> Nat] /\ UNCHANGED mails
    <3> DEFINE late(k) == Stale(rows[k]) /\ \E s \in Sweepers : InHand(s, k)
    <3>1. reclaimed' = [k \in Keys |-> IF late(k) THEN reclaimed[k] + 1 ELSE reclaimed[k]]
          BY <2>3 DEF Reclaim
    <3> HIDE DEF late
    <3>2. reclaimed' \in [Keys -> Nat]
          BY <3>1 DEF Shape
    <3> QED BY <2>3, <3>2 DEF Reclaim
  <2>4. ASSUME NEW p \in Senders, Work(p) \/ SenderFaults(p), ~SendMail(p), ~Reclaim(p)
        PROVE  UNCHANGED <<mails, reclaimed>>
        BY <2>4 DEF Work, SenderFaults, Deliver, CancelReminders, LookUp, Upsert, ClaimDue,
                    MarkSent, MarkFailed, MarkForRetry, HandlingFails, ConsumerCrashes,
                    SweeperCrashes, SendMailFails, MarkFails
  <2>5. UNCHANGED <<mails, reclaimed>> \/ \E p \in Senders : SendMail(p) \/ Reclaim(p)
        BY <2>4 DEF Next, Tick, vars, serviceVars
  <2>6. mails \in [Keys -> Nat] /\ reclaimed \in [Keys -> Nat]
        BY DEF Shape
  <2> QED BY <2>1, <2>2, <2>3, <2>5, <2>6
<1>3. ASSUME NEW j \in Jobs, ~outbox'[j].enqueued PROVE overtaken'[j] = 0
  <2>1. ~outbox[j].enqueued /\ overtaken[j] = 0
        BY <1>3, RowsGrow DEF Shape
  <2>2. ASSUME NEW w \in Workers, Serve(w) \/ WorkerFaults(w), ~ClaimBatch(w) PROVE UNCHANGED overtaken
        BY <2>2 DEF Serve, WorkerFaults, Publish, PublishFails, PublishIsRefused,
                    MarkProcessed, MarkProcessedFails, RecordFailure, RecordFailureFails, DeadLetter,
                    WorkerCrashes
  <2>3. ASSUME NEW w \in Workers, ClaimBatch(w) PROVE overtaken'[j] = overtaken[j]
        BY <2>1, <2>3 DEF ClaimBatch, Claimable, Pending
  <2>4. ASSUME NEW p \in Senders, Work(p) \/ SenderFaults(p) PROVE UNCHANGED overtaken
        BY <2>4, ServiceLeavesOutbox DEF outboxVars
  <2> QED BY <2>1, <2>2, <2>3, <2>4 DEF Next, Enqueue, Tick, vars, outboxVars
<1>4. ASSUME NEW w \in Workers, step'[w] = "idle" PROVE batch'[w] = {}
  <2>1. CASE UNCHANGED <<batch, step>>
        BY <1>4, <2>1 DEF Shape
  <2>2. ASSUME NEW v \in Workers, v # w, Serve(v) \/ WorkerFaults(v)
        PROVE  batch'[w] = batch[w] /\ step'[w] = step[w]
        BY <2>2, WorkerFrame
  <2>3. ASSUME Settled(w) PROVE batch'[w] = {}
        BY <1>0, <1>4, <2>3 DEF Settled, Continue
  <2>4. CASE Serve(w) \/ WorkerFaults(w)
    <3>1. CASE WorkerCrashes(w)
          BY <1>0, <3>1 DEF WorkerCrashes
    <3>2. CASE ~WorkerCrashes(w) /\ ~Settled(w)
          BY <1>0, <1>4, <2>4, <3>2, WorkerSteps
          DEF ClaimBatch, Publish, PublishFails, PublishIsRefused, MarkProcessed, MarkProcessedFails,
              RecordFailure, RecordFailureFails, DeadLetter, Continue
    <3> QED BY <2>3, <3>1, <3>2
  <2>5. CASE \E p \in Senders : Work(p) \/ SenderFaults(p)
        BY <2>1, <2>5, ServiceLeavesOutbox DEF outboxVars
  <2> QED BY <1>4, <2>1, <2>2, <2>4, <2>5 DEF Next, Enqueue, Tick, vars, outboxVars, Shape
<1> QED BY <1>1, <1>2, <1>3, <1>4 DEF Shape, Fault

\* Another sweeper has row k.
Elsewhere(p, k) == \E s \in Sweepers \ {p} : InHand(s, k)

LEMMA RowDueOf ==
    ASSUME WellFormed, NEW p \in Senders, Work(p) \/ SenderFaults(p), NEW k \in Keys
    PROVE  /\ RowDue(k) <=>
                /\ rows[k] # Null
                /\ \/ rows[k].status \in {"SCHEDULED", "RETRYING"}
                   \/ rows[k].status = "SENDING" /\ ~Elsewhere(p, k) /\ ~(p \in Sweepers /\ InHand(p, k))
           /\ RowDue(k)' <=>
                /\ rows'[k] # Null
                /\ \/ rows'[k].status \in {"SCHEDULED", "RETRYING"}
                   \/ /\ rows'[k].status = "SENDING" /\ ~Elsewhere(p, k)
                      /\ ~(p \in Sweepers /\ InHand(p, k)')
<1>1. ASSUME NEW s \in Sweepers \ {p} PROVE InHand(s, k)' <=> InHand(s, k)
  <2>1. s \in Senders
        BY DEF Senders
  <2>2. record'[s] = record[s] /\ claimed'[s] = claimed[s]
        BY <2>1, SenderFrame DEF Goto, WellFormed, ServiceTypes
  <2> QED BY <2>2 DEF InHand
<1>2. (\E s \in Sweepers : InHand(s, k)) <=> Elsewhere(p, k) \/ (p \in Sweepers /\ InHand(p, k))
      BY DEF Elsewhere
<1>3. (\E s \in Sweepers : InHand(s, k)') <=> Elsewhere(p, k) \/ (p \in Sweepers /\ InHand(p, k)')
      BY <1>1 DEF Elsewhere
<1> QED BY <1>2, <1>3 DEF RowDue

Carries(p, k) == record[p].key = k /\ stage[p] # "markSent"

Claims(p, k) == p \in Sweepers /\ \E r \in claimed[p] : r.key = k

LEMMA InHandOf ==
    ASSUME NEW p, NEW k
    PROVE  /\ p \in Sweepers => (InHand(p, k) <=> record[p].key = k \/ Claims(p, k))
           /\ p \in Sweepers => (InHand(p, k)' <=> record'[p].key = k \/ Claims(p, k)')
           /\ Weight(p, k) = Bit(Carries(p, k)) + Bit(Claims(p, k))
           /\ Weight(p, k)' = Bit(Carries(p, k)') + Bit(Claims(p, k)')
BY DEF InHand, Claims, Carries, Weight

\* What a sender takes up next, it had claimed.
LEMMA NextRowBalance ==
    ASSUME WellFormed, WellFormed', NEW p \in Senders, InStage(p), NextRow(p), NEW k \in Keys
    PROVE  /\ Weight(p, k)' = Bit(Claims(p, k))
           /\ p \in Sweepers => (InHand(p, k)' <=> Claims(p, k))
<1>0. /\ stage \in [Senders -> Stages \cup {"claim"}] /\ record \in [Senders -> RecordType]
      /\ claimed \in [Sweepers -> SUBSET RecordType] /\ Null \notin Keys
      BY ServiceAssumption DEF WellFormed, ServiceTypes
<1>1. CASE p \in Sweepers /\ claimed[p] # {}
  <2>1. PICK r \in claimed[p] : /\ stage'[p] = "send" /\ record'[p] = r
                                /\ claimed'[p] = claimed[p] \ {r}
        BY <1>0, <1>1 DEF NextRow, SendOneOf, Goto
  <2>2. \A q \in claimed[p] \ {r} : q.key # r.key
        BY <1>1, <2>1 DEF InStage
  <2>3. Carries(p, k)' <=> r.key = k
        BY <2>1 DEF Carries
  <2>4. Claims(p, k)' <=> r.key # k /\ Claims(p, k)
        BY <1>1, <2>1, <2>2 DEF Claims
  <2>5. r.key = k => Claims(p, k)
        BY <1>1, <2>1 DEF Claims
  <2> QED BY <2>1, <2>3, <2>4, <2>5, InHandOf DEF Bit
<1>2. CASE ~(p \in Sweepers /\ claimed[p] # {})
  <2>1. stage'[p] = "idle" /\ record'[p] = NoRecord /\ UNCHANGED claimed
        BY <1>0, <1>2 DEF NextRow, Done, Goto
  <2>2. ~Claims(p, k) /\ ~Claims(p, k)'
        BY <1>2, <2>1 DEF Claims
  <2>3. ~Carries(p, k)' /\ record'[p].key # k
        BY <1>0, <2>1 DEF Carries, NoRecord
  <2> QED BY <2>2, <2>3, InHandOf DEF Bit
<1> QED BY <1>1, <1>2

\* The balance of a step that moves no message
LEMMA QuietBalance ==
    ASSUME WellFormed, WellFormed', Shape, Shape', NEW p \in Senders, Work(p) \/ SenderFaults(p),
           NEW k \in Keys, UNCHANGED <<queue, dlq>>,
           mails'[k] + Bit(RowDue(k))' + Weight(p, k)' + faults + reclaimed[k]
             <= mails[k] + Bit(RowDue(k)) + Weight(p, k) + faults' + reclaimed'[k]
    PROVE  Total(k)' <= Total(k)
<1> DEFINE x == Bit(RowDue(k))
<1>0. /\ mails[k] \in Int /\ mails'[k] \in Int /\ reclaimed[k] \in Int /\ reclaimed'[k] \in Int
      /\ faults \in Int /\ faults' \in Int /\ Weight(p, k) \in Int /\ Weight(p, k)' \in Int
      /\ x \in Int /\ x' \in Int
      BY WeightType DEF Shape, Bit
<1>1. \A j \in Jobs : queue'[j] + dlq'[j] <= queue[j] + dlq[j] + (IF j = p THEN 0 ELSE 0)
  <2>1. \A j \in Jobs : queue[j] + dlq[j] \in Int
        BY DEF WellFormed, ServiceTypes
  <2> QED BY <2>1
<1>2. mails'[k] + x' + Weight(p, k)' + (IF p \in JobsOf(k) THEN 0 ELSE 0) + faults + reclaimed[k]
        <= mails[k] + x + Weight(p, k) + faults' + reclaimed'[k]
  <2>1. mails'[k] + x' + Weight(p, k)' + faults + reclaimed[k]
          <= mails[k] + x + Weight(p, k) + faults' + reclaimed'[k]
        OBVIOUS
  <2>2. (IF p \in JobsOf(k) THEN 0 ELSE 0) = 0
        OBVIOUS
  <2> HIDE DEF x
  <2> QED BY <1>0, <2>1, <2>2
<1>3. 0 \in Int
      OBVIOUS
<1> QED BY <1>1, <1>2, <1>3, SenderBalance

LEMMA NackedMessages ==
    ASSUME WellFormed, NEW p \in Consumers, stage[p] # "idle", NEW j \in Jobs,
           (Nack(p) /\ UNCHANGED queue) \/ ConsumerCrashes(p)
    PROVE  queue'[j] + dlq'[j] <= queue[j] + dlq[j] + (IF j = record[p].job THEN 1 ELSE 0)
<1>1. /\ record[p].job \in Jobs /\ queue \in [Jobs -> Nat] /\ dlq \in [Jobs -> Nat]
      BY DEF WellFormed, ServiceTypes, SenderOK, Senders
<1>2. CASE Nack(p) /\ UNCHANGED queue
      BY <1>1, <1>2 DEF Nack
<1>3. CASE ConsumerCrashes(p)
      BY <1>1, <1>3 DEF ConsumerCrashes
<1> QED BY <1>2, <1>3

\* No step of a consumer or sweeper takes the mails above the balance.
LEMMA SenderTotal ==
    ASSUME WellFormed, WellFormed', Shape, Shape', NEW p \in Senders, InStage(p),
           Work(p) \/ SenderFaults(p), NEW k \in Keys
    PROVE  Total(k)' <= Total(k)
<1>0. /\ stage \in [Senders -> Stages \cup {"claim"}] /\ record \in [Senders -> RecordType]
      /\ claimed \in [Sweepers -> SUBSET RecordType] /\ rows \in [Keys -> RowType \cup {Null}]
      /\ queue \in [Jobs -> Nat] /\ dlq \in [Jobs -> Nat]
      /\ SenderOK(p) /\ Null \notin Keys /\ Null \notin RowType
      /\ (p \in Consumers <=> p \notin Sweepers)
      BY ServiceAssumption DEF WellFormed, ServiceTypes, Senders
<1>00. /\ mails \in [Keys -> Nat] /\ mails[k] \in Int /\ reclaimed[k] \in Int /\ faults \in Int
       BY DEF Shape
<1>1. CASE Deliver(p)
  <2>1. /\ p \in Consumers /\ p \notin Sweepers /\ stage[p] = "idle" /\ record[p].key = Null
        /\ UNCHANGED <<rows, mails, reclaimed, faults>>
        BY <1>0, <1>1 DEF Deliver, InStage
  <2>2. PICK j \in Jobs, from \in {"queue", "dlq"} :
           /\ Take(p, j, from)
           /\ \A i \in Jobs : queue'[i] + dlq'[i] <= queue[i] + dlq[i] + (IF i = j THEN 0 - 1 ELSE 0)
    <3>1. PICK j \in Jobs :
            \/ /\ queue[j] > 0 /\ queue' = [queue EXCEPT ![j] = @ - 1] /\ UNCHANGED dlq
               /\ Take(p, j, "queue")
            \/ /\ dlq[j] > 0 /\ dlq' = [dlq EXCEPT ![j] = @ - 1] /\ UNCHANGED queue
               /\ Take(p, j, "dlq")
          BY <1>1 DEF Deliver
    <3>2. \A i \in Jobs : queue'[i] + dlq'[i] <= queue[i] + dlq[i] + (IF i = j THEN 0 - 1 ELSE 0)
          BY <1>0, <3>1
    <3> QED BY <3>1, <3>2
  <2>3. /\ stage'[p] # "markSent" /\ record'[p].key = KeyOf(j)
        BY <1>0, <2>2 DEF Take, Goto, Message, KeyOf
  <2>4. KeyOf(j) = k <=> j \in JobsOf(k)
        BY <1>0 DEF KeyOf, JobsOf
  <2>5. /\ ~Carries(p, k) /\ ~Claims(p, k) /\ ~Claims(p, k)'
        /\ Carries(p, k)' <=> j \in JobsOf(k)
        BY <1>0, <2>1, <2>3, <2>4 DEF Carries, Claims
  <2>6. RowDue(k)' <=> RowDue(k)
        BY <2>1, RowDueOf
  <2>7. mails'[k] + Bit(RowDue(k))' + Weight(p, k)' + (IF j \in JobsOf(k) THEN 0 - 1 ELSE 0)
            + faults + reclaimed[k]
          <= mails[k] + Bit(RowDue(k)) + Weight(p, k) + faults' + reclaimed'[k]
        BY <1>00, <2>1, <2>5, <2>6, InHandOf DEF Bit
  <2>8. 0 - 1 \in Int
        OBVIOUS
  <2> QED BY <2>2, <2>7, <2>8, SenderBalance
<1>2. ASSUME Done(p), p \in Sweepers => claimed'[p] = {}
      PROVE  Weight(p, k)' = 0 /\ (p \in Sweepers => ~InHand(p, k)')
  <2>1. record'[p] = NoRecord
        BY <1>0, <1>2 DEF Done, Goto
  <2>2. ~Carries(p, k)' /\ ~Claims(p, k)' /\ record'[p].key # k
        BY <1>0, <1>2, <2>1 DEF Carries, Claims, NoRecord
  <2> QED BY <2>2, InHandOf DEF Bit
<1>3. Weight(p, k) \in Nat /\ Weight(p, k)' \in Nat
      BY WeightType
<1>4. CASE CancelReminders(p)
  <2>1. p \in Consumers /\ p \notin Sweepers /\ UNCHANGED <<queue, dlq, mails, reclaimed, faults>>
        BY <1>0, <1>4 DEF CancelReminders, SenderOK
  <2>2. rows'[k] = rows[k] \/ rows'[k].status = "CANCELLED"
    <3>1. rows'[k] = Cancelled(rows[k], Job[record[p].job].entity)
          BY <1>4 DEF CancelReminders
    <3> QED BY <1>0, <3>1 DEF Cancelled, RowType
  <2>3. RowDue(k)' => RowDue(k)
        BY <2>1, <2>2, RowDueOf
  <2>4. Weight(p, k)' = 0
        BY <1>2, <1>4, <2>1 DEF CancelReminders
  <2>5. mails'[k] + Bit(RowDue(k))' + Weight(p, k)' + faults + reclaimed[k]
          <= mails[k] + Bit(RowDue(k)) + Weight(p, k) + faults' + reclaimed'[k]
        BY <1>00, <1>3, <2>1, <2>3, <2>4 DEF Bit
  <2> QED BY <2>1, <2>5, QuietBalance
<1>5. CASE LookUp(p)
  <2>1. /\ p \in Consumers /\ p \notin Sweepers
        /\ UNCHANGED <<queue, dlq, mails, reclaimed, faults, rows>>
        BY <1>0, <1>5 DEF LookUp, SenderOK
  <2>2. RowDue(k)' <=> RowDue(k)
        BY <2>1, RowDueOf
  <2>3. Weight(p, k)' <= Weight(p, k)
    <3>1. CASE Done(p)
          BY <1>2, <1>3, <2>1, <3>1
    <3>2. CASE Goto(p, "upsert", record[p])
      <4>1. Carries(p, k)' <=> Carries(p, k)
            BY <1>0, <1>5, <3>2 DEF LookUp, Goto, Carries
      <4> QED BY <2>1, <4>1, InHandOf DEF Claims, Bit
    <3> QED BY <1>5, <3>1, <3>2 DEF LookUp
  <2>5. mails'[k] + Bit(RowDue(k))' + Weight(p, k)' + faults + reclaimed[k]
          <= mails[k] + Bit(RowDue(k)) + Weight(p, k) + faults' + reclaimed'[k]
        BY <1>00, <1>3, <2>1, <2>2, <2>3 DEF Bit
  <2> QED BY <2>1, <2>5, QuietBalance
<1>6. CASE Upsert(p)
  <2>1. /\ p \in Consumers /\ p \notin Sweepers /\ stage[p] = "upsert"
        /\ UNCHANGED <<queue, dlq, mails, reclaimed, faults>>
        BY <1>0, <1>6 DEF Upsert, SenderOK
  <2>2. ~Claims(p, k) /\ ~Claims(p, k)'
        BY <2>1 DEF Claims
  <2>3. CASE record[p].key # k
    <3>1. rows'[k] = rows[k]
          BY <1>0, <1>6, <2>3 DEF Upsert
    <3>2. RowDue(k)' <=> RowDue(k)
          BY <2>1, <3>1, RowDueOf
    <3>3. ~Carries(p, k)'
      <4>1. record'[p].key = record[p].key \/ record'[p].key = Null
            BY <1>0, <1>6 DEF Upsert, Goto, Done, NoRecord, RecordType
      <4> QED BY <1>0, <2>3, <4>1 DEF Carries
    <3>4. Weight(p, k)' <= Weight(p, k)
          BY <1>3, <2>2, <3>3, InHandOf DEF Bit
    <3>5. mails'[k] + Bit(RowDue(k))' + Weight(p, k)' + faults + reclaimed[k]
            <= mails[k] + Bit(RowDue(k)) + Weight(p, k) + faults' + reclaimed'[k]
          BY <1>00, <1>3, <2>1, <3>2, <3>4 DEF Bit
    <3> QED BY <2>1, <3>5, QuietBalance
  <2>4. CASE record[p].key = k
    <3>1. Weight(p, k) = 1
          BY <2>1, <2>2, <2>4, InHandOf DEF Carries, Bit
    <3>2. rows'[k].status = IF record[p].later THEN "SCHEDULED" ELSE "PENDING"
          BY <1>0, <1>6, <2>4 DEF Upsert
    <3>3. Weight(p, k)' + Bit(RowDue(k))' <= 1
      <4>1. CASE record[p].later
        <5>1. Weight(p, k)' = 0
              BY <1>2, <1>6, <2>1, <4>1 DEF Upsert
        <5> QED BY <5>1 DEF Bit
      <4>2. CASE ~record[p].later
        <5>1. ~RowDue(k)'
              BY <3>2, <4>2 DEF RowDue
        <5> QED BY <2>2, <5>1, InHandOf DEF Bit
      <4> QED BY <4>1, <4>2
    <3>4. Bit(RowDue(k)) \in Nat /\ Bit(RowDue(k))' \in Nat
          BY DEF Bit
    <3>5. mails'[k] + Bit(RowDue(k))' + Weight(p, k)' + faults + reclaimed[k]
            <= mails[k] + Bit(RowDue(k)) + Weight(p, k) + faults' + reclaimed'[k]
          BY <1>00, <1>3, <2>1, <3>1, <3>3, <3>4
    <3> QED BY <2>1, <3>5, QuietBalance
  <2> QED BY <2>3, <2>4
<1>7. CASE HandlingFails(p) \/ ConsumerCrashes(p)
  <2>1. /\ p \in Consumers /\ p \notin Sweepers /\ stage[p] # "idle" /\ Done(p)
        /\ UNCHANGED <<mails, reclaimed, rows>> /\ faults' = faults + 1
        BY <1>0, <1>7 DEF HandlingFails, ConsumerCrashes, SenderOK, Fault
  <2>2. (Nack(p) /\ UNCHANGED queue) \/ ConsumerCrashes(p)
        BY <1>7 DEF HandlingFails
  <2>3. \A j \in Jobs : queue'[j] + dlq'[j] <= queue[j] + dlq[j]
                           + (IF j = record[p].job THEN 1 ELSE 0)
        BY <2>1, <2>2, NackedMessages
  <2>4. RowDue(k)' <=> RowDue(k)
        BY <2>1, RowDueOf
  <2>5. Weight(p, k)' = 0
        BY <1>2, <2>1
  <2> DEFINE m == IF record[p].job \in JobsOf(k) THEN 1 ELSE 0
  <2>6. m \in Int /\ m <= 1
        OBVIOUS
  <2> HIDE DEF m
  <2>7. mails'[k] + Bit(RowDue(k))' + Weight(p, k)' + m + faults + reclaimed[k]
          <= mails[k] + Bit(RowDue(k)) + Weight(p, k) + faults' + reclaimed'[k]
        BY <1>00, <1>3, <2>1, <2>4, <2>5, <2>6 DEF Bit
  <2>8. 1 \in Int
        OBVIOUS
  <2> QED BY <2>3, <2>7, <2>8, SenderBalance DEF m
<1>8. CASE Reclaim(p)
  <2>1. /\ p \in Sweepers /\ p \notin Consumers /\ stage[p] = "idle" /\ record[p].key = Null
        /\ claimed[p] = {} /\ stage'[p] = "claim" /\ record'[p] = NoRecord
        /\ UNCHANGED <<queue, dlq, mails, faults, claimed>>
        BY <1>0, <1>8 DEF Reclaim, InStage, Goto
  <2>2. ~Carries(p, k) /\ ~Carries(p, k)' /\ ~Claims(p, k) /\ ~Claims(p, k)' /\ record'[p].key # k
        BY <1>0, <2>1 DEF Carries, Claims, NoRecord
  <2>3. ~InHand(p, k) /\ ~InHand(p, k)'
        BY <1>0, <2>1, <2>2, InHandOf
  <2>4. /\ rows'[k] = IF Stale(rows[k])
                      THEN [rows[k] EXCEPT !.status = "RETRYING", !.wait = 0, !.age = 0] ELSE rows[k]
        /\ reclaimed'[k] = IF Stale(rows[k]) /\ \E s \in Sweepers : InHand(s, k)
                           THEN reclaimed[k] + 1 ELSE reclaimed[k]
        BY <1>8 DEF Reclaim
  <2>5. CASE ~Stale(rows[k])
    <3>1. rows'[k] = rows[k] /\ reclaimed'[k] = reclaimed[k]
          BY <2>4, <2>5
    <3>2. RowDue(k)' <=> RowDue(k)
          BY <2>3, <3>1, RowDueOf
    <3>3. mails'[k] + Bit(RowDue(k))' + Weight(p, k)' + faults + reclaimed[k]
            <= mails[k] + Bit(RowDue(k)) + Weight(p, k) + faults' + reclaimed'[k]
          BY <1>00, <2>1, <2>2, <3>1, <3>2, InHandOf DEF Bit
    <3> QED BY <2>1, <3>3, QuietBalance
  <2>6. CASE Stale(rows[k])
    <3>1. rows[k] # Null /\ rows[k].status = "SENDING"
          BY <2>6 DEF Stale
    <3>2. RowDue(k) <=> ~Elsewhere(p, k)
          BY <2>3, <3>1, RowDueOf
    <3>3. Elsewhere(p, k) => reclaimed'[k] = reclaimed[k] + 1
          BY <2>4, <2>6 DEF Elsewhere
    <3>4. reclaimed'[k] = reclaimed[k] \/ reclaimed'[k] = reclaimed[k] + 1
          BY <2>4
    <3>5. mails'[k] + Bit(RowDue(k))' + Weight(p, k)' + faults + reclaimed[k]
            <= mails[k] + Bit(RowDue(k)) + Weight(p, k) + faults' + reclaimed'[k]
          BY <1>00, <2>1, <2>2, <3>2, <3>3, <3>4, InHandOf DEF Bit
    <3> QED BY <2>1, <3>5, QuietBalance
  <2> QED BY <2>5, <2>6
<1>9. CASE ClaimDue(p)
  <2>1. /\ p \in Sweepers /\ stage[p] = "claim" /\ record[p].key = Null /\ claimed[p] = {}
        /\ UNCHANGED <<queue, dlq, mails, reclaimed, faults>>
        BY <1>0, <1>9 DEF ClaimDue, SenderOK, InStage
  <2>2. PICK keys \in SUBSET {x \in Keys : Due(rows[x])} :
          /\ rows' = [x \in Keys |-> IF x \in keys
                                    THEN [rows[x] EXCEPT !.status = "SENDING", !.age = 0]
                                    ELSE rows[x]]
          /\ IF keys = {} THEN Done(p) /\ UNCHANGED claimed
             ELSE SendOneOf(p, {Claim(x) : x \in keys})
        BY <1>9 DEF ClaimDue
  <2>3. ~Carries(p, k) /\ ~Claims(p, k) /\ ~InHand(p, k)
        BY <1>0, <2>1, InHandOf DEF Carries, Claims
  <2>4. /\ Weight(p, k)' = IF k \in keys THEN 1 ELSE 0
        /\ InHand(p, k)' <=> k \in keys
    <3>1. CASE keys = {}
          BY <1>2, <2>1, <2>2, <3>1
    <3>2. CASE keys # {}
      <4>1. \A x \in keys : Claim(x).key = x
            BY <2>2, ClaimRecord DEF Due, WellFormed
      <4> DEFINE claims == {Claim(x) : x \in keys}
      <4>2. \A x \in Keys : x \in keys <=> \E r \in claims : r.key = x
            BY <4>1
      <4>3. \A q, r \in claims : q.key = r.key => q = r
            BY <4>1
      <4>4. SendOneOf(p, claims)
            BY <2>2, <3>2
      <4> HIDE DEF claims
      <4>5. PICK r \in claims : /\ stage'[p] = "send" /\ record'[p] = r
                                /\ claimed'[p] = claims \ {r}
            BY <1>0, <2>1, <4>4 DEF SendOneOf, Goto
      <4>6. Carries(p, k)' <=> r.key = k
            BY <4>5 DEF Carries
      <4>7. Claims(p, k)' <=> r.key # k /\ k \in keys
            BY <2>1, <4>2, <4>3, <4>5 DEF Claims
      <4>8. r.key = k => k \in keys
            BY <4>2, <4>5
      <4> QED BY <2>1, <4>5, <4>6, <4>7, <4>8, InHandOf DEF Bit
    <3> QED BY <3>1, <3>2
  <2>5. CASE k \in keys
    <3>1. rows[k] # Null /\ rows[k].status \in {"SCHEDULED", "RETRYING"} /\ rows[k] \in RowType
          BY <1>0, <2>2, <2>5 DEF Due
    <3>2. rows'[k].status = "SENDING"
          BY <2>2, <2>5, <3>1 DEF RowType
    <3>3. RowDue(k)
          BY <3>1 DEF RowDue
    <3>4. ~RowDue(k)'
          BY <2>1, <2>4, <2>5, <3>2, RowDueOf
    <3>5. mails'[k] + Bit(RowDue(k))' + Weight(p, k)' + faults + reclaimed[k]
            <= mails[k] + Bit(RowDue(k)) + Weight(p, k) + faults' + reclaimed'[k]
          BY <1>00, <1>3, <2>1, <2>4, <2>5, <3>3, <3>4 DEF Bit
    <3> QED BY <2>1, <3>5, QuietBalance
  <2>6. CASE k \notin keys
    <3>1. rows'[k] = rows[k]
          BY <2>2, <2>6
    <3>2. RowDue(k)' <=> RowDue(k)
          BY <2>3, <2>4, <2>6, <3>1, RowDueOf
    <3>3. mails'[k] + Bit(RowDue(k))' + Weight(p, k)' + faults + reclaimed[k]
            <= mails[k] + Bit(RowDue(k)) + Weight(p, k) + faults' + reclaimed'[k]
          BY <1>00, <1>3, <2>1, <2>4, <2>6, <3>2 DEF Bit
    <3> QED BY <2>1, <3>3, QuietBalance
  <2> QED BY <2>5, <2>6
<1>10. CASE SendMail(p)
  <2>1. /\ stage[p] = "send" /\ stage'[p] = "markSent" /\ record'[p] = record[p]
        /\ record[p].key \in Keys /\ mails' = [mails EXCEPT ![record[p].key] = @ + 1]
        /\ UNCHANGED <<queue, dlq, rows, claimed, reclaimed, faults>>
        BY <1>0, <1>10 DEF SendMail, Goto, SenderOK, ClaimOK
  <2>2. /\ Carries(p, k) <=> record[p].key = k
        /\ ~Carries(p, k)' /\ (Claims(p, k)' <=> Claims(p, k))
        BY <2>1 DEF Carries, Claims
  <2>3. RowDue(k)' <=> RowDue(k)
    <3>1. p \in Sweepers => (InHand(p, k)' <=> InHand(p, k))
          BY <2>1, <2>2, InHandOf
    <3> QED BY <2>1, <3>1, RowDueOf
  <2>4. mails'[k] = IF record[p].key = k THEN mails[k] + 1 ELSE mails[k]
        BY <1>00, <2>1
  <2>5. mails'[k] + Bit(RowDue(k))' + Weight(p, k)' + faults + reclaimed[k]
          <= mails[k] + Bit(RowDue(k)) + Weight(p, k) + faults' + reclaimed'[k]
        BY <1>00, <2>1, <2>2, <2>3, <2>4, InHandOf DEF Bit
  <2> QED BY <2>1, <2>5, QuietBalance
<1>11. CASE SendMailFails(p)
  <2>1. /\ stage[p] = "send" /\ stage'[p] # "markSent" /\ record'[p] = record[p]
        /\ faults' = faults + 1 /\ UNCHANGED <<queue, dlq, mails, rows, claimed, reclaimed>>
        BY <1>0, <1>11 DEF SendMailFails, Goto, Fault
  <2>2. (Carries(p, k)' <=> Carries(p, k)) /\ (Claims(p, k)' <=> Claims(p, k))
        BY <2>1 DEF Carries, Claims
  <2>3. Bit(RowDue(k))' <= Bit(RowDue(k)) + 1
        BY DEF Bit
  <2>4. Bit(RowDue(k)) \in Nat /\ Bit(RowDue(k))' \in Nat
        BY DEF Bit
  <2>5. Weight(p, k)' = Weight(p, k)
        BY <2>2, InHandOf DEF Bit
  <2>6. mails'[k] + Bit(RowDue(k))' + Weight(p, k)' + faults + reclaimed[k]
          <= mails[k] + Bit(RowDue(k)) + Weight(p, k) + faults' + reclaimed'[k]
        BY <1>00, <1>3, <2>1, <2>3, <2>4, <2>5
  <2> QED BY <2>1, <2>6, QuietBalance
<1>12. CASE SweeperCrashes(p)
  <2>1. /\ Done(p) /\ claimed'[p] = {} /\ faults' = faults + 1
        /\ UNCHANGED <<queue, dlq, mails, rows, reclaimed>>
        BY <1>0, <1>12 DEF SweeperCrashes, Fault
  <2>2. Weight(p, k)' = 0
        BY <1>2, <2>1
  <2>3. mails'[k] + Bit(RowDue(k))' + Weight(p, k)' + faults + reclaimed[k]
          <= mails[k] + Bit(RowDue(k)) + Weight(p, k) + faults' + reclaimed'[k]
        BY <1>00, <1>3, <2>1, <2>2 DEF Bit
  <2> QED BY <2>1, <2>3, QuietBalance
<1>13. CASE MarkSent(p) \/ MarkFailed(p) \/ MarkForRetry(p) \/ MarkFails(p)
  <2>1. /\ NextRow(p) /\ UNCHANGED <<queue, mails, reclaimed>>
        /\ stage[p] \in {"markSent", "markFailed", "markRetry"}
        BY <1>13 DEF MarkSent, MarkFailed, MarkForRetry, MarkFails, Succeed, Fail
  <2>2. /\ Weight(p, k)' = Bit(Claims(p, k)) /\ (p \in Sweepers => (InHand(p, k)' <=> Claims(p, k)))
        /\ Weight(p, k) = Bit(Carries(p, k)) + Bit(Claims(p, k))
        BY <2>1, NextRowBalance, InHandOf
  <2> DEFINE i == record[p].job
             m == IF i \in JobsOf(k) THEN 1 ELSE 0
  <2>3. p \in Consumers =>
          /\ stage[p] # "markRetry"
          /\ i \in JobsOf(k) => record[p].key = k
        BY <1>0, <2>1 DEF InStage, KeyOf, JobsOf
  <2>4. CASE record[p].key # k
    <3>1. rows'[k] = rows[k] /\ faults' >= faults /\ faults' \in Int
      <4>1. CASE UNCHANGED faults /\ (MarkSent(p) \/ MarkFailed(p) \/ MarkForRetry(p))
            BY <1>0, <1>00, <2>4, <4>1 DEF MarkSent, MarkFailed, MarkForRetry, SetRow
      <4>2. CASE MarkFails(p)
            BY <1>00, <4>2 DEF MarkFails, Fault
      <4> QED BY <1>13, <4>1, <4>2 DEF MarkSent, MarkFailed, MarkForRetry
    <3>2. Weight(p, k)' = Weight(p, k)
          BY <2>2, <2>4 DEF Carries, Bit
    <3>3. RowDue(k)' <=> RowDue(k)
          BY <2>2, <2>4, <3>1, InHandOf, RowDueOf
    <3>4. CASE UNCHANGED dlq
      <4>1. mails'[k] + Bit(RowDue(k))' + Weight(p, k)' + faults + reclaimed[k]
              <= mails[k] + Bit(RowDue(k)) + Weight(p, k) + faults' + reclaimed'[k]
            BY <1>00, <1>3, <2>1, <3>1, <3>2, <3>3 DEF Bit
      <4> QED BY <2>1, <3>4, <4>1, QuietBalance
    <3>5. CASE ~UNCHANGED dlq
      <4>1. p \in Consumers /\ Nack(p)
            BY <1>13, <3>5 DEF MarkSent, MarkFailed, MarkForRetry, MarkFails, Succeed, Fail
      <4>2. m = 0
            BY <2>3, <2>4, <4>1
      <4> HIDE DEF m
      <4>3. mails'[k] + Bit(RowDue(k))' + Weight(p, k)' + m + faults + reclaimed[k]
              <= mails[k] + Bit(RowDue(k)) + Weight(p, k) + faults' + reclaimed'[k]
            BY <1>00, <1>3, <2>1, <3>1, <3>2, <3>3, <4>2 DEF Bit
      <4>4. \A j \in Jobs : queue'[j] + dlq'[j] <= queue[j] + dlq[j] + (IF j = i THEN 1 ELSE 0)
            BY <2>1, <4>1, NackedMessages
      <4>5. 1 \in Int
            OBVIOUS
      <4> QED BY <4>3, <4>4, <4>5, SenderBalance DEF m
    <3> QED BY <3>4, <3>5
  <2>5. CASE record[p].key = k /\ MarkSent(p)
    <3>1. UNCHANGED <<dlq, faults>>
          BY <2>5 DEF MarkSent, Succeed
    <3>2. ~RowDue(k)'
      <4>1. rows[k] \in RowType
            BY <1>0, <2>5 DEF MarkSent, SenderOK, ClaimOK
      <4>2. rows'[k].status = "SENT"
            BY <1>0, <2>5, <4>1 DEF MarkSent, SetRow, RowType
      <4> QED BY <4>2 DEF RowDue
    <3>3. mails'[k] + Bit(RowDue(k))' + Weight(p, k)' + faults + reclaimed[k]
            <= mails[k] + Bit(RowDue(k)) + Weight(p, k) + faults' + reclaimed'[k]
          BY <1>00, <2>1, <2>2, <3>1, <3>2 DEF Bit
    <3> QED BY <2>1, <3>1, <3>3, QuietBalance
  <2>6. CASE record[p].key = k /\ MarkForRetry(p)
    <3>1. stage[p] = "markRetry" /\ p \notin Consumers /\ UNCHANGED <<dlq, faults>>
          BY <2>3, <2>6 DEF MarkForRetry, Fail
    <3>2. Carries(p, k)
          BY <2>6, <3>1 DEF Carries
    <3>3. mails'[k] + Bit(RowDue(k))' + Weight(p, k)' + faults + reclaimed[k]
            <= mails[k] + Bit(RowDue(k)) + Weight(p, k) + faults' + reclaimed'[k]
          BY <1>00, <2>1, <2>2, <3>1, <3>2 DEF Bit
    <3> QED BY <2>1, <3>1, <3>3, QuietBalance
  <2>7. CASE record[p].key = k /\ MarkFailed(p)
    <3>1. stage[p] = "markFailed" /\ UNCHANGED faults /\ Carries(p, k)
          BY <2>7 DEF MarkFailed, Carries
    <3>2. ~RowDue(k)'
      <4>1. rows[k] \in RowType
            BY <1>0, <2>7 DEF MarkFailed, SenderOK, ClaimOK
      <4>2. rows'[k].status = "FAILED"
            BY <1>0, <2>7, <4>1 DEF MarkFailed, SetRow, RowType
      <4> QED BY <4>2 DEF RowDue
    <3>3. \A j \in Jobs : queue'[j] + dlq'[j] <= queue[j] + dlq[j] + (IF j = i THEN 1 ELSE 0)
      <4>1. CASE p \in Consumers
            BY <2>1, <2>7, <4>1, NackedMessages DEF MarkFailed, Fail
      <4>2. CASE p \notin Consumers
        <5>1. UNCHANGED dlq
              BY <2>7, <4>2 DEF MarkFailed, Fail
        <5> QED BY <1>0, <2>1, <5>1
      <4> QED BY <4>1, <4>2
    <3>4. m \in Nat /\ m <= 1
          OBVIOUS
    <3> HIDE DEF m
    <3>5. mails'[k] + Bit(RowDue(k))' + Weight(p, k)' + m + faults + reclaimed[k]
            <= mails[k] + Bit(RowDue(k)) + Weight(p, k) + faults' + reclaimed'[k]
          BY <1>00, <2>1, <2>2, <3>1, <3>2, <3>4 DEF Bit
    <3>6. 1 \in Int
          OBVIOUS
    <3> QED BY <3>3, <3>5, <3>6, SenderBalance DEF m
  <2>8. CASE record[p].key = k /\ MarkFails(p)
    <3>1. faults' = faults + 1 /\ UNCHANGED rows
          BY <2>8 DEF MarkFails, Fault
    <3>2. CASE p \in Sweepers
      <4>1. UNCHANGED dlq
            BY <1>0, <2>8, <3>2 DEF MarkFails, Succeed, Fail
      <4>2. mails'[k] + Bit(RowDue(k))' + Weight(p, k)' + faults + reclaimed[k]
              <= mails[k] + Bit(RowDue(k)) + Weight(p, k) + faults' + reclaimed'[k]
            BY <1>00, <2>1, <2>2, <3>1 DEF Bit
      <4> QED BY <2>1, <4>1, <4>2, QuietBalance
    <3>3. CASE p \in Consumers
      <4>1. RowDue(k)' <=> RowDue(k)
            BY <1>0, <3>1, <3>3, RowDueOf
      <4>2. \A j \in Jobs : queue'[j] + dlq'[j] <= queue[j] + dlq[j] + (IF j = i THEN 1 ELSE 0)
        <5>1. CASE UNCHANGED dlq
              BY <1>0, <2>1, <5>1
        <5>2. CASE ~UNCHANGED dlq
              BY <2>1, <2>8, <3>3, <5>2, NackedMessages DEF MarkFails, Succeed, Fail
        <5> QED BY <5>1, <5>2
      <4>3. m \in Nat /\ m <= 1
            OBVIOUS
      <4> HIDE DEF m
      <4>4. mails'[k] + Bit(RowDue(k))' + Weight(p, k)' + m + faults + reclaimed[k]
              <= mails[k] + Bit(RowDue(k)) + Weight(p, k) + faults' + reclaimed'[k]
            BY <1>00, <2>1, <2>2, <3>1, <4>1, <4>3 DEF Bit
      <4>5. 1 \in Int
            OBVIOUS
      <4> QED BY <4>2, <4>4, <4>5, SenderBalance DEF m
    <3> QED BY <1>0, <3>2, <3>3
  <2> QED BY <1>13, <2>4, <2>5, <2>6, <2>7, <2>8
<1> QED BY <1>1, <1>4, <1>5, <1>6, <1>7, <1>8, <1>9, <1>10, <1>11, <1>12, <1>13
        DEF Work, SenderFaults

-----------------------------------------------------------------------------
(* The theorem *)

\* Every mail sent or still to come has a request, a fault, or a claim that ran out.
Balanced ==
    /\ Shape
    /\ \A p \in Senders : InStage(p)
    /\ \A k \in Keys : Total(k) <= 0

LEMMA BalanceKept ==
    ASSUME WellFormed, WellFormed', Shape, Shape', \A p \in Senders : InStage(p), [Next]_vars,
           NEW k \in Keys, Total(k) <= 0
    PROVE  Total(k)' <= 0
<1>0. /\ mails[k] \in Int /\ mails'[k] \in Int /\ reclaimed[k] \in Int /\ reclaimed'[k] \in Int
      /\ faults \in Int /\ faults' \in Int
      /\ InWork(k) \in Int /\ InWork(k)' \in Int
      /\ Outstanding(k) \in Int /\ Outstanding(k)' \in Int
      /\ Bit(RowDue(k)) \in Int /\ Bit(RowDue(k))' \in Int
      BY InWorkType, OutstandingType DEF Shape, Bit
<1>1. Total(k) \in Int /\ Total(k)' \in Int
      BY <1>0 DEF Total
<1>2. ASSUME NEW p \in Senders, Work(p) \/ SenderFaults(p) PROVE Total(k)' <= 0
  <2>1. Total(k)' <= Total(k)
        BY <1>2, SenderTotal
  <2> QED BY <1>1, <2>1
<1>3. ASSUME UNCHANGED <<mails, reclaimed, stage, record, claimed>>,
             RowDue(k)' <=> RowDue(k), Outstanding(k)' - faults' <= Outstanding(k) - faults
      PROVE  Total(k)' <= 0
  <2>1. InWork(k)' = InWork(k)
    <3> DEFINE f == [p \in Senders |-> Weight(p, k)]
               g == [p \in Senders |-> Weight(p, k)']
    <3>1. InWork(k) = SumOf(f, Senders) /\ InWork(k)' = SumOf(g, Senders)
          BY DEF InWork
    <3>2. f = g
          BY <1>3 DEF Weight
    <3> HIDE DEF f, g
    <3> QED BY <3>1, <3>2
  <2>2. Bit(RowDue(k))' = Bit(RowDue(k))
        BY <1>3 DEF Bit
  <2> QED BY <1>0, <1>3, <2>1, <2>2 DEF Total
<1>4. ASSUME UNCHANGED serviceVars,
             (\E j \in Jobs : Enqueue(j)) \/ (\E w \in Workers : Serve(w) \/ WorkerFaults(w))
      PROVE  Total(k)' <= 0
  <2>1. Outstanding(k)' - faults' <= Outstanding(k) - faults
        BY <1>4, OutboxBalance
  <2> QED BY <1>3, <1>4, <2>1 DEF serviceVars, RowDue, InHand
<1>5. ASSUME Tick \/ UNCHANGED vars PROVE Total(k)' <= 0
  <2>1. /\ UNCHANGED <<mails, reclaimed, stage, record, claimed, faults, queue, dlq>>
        /\ UNCHANGED <<batch, at, step, overtaken>>
        /\ \A j \in Jobs : Pending(j)' = Pending(j) /\ outbox'[j].enqueued = outbox[j].enqueued
    <3>1. CASE Tick
          BY <3>1 DEF Tick, OutboxTick, Pending, WellFormed, OutboxTypes, Row
    <3>2. CASE UNCHANGED vars
          BY <3>2 DEF vars, outboxVars, serviceVars, Pending
    <3> QED BY <1>5, <3>1, <3>2
  <2>2. RowDue(k)' <=> RowDue(k)
    <3>1. CASE UNCHANGED vars
          BY <3>1 DEF vars, serviceVars, RowDue, InHand
    <3>2. CASE Tick
      <4>1. /\ rows[k] = Null <=> rows'[k] = Null
            /\ rows[k] # Null => rows'[k].status = rows[k].status
        <5>1. rows[k] \in RowType \cup {Null} /\ rows'[k] \in RowType \cup {Null} /\ Null \notin RowType
              BY ServiceAssumption DEF WellFormed, ServiceTypes
        <5>2. CASE rows[k] = Null
              BY <3>2, <5>2 DEF Tick, ServiceTick
        <5>3. CASE rows[k] # Null
          <6>1. rows'[k] = [rows[k] EXCEPT !.wait = CountDown(@),
                                           !.age = IF rows[k].status = "SENDING" /\ @ <= SendLease
                                                   THEN @ + 1 ELSE @]
                BY <3>2, <5>3 DEF Tick, ServiceTick
          <6>2. rows'[k].status = rows[k].status
                BY <5>1, <5>3, <6>1 DEF RowType
          <6>3. rows'[k] # Null
                BY <3>2, <5>3, RowsStay DEF Next
          <6> QED BY <5>3, <6>2, <6>3
        <5> QED BY <5>2, <5>3
      <4> QED BY <2>1, <4>1 DEF RowDue, InHand
    <3> QED BY <1>5, <3>1, <3>2
  <2>3. ASSUME NEW j \in Jobs PROVE Excess(j)' <= Excess(j) + (IF j = k THEN 0 ELSE 0)
    <3>1. Held(j)' = Held(j)
          BY <2>1, HeldSame
    <3>2. Waiting(j)' <=> Waiting(j)
          BY <2>1 DEF Waiting
    <3>3. Excess(j)' = Excess(j)
          BY <2>1, <3>1, <3>2 DEF Excess, Bit
    <3> QED BY <3>3, ExcessType
  <2>4. Outstanding(k)' <= Outstanding(k) + (IF k \in JobsOf(k) THEN 0 ELSE 0)
        BY <2>3, OutstandingStep
  <2> QED BY <1>0, <1>3, <2>1, <2>2, <2>4
<1> QED BY <1>2, <1>4, <1>5 DEF Next

LEMMA InitBalanced == Init => Balanced
<1> SUFFICES ASSUME Init PROVE Balanced
    OBVIOUS
<1> USE OutboxAssumption, ServiceAssumption DEF Init, OutboxInit, ServiceInit
<1>1. Shape
      BY DEF Shape, NoRow
<1>2. ASSUME NEW p \in Senders PROVE InStage(p)
      BY DEF InStage, NoRecord
<1>3. ASSUME NEW k \in Keys PROVE Total(k) <= 0
  <2>1. InWork(k) = 0
    <3> DEFINE f == [p \in Senders |-> Weight(p, k)]
    <3>1. k # Null
          OBVIOUS
    <3>2. ASSUME NEW p \in Senders PROVE f[p] = 0
          BY <3>1 DEF Weight, Bit, NoRecord
    <3>3. InWork(k) = SumOf(f, Senders)
          BY DEF InWork
    <3> HIDE DEF f
    <3> QED BY <3>2, <3>3, SendersFinite, SumZero
  <2>2. ASSUME NEW j \in Jobs PROVE Excess(j) = 0
    <3> DEFINE f == [w \in Workers |-> Bit(Holds(w, j))]
    <3>1. ASSUME NEW w \in Workers PROVE f[w] = 0
          BY DEF Holds, Bit
    <3>2. Held(j) = SumOf(f, Workers)
          BY DEF Held
    <3> HIDE DEF f
    <3>3. Held(j) = 0
          BY <3>1, <3>2, SumZero
    <3> QED BY <3>3 DEF Excess, Bit, Waiting, Pending, NoRow
  <2>3. Outstanding(k) = 0
    <3> DEFINE f == [j \in Jobs |-> Excess(j)]
               S == JobsOf(k)
    <3>1. IsFiniteSet(S) /\ \A j \in S : f[j] = 0
          BY <2>2, FS_Subset DEF JobsOf
    <3>2. Outstanding(k) = SumOf(f, S)
          BY DEF Outstanding
    <3> HIDE DEF f, S
    <3> QED BY <3>1, <3>2, SumZero
  <2>4. Bit(RowDue(k)) = 0
        BY DEF RowDue, Bit
  <2> QED BY <2>1, <2>3, <2>4 DEF Total
<1> QED BY <1>1, <1>2, <1>3 DEF Balanced

LEMMA BalancedStep == WellFormed /\ WellFormed' /\ Balanced /\ [Next]_vars => Balanced'
<1> SUFFICES ASSUME WellFormed, WellFormed', Balanced, [Next]_vars PROVE Balanced'
    OBVIOUS
<1>1. Shape'
      BY ShapeStep DEF Balanced
<1>2. \A p \in Senders : InStage(p)'
      BY StagesStep DEF Balanced
<1>3. ASSUME NEW k \in Keys PROVE Total(k)' <= 0
      BY <1>1, BalanceKept DEF Balanced
<1> QED BY <1>1, <1>2, <1>3 DEF Balanced

\* What is in work, and what is held, is not negative.
LEMMA NothingOwed ==
    ASSUME NEW S, IsFiniteSet(S), NEW f, \A x \in S : f[x] \in Nat
    PROVE  SumOf(f, S) >= 0
<1>1. SumOf(f, S) + SumOf(f, {}) + Cardinality({}) >= 0
      BY SumFloor
<1>2. SumOf(f, S) \in Int
      BY SumType
<1> QED BY <1>1, <1>2, SumEmpty, FS_EmptySet

LEMMA BalanceCounts == WellFormed /\ Balanced => MailsAreAccountedFor
<1> SUFFICES ASSUME WellFormed, Balanced, NEW k \in Keys
             PROVE  mails[k] <= Cardinality(Requests(k)) + faults + reclaimed[k]
                                  + SumOf(overtaken, Requests(k))
    BY DEF MailsAreAccountedFor, SumOf
<1> DEFINE S == JobsOf(k)
           T == Requests(k)
           f == [j \in Jobs |-> Excess(j)]
<1>1. /\ IsFiniteSet(Jobs) /\ S \subseteq Jobs /\ IsFiniteSet(S)
      /\ T = {j \in S : outbox[j].enqueued}
      BY OutboxAssumption, FS_Subset DEF JobsOf, Requests
<1>2. T \subseteq S /\ IsFiniteSet(T) /\ Cardinality(T) \in Nat
      BY <1>1, FS_Subset, FS_CardinalityType
<1>3. ASSUME NEW j \in Jobs
      PROVE  /\ Excess(j) \in Int /\ overtaken[j] \in Nat
             /\ outbox[j].enqueued => Excess(j) + overtaken[j] + 1 >= 0
             /\ ~outbox[j].enqueued => Excess(j) >= 0
  <2>1. /\ queue[j] \in Nat /\ dlq[j] \in Nat /\ overtaken[j] \in Nat
        /\ ~outbox[j].enqueued => overtaken[j] = 0
        BY DEF WellFormed, OutboxTypes, ServiceTypes, Balanced, Shape
  <2> DEFINE h == [w \in Workers |-> Bit(Holds(w, j))]
  <2>2. \A w \in Workers : h[w] \in Nat
        BY DEF Bit
  <2>3. Held(j) = SumOf(h, Workers)
        BY DEF Held
  <2> HIDE DEF h
  <2>4. Held(j) >= 0 /\ Held(j) \in Int
        BY <2>2, <2>3, OutboxAssumption, NothingOwed, HeldType
  <2> QED BY <2>1, <2>4 DEF Excess, Bit
<1>4. InWork(k) >= 0 /\ InWork(k) \in Int
  <2> DEFINE g == [p \in Senders |-> Weight(p, k)]
  <2>1. InWork(k) = SumOf(g, Senders) /\ \A p \in Senders : g[p] \in Nat
        BY WeightType DEF InWork
  <2> HIDE DEF g
  <2> QED BY <2>1, SendersFinite, NothingOwed, InWorkType
<1>5. Outstanding(k) = SumOf(f, S)
      BY DEF Outstanding
<1>6. Outstanding(k) + SumOf(overtaken, T) + Cardinality(T) >= 0
  <2>1. /\ \A j \in S : f[j] \in Int /\ overtaken[j] \in Int
        /\ \A j \in T : f[j] + overtaken[j] + 1 >= 0
        /\ \A j \in S \ T : f[j] >= 0
        BY <1>1, <1>3
  <2> HIDE DEF f, S, T
  <2> QED BY <1>1, <1>2, <1>5, <2>1, SumFloor
<1>7. /\ SumOf(overtaken, T) \in Int /\ Outstanding(k) \in Int
  <2>1. /\ \A j \in S : f[j] \in Int
        /\ \A j \in T : overtaken[j] \in Int
        BY <1>1, <1>3
  <2> HIDE DEF f, S, T
  <2> QED BY <1>1, <1>2, <1>5, <2>1, SumType
<1>8. /\ Total(k) <= 0 /\ faults \in Int /\ mails[k] \in Int /\ reclaimed[k] \in Int
      /\ Bit(RowDue(k)) \in Nat
      BY DEF Balanced, Shape, Bit
<1>9. mails[k] + Bit(RowDue(k)) + InWork(k) + Outstanding(k) - faults - reclaimed[k] <= 0
      BY <1>8 DEF Total
<1> HIDE DEF S, T, f
<1>10. mails[k] <= Cardinality(T) + faults + reclaimed[k] + SumOf(overtaken, T)
      BY <1>2, <1>4, <1>6, <1>7, <1>8, <1>9
<1> QED BY <1>10 DEF T

\* "The notification-service dedups it (no duplicate email)", as far as the code keeps it: one mail for
\* every request, and one more for every fault and every claim that ran out under its holder
\* (outbox.worker.ts, reminder scheduler, sendStoredNotification).
THEOREM MailSafety == Spec => []MailsAreAccountedFor
<1>1. WellFormed /\ WellFormed' /\ Balanced /\ [Next]_vars => Balanced'
      BY BalancedStep
<1>2. Spec => []Balanced
      BY <1>1, InitBalanced, WellFormedInvariant, PTL DEF Spec
<1> QED BY <1>2, BalanceCounts, WellFormedInvariant, PTL
=============================================================================
