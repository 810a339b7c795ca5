# Chegg scheduling: models, checks and proofs

TLA+ modules for the scheduling backend under `src/backend` and the notification
service under `src/notification-service`, the TLC configurations that check them
on small instances, and TLAPS proofs that hold for every instance.

There are four state machines, one for each place where processes meet in the
database or the queue: the booking transactions, the administration of slots,
the accounts with their refresh tokens, and the notification pipeline. Three of
them are shown to implement an abstract specification. Pure rules (dates of a
series, calendars, what a student is shown) are operators over their states.

Paths below are relative to `src/backend/src/domain` unless they start with
`src/`.

## 1. Inventory

| Component | State it keeps | Operations | Modelled |
| --- | --- | --- | --- |
| Booking transactions (`bookings/booking.service.ts`) | `Booking` rows, row locks of the transaction | create, reschedule, follow up, cancel, PATCH | `Booking` |
| Coach assignment (`bookings/bookingAssignmentResolver.service.ts`, `assignment.service.ts`) | `EventRoutingState.nextCoachOrder` | pick lead and co-hosts | `CoachAssignment` |
| Scheduling rules (`scheduling/*.ts`) | none | notice, capacity, conflict filter, link validity | `SchedulingData`, `CoachAssignment`, `Booking` |
| Schedule slots (`events/eventScheduling.service.ts`, `recurrence.service.ts`) | `EventScheduleSlot`, `RecurrenceGroup` | create, list and replenish, stop, resume, update, delete, cancel | `SlotAdmin`, `Recurrence`; cancel also in `Booking` |
| Coach reveal (`events/eventScheduling.service.ts`, `coachReveal.notification.ts`) | `coachRevealSentAt` | reveal once | `SlotAdmin` |
| Session logs (`events/sessionLog.service.ts`, `bookings/bookingSessionLog.service.ts`) | `SessionLog`, attendance, booking statuses | log a session | `SlotAdmin` (the log of a slot) |
| Availability (`availability/*.ts`) | weekly availability, exceptions | which starts a calendar admits, which a student is shown | `Availability`, `SlotListing` |
| Users (`users/user.service.ts`) | `User` | create, update, deactivate, change role | `Accounts`; deactivation also in `Booking` |
| Login and bootstrap (`auth/auth.service.ts`) | failed attempts, `lockedUntil` | log in, register, bootstrap, log out, refresh | `Accounts` |
| Sessions and refresh tokens (`src/backend/src/shared/auth/refreshTokenUtils.ts`) | `RefreshToken` | issue, rotate, revoke, detect reuse, purge | `RefreshTokens` |
| Notification outbox (`src/backend/src/shared/notifications`) | `OutboxNotification`, `NotificationDelivery` | enqueue, claim, publish, dead-letter, record delivery | `Outbox` |
| Notification service (`src/notification-service`) | `Notification` | consume, schedule, send, retry, cancel | `NotificationService` |
| Events and event coaches (`events/event*.service.ts`) | `Event`, `EventCoach` | configure | constants `Event`, `Order` |
| Teams, invitations, students, settings, directories, reports, HTTP layer, frontend | | | not modelled, see section 7 |

How they interact. A client's request runs a handler in one Node.js process; an
`await` lets other handlers run, and several processes may share the database.
Handlers meet only in PostgreSQL, at READ COMMITTED, the default that no
transaction of the code changes: a statement sees what was committed when it began, and row
locks (`SELECT ... FOR UPDATE`, `UPDATE`, the key-share locks of foreign keys)
make others wait. After its commit a booking handler queues notifications in the outbox;
the outbox worker publishes them to RabbitMQ, the notification service stores
and sends them and reports back.

What is hard:

- **Interleaving.** Students of one slot, of one event, and one student on two
  events at once. Three different row locks each keep one rule true.
- **Stale reads.** Everything before `$transaction` (slot match, link validity,
  the status of the booking) is read without a lock and used under one. The
  administration of slots and accounts mostly has no transaction at all: it
  reads, decides and writes in separate statements.
- **Writers without locks.** PATCH, slot administration and session logs write
  booking statuses and coaches without taking part in the booking locks.
- **Reads that write.** Every listing of the slots of an event may replenish its
  continuous series, so two readers may both add the same sessions.
- **One token presented twice.** Browser tabs refresh at once; an honest replay
  and a theft look alike but for the time between them.
- **Deadlock.** Four kinds of rows are locked in turn, and foreign keys lock more.
- **Timeouts and crashes.** A request may give up between any two statements.
- **Rotation.** The round-robin cursor is shared by an event's slots, and the
  load it balances is shared by a team's events.
- **Delivery.** At-least-once publishing, a lease that may expire under its
  holder, retries, cancellation that races a send, messages out of order.
- **Two codes for one rule.** The listing decides on its own what a booking
  decides again later; exceptions, midnight and time zones make both intricate.

What makes each component correct, and where that is stated, is in the hazards
of `PROJECT.json`: each at its line, with its properties, or with the reason why
none covers it.

## 2. Modules

| Module | What it is |
| --- | --- |
| `SchedulingData` | The rows, the configuration constants with their assumptions, and the pure rules over rows |
| `CoachAssignment` | `resolveBookingCoachSelection`: every branch of the decision tree, both strategies, as sets of possible selections |
| `Booking` | The booking handlers as a state machine over rows and locks; specification, properties |
| `BookingLedger` | Abstract: places are taken one at a time, only by a free student and only while a seat is left |
| `Availability` | When a calendar admits a session, and a minute-by-minute reference for it |
| `SlotListing` | What a student is shown, over the states of `Booking` |
| `Recurrence` | The dates of a series, as recursive functions |
| `SlotAdmin` | Staff, listings and students on the slots of one group event |
| `RefreshTokens` | The token table, one action per statement: rotation, replay, logout, revocation, purge |
| `Accounts` | Login, lockout, registration, bootstrap, changes to accounts, composed with `RefreshTokens` |
| `TokenLedger` | Abstract: chains of tokens, one live token each, exchanged in one step |
| `Outbox` | The outbox table, its workers and the queue |
| `NotificationService` | Consumers, dead-letter queue, reminder sweep and the `Notification` table, over `Outbox` |
| `NotificationPipeline` | Both composed, with fairness and properties |
| `DeliveryContract` | Abstract: what is owed stays owed until the channel has accepted a message or every attempt has failed |
| `MCGroupSessions`, `MCGroupListing`, `MCCoachAvailability`, `MCSwitchedEvent`, `MCSlotAdmin`, `MCAccounts`, `MCNotifications` | Small instances |
| `BookingProofs`, `BookingStaffProofs` | Well-formedness, students, seats and ledger; staff, teams, follow-ups and lock order |
| `ListingProofs` | What is listed can be booked, and what is booked lies in working hours |
| `SlotAdminProofs`, `AccountsProofs`, `TokenProofs`, `NotificationProofs` | The theorems of the other state machines |
| `InductionLemmas` | Induction over numbers, and sums over finite sets, for the proofs |

`Booking` extends `CoachAssignment`, which extends `SchedulingData`, as does
`Availability`; `SlotListing` extends `Booking` and `Availability`. `SlotAdmin`
extends `Recurrence`, `Accounts` extends `RefreshTokens`, and
`NotificationPipeline` extends `NotificationService`, which extends `Outbox`.
`ListingProofs` extends `BookingStaffProofs`, which extends `BookingProofs`;
`TokenProofs` extends `AccountsProofs`. The proofs about staff,
listings, notifications and slots use `InductionLemmas`.

The refinement mappings: `Booking!Ledger` is `BookingLedger` under "an active
booking is an entry of event, start, student and slot"; `Accounts!Ledger` is
`TokenLedger` under "a row is live, exchanged or ended, and belongs to a chain";
`NotificationPipeline!Contract` is `DeliveryContract` under "owed is a pending
row, out is a message that is in a queue, in process, handled or dropped, lost is
one that the broker has lost after its channel accepted it".

### Booking: state and code

| Variable | Code |
| --- | --- |
| `bookings[b]` | the `Booking` row; `b` is the request that created it, `"VACANT"` means there is none yet |
| `bookings[b].token` | `rescheduleToken`, as the number of times it was rotated; a client holds the link of some rotation |
| `slots[s]` | `EventScheduleSlot`: start, assigned coach, `isActive`, `isCancelled` |
| `routing[e]` | `EventRoutingState.nextCoachOrder` |
| `userActive` | the coaches with `User.isActive` |
| `now` | the clock |
| `pc[r]`, `tx[r]` | where the handler of request `r` stands, and its local variables |
| `held[r]` | the rows its transaction has locked `FOR UPDATE` |

A booking request (create, reschedule, follow-up) goes through the steps below; each
label is a value of `pc`.

1. *idle* to *locking*: everything before `$transaction` (`CreateBooking`,
   `RescheduleBooking`, `BookFollowUp`).
2. *locking*: `lockScheduleSlot` or `lockEvent`, then selection (`SelectCoach`).
3. *routing*: the upsert of the cursor (`AdvanceRouting`), if the strategy or a
   co-host moved it.
4. *coach*: `lockCoach`; a follow-up reads the account again (`LockCoach`).
5. *seats*: the capacity count of FIXED_SLOTS events (`CheckSeats`).
6. *student*: upsert, `lockStudent`, overlap check (`LockStudent`).
7. *write*: insert or update, commit (`WriteBooking`).

`GiveUp` may end any transaction at any step. It stands for the pool and transaction
timeouts (P2024 and P2028, answered with 409) and for the death of the process; both roll back and
release the locks.

Choices made in the translation:

- Taking a lock and the reads up to the next lock are one step. The reads of one
  selection (five queries, then probes that use their results) are one read.
  The reads before a transaction are one step too.
- A call that is rejected before its transaction, and a caller who lacks the
  rights, change nothing and are no step.
- The insert's foreign key takes a key-share lock on the `Event` row, which
  conflicts with `lockEvent`; `WriteBooking` waits for it. The other foreign
  keys point at rows the transaction holds already.
- The upsert of the student locks its row before `lockStudent` does; they are
  one step.
- The two updates of a slot cancellation are one step, because the slot row stays locked
  and the cascade writes what its query finds. The guard on the session log
  is in `SlotAdmin`.
- The coach pool is read from `EventCoach` and `TeamMember`, so deactivating a
  *user* does not shrink it: only the follow-up looks at `User.isActive`.
- Events, pools, calendars, starts and capacities of slots are constants; a slot
  ends at its start plus the event's duration; all events are of one team, whose
  sessions the load query counts.
- Time is in ticks. Only comparisons of sums of durations matter, so a tick may
  be any unit; where calendars matter it is a minute.

### Availability and SlotListing

`CalendarAdmits` is `evaluateCoachAvailability` after its conflict check: local
date and minute of both ends, exceptions of the date before weekly hours, an
event's own hours before the coach's, and the split of a session that ends on
the next date. `OpenAt` says the same of a single minute, in a different way: it
knows no sessions, no splitting and no interval comparison.
`Offered` is `getAvailableSlots` for one start: candidates, booking margin,
notice, seats, and a free coach among those it looks at.

- A time is a number of minutes since a Sunday at 0:00 UTC. A time zone is an
  offset; daylight saving is left out.
- `AvailabilityAssumption` has at most one exception per coach and date, which the
  schema does not enforce. With several, the first that the query returns counts.
- The listing reads without a lock and in several statements. It is an operator on
  one state: a listing is stale as soon as it is shown anyway, and the question
  asked here is whether the two codes agree.
- `Booking` takes the calendars as a constant. `CalendarAssumption` ties it to
  what `Availability` says, and TLC evaluates it on the two instances that have both.
- The end of a range has been cut to the booking window; the visibility limit of
  a series and the debug tool are left out.

### SlotAdmin: state and code

| Variable | Code |
| --- | --- |
| `slots[i]`, `created` | `EventScheduleSlot` with its session log, and the identifiers used |
| `series`, `frequency` | the `RecurrenceGroup` row: active, stopped, deleted |
| `bookings[b]` | `Booking`: status, slot, start, coach, and attendance |
| `locks[i]` | the booking transaction that holds slot `i` |
| `pc[c]`, `tx[c]` | where a handler stands, and what it has read |
| `excused`, `disturbed`, `withdrawn`, `restated`, `reassigned` | history the properties refer to |

A handler is a read step (`CreateSlot`, `ReadSeries`, `ReadSlotToUpdate`,
`CountBookings`, ...) and one step for each statement or transaction that writes
(`InsertSlot`, `Replenish`, `UpdateSlot` and `Cascade`, `DeleteSlot` and
`DeleteSeries`, `CancelSlot`, `RevealCoach`, `LogSession`). A booking takes its
seat under the slot's lock (`TakeSeat`) and commits (`BookSeat`).

- One group event with one leading coach, whose slots and series these are. Days
  stand for starts: all sessions of a series have the same time of day in its
  time zone. A session is over on the day after its start.
- `createMany` with `skipDuplicates` and the uniqueness of (event, start) make
  two replenishments of one series add each day once (`Insert`).
- A foreign key can stop an insertion or clear a reference: a series that has
  been deleted, a booking whose slot has been deleted (`Orphaned`).
- An update names the fields it writes; `assignedCoachId: null` clears the coach, and
  the fields left out stay as they are. `assignedCoachOverride` is written with
  every change of the coach, as the code does it; only the frontend reads it.
- A log notes the attendance of some bookings of its slot, not always of all. An
  attendance row stays with the log it was made for, also when its booking moves.
- A booking is created or rescheduled by the same steps (`MatchSlot`, `TakeSeat`,
  `BookSeat`); a reschedule writes CONFIRMED over any status. PATCH and the
  cancellation of a booking are one write (`SetStatus`): the checks of their
  callers and links are in `Booking`.
- A second series, a series that is not continuous, the log of a single booking
  (`bookings/bookingSessionLog.service.ts`, which refuses bookings that have a
  slot), follow-ups, notifications, meeting links and the round-robin choice of a new
  slot's coach are left out.

### Accounts and RefreshTokens: state and code

| Variable | Code |
| --- | --- |
| `users[u]` | the `User` row of an e-mail: role, `isActive`, failed logins, `lockedUntil` |
| `rows[t]` | the `RefreshToken` row: owner, expiry, `revokedAt`, `replacedByTokenId`; `chain` names the login a rotation goes back to |
| `held` | the tokens that clients have been given |
| `locks[t]` | the rotation in progress that has updated the row |
| `pc[c]`, `tx[c]` | where a handler stands, and what it has read |
| `barred`, `wrong` | history: accounts a refresh has refused as inactive; wrong passwords recorded |

Every statement is a step: the compare-and-set of a rotation (`ClaimToken`), the
read that follows a lost one (`RereadToken`), the new token with its link and the
commit (`MintToken`), the account (`CheckAccount`), the revocation of all tokens,
which finds its rows first and locks them then (`RevokeAll`, `RevokeTargets`).
A login reads the counter, compares, and writes the counter
(`Login`, `RecordSuccessfulLogin`, `RecordFailedLogin`).

- The row of a new token is written in the step of its commit, as nobody sees it before.
- A password is right or wrong; callers of account changes are authorised.
- `CountOtherAdmins` and `WriteChange` are two steps, so that two removals of
  administrators interleave as they may in the code: both may succeed, see section 5.

### Notifications: state and code

| Variable | Code |
| --- | --- |
| `outbox[j]` | the `OutboxNotification` row: processed, dead-lettered, attempts, age of its claim |
| `batch[w]`, `at[w]`, `step[w]` | the pass of a worker: rows in hand, the one it is at, its next statement |
| `queue[j]`, `dlq[j]` | copies of a message in the queue and in the dead-letter queue |
| `rows[k]` | the `Notification` row of a key |
| `stage[p]`, `record[p]`, `claimed[p]` | a consumer or sweeper: its next step, its message or row, the rows it claimed |
| `wait[j]`, ages | clocks: a wait counts down, a claim grows older |
| `lost`, `overtaken`, `mails`, `reclaimed`, `handled`, `dropped` | history |

- Publishing has no confirms: what the channel has accepted may be lost
  (`Publish`), and what it refuses for back-pressure has been written all the
  same (`PublishIsRefused`).
- A lease may run out while its holder is still at work; `overtaken` and
  `reclaimed` count how often that happens.
- Errors are raised at every statement, and processes crash between any two. Each
  is a fault, and `MaxFaults` bounds them.
- A message whose consumer crashes is delivered again; consumers run at once
  (prefetch), so a later message may be handled before an earlier one.
- Templates, recipients, SMTP retries within one send, notifications without a
  key, and the switch that turns sending off are left out.

## 3. Runs

| Run | Result | Question |
| --- | --- | --- |
| `group_sessions` | pass | Are students and seats safe, is the ledger implemented, can every slot shown be booked, is every call answered, and does no pair of requests wait for each other, when three requests mix all operations on three limited slots that overlap? |
| `coach_availability` | pass | On events without slots: are types kept, staff not taken twice in an event, teams well formed, follow-ups given only to active coaches, sessions inside the hours of their staff, and shown starts bookable? |
| `slot_admin` | pass | Does a series keep its days without holes while it is listed, stopped and edited by several at once; does a revealed coach reach every booking; do attendance and status agree? |
| `accounts` | pass | Does rotation leave one live token per chain and implement the token ledger; does an inactive account end without tokens; is a lockout earned? |
| `notification_pipeline` | pass | Is a row settled only when a message of it was accepted, is every duplicate mail accounted for, and is everything settled in the end, with faults anywhere? |
| `coach_across_events` | violation | Does the lock on the coach do what its comment says? |
| `slot_cancellation` | violation | Is a cancelled slot empty? |
| `student_links` | violation | Is CANCELLED final? |
| `switched_event_locks` | violation | Does the documented lock order exclude cycles when an event keeps a slot in COACH_AVAILABILITY mode? |
| `switched_event_staff` | violation | Does "one event, one row lock" hold there? |
| `message_loss` | violation | Is no notification silently lost when the broker is unavailable? |
| `reminder_refresh` | violation | Is the reminder of a rescheduled booking refreshed? |

### Properties of the passing runs

Bookings:

- `StudentNeverDoubleBooked`: whatever events, slots and requests are involved.
  The overlap check reads under the student's lock and the write follows under
  the same lock. Mutant: the lock forgotten.
- `SeatsNeverOversold`: every path that puts a booking on a slot counts and
  writes under the slot's lock. Mutant: the comparison off by one.
- `KeepsLedger`: refinement of `BookingLedger`. It says more than the two
  invariants: every *step* that makes a booking active is one that an atomic
  check-and-take would allow. Mutant: a move that brings its seat along.
- `EveryCallAnswered`: whoever called is answered in the end, as every lock it
  waits for is released. Mutant: a reschedule that starts from the student.
- `NoLockCycle`: no two requests each hold what the other one wants, for all four
  kinds of rows and the foreign key. Mutant: the same.
- `EventNeverDoubleBooksStaff`: on an event without slots, selection and
  write are serialised by the event row. Mutant: the coach is selected before the lock.
- `TeamWellFormed`: lead not among co-hosts, no more co-hosts than the target.
  Mutant: lead not skipped.
- `FollowUpOnlyWithActiveCoach`: an action property against deactivation between
  the first check and the lock. Mutant: the second check dropped.
- `BookedInsideHours`: every minute of a session lies in the hours of all its
  staff, by the reference; and so would every other quarter of an hour of the
  week that the calendars admit. Hours granted for a date replace the weekly ones, as the
  code has it (its comment differs, see section 5). Mutant: granted hours are
  added to the weekly ones.
- `OfferedIsBookable`: a start that is listed would be accepted by a booking that
  ran now, in every state the transactions reach. Its conditions are what the two
  codes do not agree on, see section 5. Mutants: seats not counted; sessions that
  a coach only joins not looked for.
- `TypeOK`. Mutant: a booking without a slot locks the slot.

Slots:

- `SeriesKeepsItsDays`: slots of a series stay on its days, whichever of several
  replenishments started from which latest slot. Mutants: a place of the cycle
  forgotten; a day that a month does not have runs over into the next.
- `SeriesHasNoGaps`: no day is passed over before the latest slot, except those
  whose slot was deleted or moved. Mutant: one step too many before the first date.
- `RevealedCoachLeads`: from the reveal on, the bookings of a slot have its coach,
  also those made or moved there while a lock was waited for. Excepted are the slots
  whose coach an update has changed or cleared since the reveal (`reassigned`): there
  the bookings follow in another statement, or not at all; and bookings that were
  cancelled. Mutant: bookings that have a coach keep it.
- `AttendanceMatchesStatus`: attendance and status are the work of the same log, of
  whole logs and partial ones, until something else than a log writes the status
  (`restated`): a cancellation, a PATCH, a reschedule. Mutant: a second log leaves
  the status alone.
- `TypeOK`, with "a booking and its attendance refer to slots that exist". Mutant: a deletion
  that leaves the reference.

Accounts:

- `OneLiveTokenPerChain`: many requests present one token at once. Mutant: whoever
  gets the row's lock owns the rotation.
- `BarredUserHoldsNoLiveToken`: a refused refresh ends all sessions, those of
  rotations in progress included. Mutant: only the new token is revoked.
- `LockoutEarned`: the counter is read before the comparison and written after
  it, so concurrent failures may be lost but none is invented. It is one direction
  only: an increment that is lost, or a lock that a late login clears, lets more
  attempts through than the limit and does not violate it. Mutant: one early.
- `KeepsTokens`: refinement of `TokenLedger`: a rotation is one exchange, and what
  was ended is never live again. Mutant: the replacement is not linked.
- `TypeOK`. Mutant: a demotion that removes the role.

Notifications:

- `KeepsContract`: refinement of `DeliveryContract`: a row is settled only after the
  channel has accepted a message of it, what has reached the queue is in somebody's
  hands in every state and through every crash, and a row is given up only after its
  attempts. What the broker loses after accepting it is an action of the contract,
  and not covered: that is the run `message_loss`. Mutant: an error taken for an answer.
- `MailsAreAccountedFor`: a mail leaves once per request, and once more for every
  fault and every claim that ran out under its holder. Mutant: the sweep takes what
  a consumer is about to send.
- `OutboxRowsSettle`: a request is published in the end, unless every attempt has
  failed. Mutant: a claim never runs out.
- `RemindersSettle`: the scheduler gets rid of everything it looks for. Mutant: it
  looks for the wrong status when it reclaims.
- `TypeOK`, with "a settled row is not claimed". Mutant: settled rows claimed too.

### Bounds, and why they are enough

- `group_sessions`: workshop has two slots of one seat (one for its designated
  coach, one with a coach assigned to it), lecture one slot of two seats and two
  rotating coaches; starts 1 and 2 with duration 2, so any two sessions at them
  overlap; two students; three requests. Two requests are enough to collide on a
  seat, a student or a lock; the third lets a cancellation, a PATCH, a second
  booking or a move into a full slot happen between the steps of the two.
  A follow-up needs three: create, complete, follow up. One coach takes an hour
  off right after the sessions. `MaxNow` = 1 lets one tick pass: the first start is
  reached, so the cancellation link of a session there expires and nothing can be
  moved to it any more. The run checks `EveryCallAnswered` under `FairSpec`, on the
  same calls. Staff cancel the two slots at start 2, one of each event. `Grace` and `notice` are 0, `Lookback` is one session.
- `coach_availability`: four requests, two events, three coaches in three time
  zones. The starts are 22:30 and 23:15 UTC on a Tuesday with sessions of an hour,
  so that they overlap and the second crosses midnight for one coach, is in the
  evening for another and in the next morning for the third. There are a grant and a
  block on the date after, the grant on a weekday on which its coach has weekly hours
  too and only in part the same, an event's own hours, and a buffer of a quarter hour.
  `AdmittedSessions` compares the calendars with the reference at every quarter
  hour of a week. Four requests are
  needed to create, complete and follow up while an account is deactivated; r2 to
  r4 are interchangeable, so permutations of them are a symmetry (no liveness is
  checked in this run). The clock does not tick: no property of this run depends on it.
- `slot_admin`: two requests of staff, who share the operations out among them,
  and one of anybody: a listing, a student, a second deletion. It starts without slots, with the first slot of a series of each
  frequency, or with days 1, 3 and 5 of a series of three a week, the first of
  them booked. `Ahead` = 15 and `Occurrences` = 3 instead of 90 and 12,
  `MaxIterations` = 2 instead of 100, so that the loop ends at its limit as well
  as at the horizon. Months have four and three days, so that a day is missing in
  the next month within the horizon. The updates change the time, the coach, both or
  the rest, and one clears the coach; there are full logs and partial ones, and the
  booking that is logged is also moved, cancelled and put back. `MaxSlots` = 8 bounds the identifiers,
  `MaxNow` = 2 the days. Two requests race; the third comes between.
- `accounts`: two users, three requests, four tokens, two of them open at first
  with different expiries; `TokenTTL` = 2, `GraceWindow` = 0, `MaxNow` = 2, so that
  a replay is inside and outside the window and tokens expire; `MaxFailed` = 2,
  `Lockout` = 1. Three initial states: two administrators, a deactivated coach with
  open sessions, a fresh installation.
- `notification_pipeline`: a reminder and its cancellation, one worker, two
  consumers and a sweeper, two faults, two attempts and two retries, leases that
  end with the next tick. Two consumers are what lets the cancellation overtake
  the reminder; two faults let a retry fail. With one worker and one sweeper no
  two of them hold one row: a claim runs out on its own holder, or after the holder
  died. Two holders of a row are covered by the theorems, which are about any number
  of workers and sweepers, and not by this run.
- `message_loss`: the reminder and its cancellation, one process of each kind, one fault.
- `reminder_refresh`: three jobs, one consumer, no faults: the disagreement needs none.
- The other violation runs allow only the calls their question needs.

`CHECK_DEADLOCK` is off in all of them: when every request has been served, or
every notification settled, the program rests, and so does the model. A deadlock
between requests is not hidden by this, as `EveryCallAnswered` would fail. PostgreSQL's detector, which would
end one of the two with error 40P01, is not modelled: the code does not map that
error to a retryable answer, so a cycle is a failure in itself.

### Fairness

`Booking!FairSpec` adds `WF_vars(Serve(r))` for every request: a handler whose next step
is possible takes it. PostgreSQL queues the waiters of a row lock and grants it
when it is released, and a promise whose result is there continues. Nothing is
assumed of `Receive` (clients may never call), `GiveUp` (no timeout is needed
for progress) or `Tick`.

`NotificationPipeline!FairSpec` adds weak fairness of each worker's `Serve`, of
each consumer's and sweeper's `Work`, and of `Tick`. A pass of the outbox is
started by the signal of an enqueue, by a poll and at boot, a sweep by a timer,
the broker pushes what is in its queue, and clocks go on. Nothing is assumed of
`Enqueue`, and nothing of faults, which need not happen.

## 4. Proofs

The proofs hold for every number of events, slots, coaches, students, users,
tokens, jobs, workers, consumers, sweepers and calls, every finite number of
requests in flight, and every number of faults. They use these named assumptions:

- `NullAssumption`: Null is a value of its own.
- `DataAssumption`: constants have the types of the schema.
- `SchemaAssumption`: uniqueness of (event, start) for slots and of (event,
  coach order) for the pool; group events are FIXED_SLOTS
  (`resolveEventSchedulingConfig`).
- `PoolAssumption`: a pool is finite and has a last coach; orders count from 1.
- `CallsAssumption`: calls have the types the request schemas enforce.
- `EntriesAssumption`: Null is not a record.
- `AvailabilityAssumption`, `ListingAssumption`, `TokensAssumption`,
  `AccountsAssumption`, `OutboxAssumption`, `ServiceAssumption`,
  `RecurrenceAssumption`, `SlotAdminAssumption`: the types
  of the constants of those modules, and that Null is none of their values.
  `AvailabilityAssumption` says too that a coach has at most one exception per
  date and is less than a day from UTC, `AccountsAssumption` that sessions open
  at first belong to accounts; `OutboxAssumption` and `ServiceAssumption` that
  there are finitely many jobs, workers, consumers and sweepers.
- `CalendarAssumption`: the calendars of `Booking` are those of `Availability`.
- `InitialAssumption`: what is cancelled, logged or revealed became so in the run;
  the slots of a series have a group with a frequency, and a booking refers to a
  slot there is.

TLC evaluates all of them on the instances of the passing runs. Some theorems have
hypotheses besides, which the paragraphs below explain.

| Theorem | Says |
| --- | --- |
| `BookingProofs!WellFormedInvariant`, `TypeCorrect` | `Spec => []WellFormed`, `Spec => []TypeOK` |
| `StudentSafety` | if `NoReinstating`, `Spec => []StudentNeverDoubleBooked` |
| `SeatSafety` | if `NoReinstating`, `Spec => []SeatsNeverOversold` |
| `ImplementsLedger` | if `NoReinstating`, `Spec => KeepsLedger` |
| `FollowUpSafety` | `Spec => FollowUpOnlyWithActiveCoach` |
| `StaffSafety` | if `NoReinstating` and `NoSwitchedEvent`, `Spec => []EventNeverDoubleBooksStaff` |
| `TeamSafety` | if `TeamsUnassigned`, `Spec => []TeamWellFormed` |
| `LockOrder` | if `NoSwitchedEvent`, `Spec => []WaitsUpwards` |
| `NoCycleOfAnyLength` | if `NoSwitchedEvent`, `Spec => []NoWaitingCycle` |
| `DeadlockFreedom` | if `NoSwitchedEvent`, `Spec => []NoLockCycle` |
| `ListingSafety` | if `DaylongSessions` and `BuffersEndToday`, `Spec => []OfferedIsBookable` |
| `HoursSafety` | if `DaylongSessions` and `NoSwitchedEvent`, `Spec => []BookedInsideHours` |
| `AccountsProofs!WellFormedInvariant`, `TypeCorrect` | `Spec => []WellFormed`, `Spec => []TypeOK` |
| `LockoutSafety` | `Spec => []LockoutEarned` |
| `OneLiveToken` | `Spec => []OneLiveTokenPerChain` |
| `ImplementsTokenLedger` | `Spec => KeepsTokens` |
| `OwnersInvariant` | `Spec => []OwnersOK` |
| `BarredSafety` | `Spec => []BarredUserHoldsNoLiveToken` |
| `NotificationProofs!WellFormedInvariant`, `TypeCorrect` | `Spec => []WellFormed`, `Spec => []TypeOK` |
| `ImplementsContract` | `Spec => KeepsContract` |
| `MailSafety` | `Spec => []MailsAreAccountedFor` |
| `SlotAdminProofs!WellFormedInvariant` | `Spec => []WellFormed` |
| `AttendanceSafety` | `Spec => []AttendanceMatchesStatus` |
| `RevealSafety` | `Spec => []RevealedCoachLeads` |
| `SlotTypes` | if `EndlessCalendar`, `Spec => []TypeOK` |
| `SeriesDays` | if `EndlessCalendar`, `Spec /\ SeriesKeepsItsDays /\ SeriesHasNoGaps => []SeriesKeepsItsDays` |
| `SeriesWithoutGaps` | if `EndlessCalendar`, `Spec /\ SeriesKeepsItsDays /\ SeriesHasNoGaps => []SeriesHasNoGaps` |

### Bookings

**Well-formedness.** `TypeOK` is not inductive: a write copies the handler's
local variables into a row, and these are typed as possibly Null.
`WellFormed` adds `RowsOK` (an existing row has its event, start and student),
`HandlersOK` (a handler inside its transaction knows the event, start, student
and target of a write, a moved booking exists and is of that event and student,
and a cancelling handler has a booking or a slot) and `Uncreated` (the
booking of a request that has not committed does not exist). `TypeStep`,
`RowsStep`, `HandlersStep` and `UncreatedStep` each prove one part from the whole.

**Students.** The invariant is `WellFormed`, `LocksOK` (no row is locked by two
transactions), `StudentReady` (a handler about to write holds the student's row,
and the student is *still* free) and the property. `StudentReady` is what the lock
is for: another request can only make a booking of that student active by its
own `WriteBooking`, which would need the same lock.

**Seats.** The invariant is `WellFormed`, `LocksOK`, `SlotsOK` (a booking on a slot,
or about to be, has the slot's event and start; slots do not move), `SlotLocked`
(after its first lock, a handler of a FIXED_SLOTS event holds the slot),
`SeatReady` (between count and write a seat is left) and the property.
`SlotsOK` is needed because the code counts by event and start, not by slot:
`SlotCount` shows that the participants at a start include the bookings on its slot.

**Ledger.** Under all of these, a write is `Take` (`WriteTakes`), a change of
status is `Release` (`StatusReleases`), and every other step leaves the places
as they are.

**Follow-ups.** `FollowUpReady`: between the lock on the coach's row and the
write, the account is active, as a deactivation needs the same row.

**Staff.** `EventLocked` (after its first lock, a handler of an event without
slots holds the event) and `StaffReady` (every overlapping session of the event is
`Apart` from its choice: no coach it has picked is in it). `SelectsFree` and `FreeIsApart` show that every branch
of the decision tree picks people whom the conflict query has found free.

**Teams.** `TeamsOK` says of rows and of handlers what the property says of rows.
`FirstFew` (the first n of a ranked set are n at most) rests on `RankDistinct`,
and that on the unique coach order. `SelectsTeam` goes through every branch.

**Lock order.** `LockRank` orders the tables: slot or event, rotation, coach, student.
`LocksInOrder`: at each step a transaction holds only rows of the ranks it has been
through, and an event row only if the event has no slots. `WaitsUpwards` follows:
whatever a transaction waits for ranks above all it holds. `RanksClimb`, by induction
along a chain of waiting transactions: the ranks of what they hold go up, so that a
chain of any length never closes. The runs check the circles of two (`NoLockCycle`),
and that every call is answered. The insert's foreign key asks
for a row of the lowest rank, last of all; `EventLocked` resolves that, as a
transaction off the slots holds that event row already, and nobody else locks the
event row of one that has slots.

**The hypotheses.** PATCH writes any status, so staff can put a cancelled booking
back to CONFIRMED without any check, and no property about active bookings
survives it: `NoReinstating`, a condition on `Calls`, says that this is not done.
`NoSwitchedEvent` says that only FIXED_SLOTS events have slots; the run
`switched_event_staff` and `switched_event_locks` show what happens otherwise. `TeamsUnassigned` says that
slots of collaborative events have no coach of their own, see section 5. All
three hold in the passing runs that check those properties.

### Listing and hours

A local time is a date and a minute, and reading it loses nothing (`LocalTimeExact`:
what the code does with `div` and `mod` is one linear equation with a remainder
below 1440). On that rest two facts about calendars. `AdmittedIsOpen`: where a
calendar admits a session, on one date or split at midnight, every minute of it is
open by the reference; exceptions go with the local date (`AllFetched` shows that
the dates the query asks for, widened by 48 hours, are all that matter).
`ShownIsAdmitted`: where the listing's check admits the session with its buffer and
its own set of exceptions, the booking's check admits the session without them.

`HoursSafety` adds `CalendarKept`: staff chosen off the slots, in a row or in a
handler's hands, are in their calendars at that start. `ListingSafety` goes through
the conditions of `Offered` one by one: the seats counted by slot are those counted
by start (`SeatsAgree`, which needs `SlotsOK` and `FixedOnSlots`: a booking of a
FIXED_SLOTS event has its slot, whatever its status), who is shown free is free for the booking (`ShownIsFree`: every booking that
blocks one is in the listing's way), and from a free coach every strategy selects
one (`FreeIsSelected`, `SomeoneNext`: after the cursor or, failing that, from the
start of the order).

`DaylongSessions` says that a session with its buffer lasts a day at most: the code
looks at its first and its last local date and at nothing between, and no schema
bounds a duration. `BuffersEndToday` says that no slot's buffer alone crosses a
coach's midnight. The listing evaluates a slot up to the end of the buffer, and the
branch for two dates returns AVAILABLE without the exceptions
(`availability/coachAvailability.service.ts:248`); the booking, without buffer, finds
the exception and refuses what was shown. The proof attempt found this; TLC evaluates
both hypotheses to TRUE on the instances of `group_sessions` and `coach_availability`.

### Accounts and tokens

`WellFormed` is `TypeOK`, `RowsOK` (a replaced token has been revoked, tokens
are rows up to `issued`) and `HandlerOK` (a handler has read what its next
statement needs; a locked row is the live token of a rotation in progress).
`CountsOK` for `LockoutSafety`: what a login in progress has read of the counter
is no more than the wrong passwords recorded.
`RowSteps` classifies every step by what it does to the token table:
`StartsChain`, `Replaces`, `Revokes`, `Forgets` or nothing; `OneLiveToken` and the
refinement go through these five cases instead of the actions. `BarredOK`, for
`BarredSafety`, says what a refused refresh has still to do: from its check of the
account to its revocation the account stays inactive, so nobody is handed another
token of it, and the live ones that clients hold are among the rows the revocation
has found. `OwnersOK` (a token's account exists) is needed for that.

### Notifications

`WellFormed` has `OutboxTypes`, `SettledRows`, `WorkerOK` (a worker about to
mark a row processed has sent its message out; one about to dead-letter it has
counted the last attempt), `ServiceTypes` and `SenderOK` (a consumer has one
message in hand; statements update rows that exist). For the contract,
`SameGoneOut` and `GoneOutStays` show that messages only change hands: of a job
whose message has reached the queue there is always a copy in a queue, in process,
handled or dropped. A message that the broker loses is the action `Lose` of the contract;
a worker marks a row processed only after one of the two. Every step of the service then is a stutter
of the contract (`ServiceIsSilent`), every step of a worker one of its actions.

**Mails.** The property bounds the mails of a key by the requests, the faults and the
claims that ran out; it is not inductive, as it does not see what is still on its way.
The invariant `Balanced` counts for each key, besides the mails that have left, those
to come: a row that is due (`RowDue`), a sender about to send (`InWork`), and the
messages in the outbox, the queues and the hands of consumers (`Outstanding`, a sum over
jobs). Their `Total`, less the requests, the faults and the claims that ran out, is never
above zero.
`Shape` and `InStage` say what a row and a sender's record look like at each
stage, so that no message is counted twice. Every action moves units from one term to
another or pays with a fault (`LocalStep` for the outbox, `SenderTotal` for the service).
The sum of the property is a fold, a recursive function on sets; `InductionLemmas` shows
how a sum unfolds (`SumUnfolds`) and what a change of one term does to it (`SumStep`).

### Slots

`WellFormed` has `SlotRows` (identifiers beyond those used have no row; a revealed
slot has a coach, unless an update has taken him away since), `BookingRows` (a
booking that is cancelled was cancelled by somebody, and no log leaves one PENDING
or CANCELLED) and `HandlerOK` (a handler acts on an identifier that was in use; the
status of whoever a log will not complete is not the work of a log; a booking
transaction holds the lock of the slot whose coach it takes over; a cascade of a coach to
a revealed slot follows a change of its coach).
`Assemble` puts the whole together from its parts for every action.
`AttendanceKept` and `Led` say of a step what it may do to one booking; both
theorems follow from the classification of all steps by them. Nothing of this
depends on the dates of a series.

**Types.** `Typed` adds to `WellFormed` the types of the tables (`Tables`) and of what a
handler has read (`TypedAt`): a handler that inserts has a day, one that works on a
series finds its group, a booking transaction holds a slot that exists. `SlotsOf` are the
slots a booking refers to, its own and that of its attendance's log, and a deletion
takes its slot out of them (`UnlinkedRow`). `TypeOK` is part of it. For `Replenish` the dates have to be numbers, so that the proof
must say what `Occurrence` computes: `DatesExist` and `DatesAgree` show, by induction over the length,
that there is exactly one function with the equations of the definition, and
`OccurrenceSteps` gives them for every index.

**Series.** `Follows(f, a, x, y)` says that a series of frequency f, first day a, with a
session on day x has one on the later day y: a whole number of weeks or fortnights, a
place of the THRICE_A_WEEK cycle relative to a, or the day of the month of x cut to
the shortest month between. If x leads to y, it leads to the same later days as y
(`FollowsOn`). `NextDate`: `Advance` leads to the next such day and past none. So the
dates of a replenishment are exactly the days that follow its start, up to where it
stops (`DatesFollow`). The invariant has two parts. `Regular`: any two days among
those of the series' slots and those that replenishments in progress have read lead
from one to the other, past no day that is neither covered nor excused (`Linked`); a
replenishment of a THRICE_A_WEEK series knows its place in the cycle. `Grouped`: a
series that has not begun or has been deleted has no slots, and its first slots are
inserted before anybody reads it. The two properties follow because all slots
follow from the first one (`RegularSeries`), and both parts were model-checked on the
instance of `slot_admin` before.

Neither property is there from the start for any rows whatever, so the theorems speak of
a series that has both at first; an event without a series does. `EndlessCalendar` says
that after every month there is another one. The real calendar satisfies it; the
finite one of `slot_admin` does not, and needs not, as its bounds keep the dates
inside. Without it `MonthAfter` would choose from an empty set.

The strengthened invariants were model-checked before they were proved.

Only model-checked: `EveryCallAnswered`, `OutboxRowsSettle` and `RemindersSettle`,
as liveness is out of the prover's reach. All safety properties of the passing runs
are proved.

Induction: the theorems of the library take a predicate, which none of the provers can
instantiate. `NatSetInduction` takes a set instead, the numbers of which the claim is true, and is proved
from the well-foundedness of `<`. That carries through where a recursive function has numbers or
finite sets as its domain.

## 5. Where code and words differ

Each of these is a violation run, with the quoted line under `findings`.

1. `coach_across_events`: `lockCoach` is said to prevent double-booking of a
   coach, but the coach is found free before the lock and not looked at after it.
   Two events that share a coach exclude each other in nothing else.
2. `slot_cancellation`: a booking that matched its slot, then waited for the
   slot's lock while it was cancelled, is written on the cancelled slot.
3. `student_links`: a reschedule whose link was valid overwrites a cancellation
   that committed after the check.
4. `switched_event_locks`: an event switched from FIXED_SLOTS to
   COACH_AVAILABILITY keeps its slots, and a slot can be created for it in
   either mode. A booking on the slot then holds coach and student when its
   insert asks for the event; a booking off it holds the event.
5. `switched_event_staff`: in the same event the two bookings hold different first
   locks, and both select the same coach.
6. `message_loss`: "no notification is silently lost when RabbitMQ is unavailable"
   (`src/backend/src/shared/notifications/outbox.worker.ts:12`, and in other words
   `notification.publisher.ts:221` and `src/backend/prisma/schema.prisma:451`). The
   channel has no publisher confirms, so a row is marked processed when the message is
   in the channel's buffer; if the broker goes down then, nothing is left of it.
7. `reminder_refresh`: a reschedule cancels the booking's reminders by entity and
   requests them again under the same keys; the service finds the row of the key
   CANCELLED and takes the new request for one it has dealt with. The comment says
   "Rescheduling should also refresh the reminders!" (`bookings/booking.notification.ts:851`).

Smaller ones met on the way. They are reachable in the models or visible in the
code, and the conditions of the properties name them:

- `src/backend/src/shared/notifications/outbox.worker.ts` says that a republished
  message is deduplicated ("no duplicate email"). It is, once its row is SENT;
  `MailsAreAccountedFor` states how many mails can leave.
- `src/confluence/05-notification-service-and-outbox.md:23` and `:108` insert the outbox
  row in the "same transaction as the business change", which is to close the race of a
  crash after the commit (`:62-66`). The code queues after the commit, without
  waiting (`void queueBookingCreatedNotifications`, `bookings/booking.service.ts:433`, `1049`),
  and `publishNotificationSafely` uses the global client: a crash in between, or a failed
  insertion, which is logged only, loses the notification of a booking that stands.
  `Enqueue` is a step of its own for that reason, and `KeepsContract` begins with it.
- The comment of `resolveAvailabilityFromException`
  (`availability/availability.shared.ts:227`) returns null, that is, defers to the weekly
  hours, for a session outside a granted window. The code returns false
  (line 256): a grant closes the rest of its date. `DateAdmits` and the reference
  `OpenAt` follow the code, and `coach_availability` has a grant on a date with weekly
  hours, where the two readings differ.
- An update that changes or clears the coach of a revealed slot writes the slot and then, in
  another statement, its bookings; for good if it had read the slot before the
  reveal. `RevealedCoachLeads` excepts such slots (`reassigned`).
- A reschedule or a PATCH changes the status of a logged booking and leaves its
  attendance, so that a session still to come has been attended (`restated`).
- The last active SUPER_ADMIN is protected by a count and a write in two statements
  (`users/user.service.ts:161`, `277`); two removals at once both pass the count.
  The first account is created in the same way (`auth/auth.service.ts:295`).
- Two reveals at once both pass the check of `coachRevealSentAt`, so "prevents a
  duplicate reveal notification"
  (`src/confluence/06-anonymous-booking-and-deferred-reveal.md:81`) is true of one
  after the other.
- Listing and booking are two codes for one rule and differ: exceptions are fetched
  for the listed range only; `NOT scheduleSlotId = s` is not satisfied by NULL, so a
  booking that has lost its slot does not stand in the way of a listing; a ROUND_ROBIN event with
  a fixed lead is offered when any coach is free; a DIRECT listing looks at the
  first coach while a booking takes the designated one.
- In FIXED_SLOTS events exceptions count, "always apply"
  (`availability/coachAvailability.service.ts:211`), but not for a session that
  crosses midnight (line 249). A listing looks up to the end of the buffer and a
  booking up to the end of the session, so that a slot of which only the buffer crosses midnight
  can be shown on a day that an exception closes (`BuffersEndToday`). Of several exceptions on one date the first that
  is found counts, and `availability` schemas compare "9:00" and "10:00" as strings.
- A collaborative slot with a coach of its own can end with a lead who is also
  a co-host (`bookings/bookingAssignmentResolver.service.ts:645`).
- A MONTHLY series that went through a shorter month stays on its last day
  (31, 28, 28), which `src/backend/tests/unit/recurrence.service.test.ts` accepts.

## 6. Plan

What is left, the most consequential first:

1. `EventPool`: changing an event's configuration and coach pool while sessions are
   booked. The changes are computed from a read before the transaction. The unique
   coach order keeps the pool whole; but a stale removal can bring a coach back,
   "ROUND_ROBIN events reject a coach pool of exactly 1"
   (`src/confluence/04-event-creation-and-management.md:82`) can be missed by an
   update that races a removal, and a designated lead can leave the pool.
2. Invitations and teams: acceptance by one of several requests, on which the
   unique e-mail decides; removal of a member who is in a pool.
3. The log of a single booking; the round-robin coach of a new slot, chosen in a
   transaction of its own.
4. The feedback of deliveries and the pruning of processed outbox rows.

Worth proving next: an abstract series, of which `SlotAdmin` would be an
implementation as `Booking` is one of its ledger; that what a replenishment adds is what one
listing alone would have added; and, of the rules, that every selection of
`CoachAssignment` has the coaches its event asks for.

## 7. Not modelled, and why

- Teams, members, invitations, settings, directories: administration by single-row
  writes; what one of them has across rows is in the plan.
- Changing an event's configuration or pool while requests run: events are
  constants of the models. `MCSwitchedEvent` starts after such a change.
- The feedback consumer records what it hears last, and pruning deletes settled rows;
  nothing reads either to decide.
- Daylight saving: the code leaves it to a library, and an offset that changes in
  the middle of a week would need a calendar of its own in the model.
- Reports, statistics, tracker: read-only.
- HTTP layer: authentication, validation and rate limits decide whether a
  handler runs. The models start at the handler.
- Frontend, scripts, seeds, e-mail templates: a client of the API without shared
  state, tools run by hand, and texts. Together with schemas, routes and types they are
  most of the repository's lines; the models are about the services in which
  processes meet.
- E-mail texts, meeting links, questions and answers, the audit trail: written
  after the decision is made, and no property depends on them.
