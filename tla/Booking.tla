------------------------------ MODULE Booking ------------------------------
(***************************************************************************)
(* The booking transactions of booking.service.ts on PostgreSQL at READ    *)
(* COMMITTED, interleaved with the writers that do not take part in their  *)
(* row locks: the status PATCH, slot cancellation and user deactivation.   *)
(*                                                                         *)
(* A request reads before its transaction (one step), then takes the row   *)
(* locks slot or event, routing state, coach, student in that order, with  *)
(* the reads that follow each lock, and writes at commit.  Taking a lock   *)
(* and the reads up to the next lock are one step.                         *)
(*                                                                         *)
(* A call rejected before its transaction changes nothing and is no step.  *)
(* Callers are authorised; the audit trail and the notifications that      *)
(* follow the commit are not part of this module.                          *)
(***************************************************************************)
EXTENDS CoachAssignment

CONSTANTS
    Calls,          \* the calls clients may make
    Grace,          \* the 2 hours a reschedule link outlives its session
    MaxNow          \* bound of the clock

VARIABLES
    pc,             \* pc[r]: where the handler of request r stands
    tx,             \* tx[r]: the local variables of the handler
    held            \* held[r]: the row locks of r's transaction

rowVars == <<bookings, slots, routing, userActive>>
vars == <<rowVars, now, pc, tx, held>>

SlotRow(s)     == <<"EventScheduleSlot", s>>
EventRow(e)    == <<"Event", e>>
RoutingRow(e)  == <<"EventRoutingState", e>>
CoachRow(c)    == <<"User", c>>
StudentRow(st) == <<"Student", st>>

Rows == {SlotRow(s) : s \in Slots} \cup {EventRow(e) : e \in Events}
        \cup {RoutingRow(e) : e \in Events} \cup {CoachRow(c) : c \in Coaches}
        \cup {StudentRow(st) : st \in Students}

\* What a client may ask; a token says how often the link it holds was rotated, Null is no token.
Call ==
    [op: {"create"}, event: Events, start: Starts, student: Students, preferred: Coaches \cup {Null}]
    \cup [op: {"reschedule"}, booking: Requests, start: Starts, token: Nat \cup {Null}]
    \cup [op: {"followUp"}, booking: Requests, start: Starts]
    \cup [op: {"cancel"}, booking: Requests, token: Nat \cup {Null}]
    \cup [op: {"patch"}, booking: Requests, status: Statuses]
    \cup [op: {"cancelSlot"}, slot: Slots]
    \cup [op: {"deactivateUser"}, user: Coaches]

ASSUME CallsAssumption == Calls \subseteq Call /\ Grace \in Nat /\ MaxNow \in Nat

BookingOps == {"create", "reschedule", "followUp"}

\* The steps of a booking transaction, and those of the two cancellations.
InTransaction == {"locking", "routing", "coach", "seats", "student", "write"}
Steps == {"idle", "done", "cancelling", "cancellingSlot"} \cup InTransaction

Local ==
    [op: BookingOps \cup {"cancel", "cancelSlot", Null},
     event: Events \cup {Null},
     start: Starts \cup {Null},
     student: Students \cup {Null},
     slot: Slots \cup {Null},
     preferred: Coaches \cup {Null},
     target: Requests \cup {Null},      \* the booking to write
     token: Nat \cup {Null},            \* the reschedule link the caller presented
     coach: Coaches \cup {Null},
     coHosts: SUBSET Coaches,
     cursor: Nat \cup {Null}]

NoTx ==
    [op |-> Null, event |-> Null, start |-> Null, student |-> Null, slot |-> Null,
     preferred |-> Null, target |-> Null, token |-> Null, coach |-> Null, coHosts |-> {},
     cursor |-> Null]

Init ==
    /\ bookings = [b \in Requests |-> VacantBooking]
    /\ slots = InitialSlots
    /\ routing = [e \in Events |-> 1]
    /\ userActive = Coaches
    /\ now = 0
    /\ pc = [r \in Requests |-> "idle"]
    /\ tx = [r \in Requests |-> NoTx]
    /\ held = [r \in Requests |-> {}]

-----------------------------------------------------------------------------
(* Handlers, locks and commits *)

Begin(r, step, t) ==
    /\ pc' = [pc EXCEPT ![r] = step]
    /\ tx' = [tx EXCEPT ![r] = t]
    /\ UNCHANGED held

\* COMMIT or ROLLBACK: either way the row locks are released and the call answered.
Finish(r) ==
    /\ pc' = [pc EXCEPT ![r] = "done"]
    /\ tx' = [tx EXCEPT ![r] = NoTx]
    /\ held' = [held EXCEPT ![r] = {}]

Unlocked(r, row) == \A q \in Requests \ {r} : row \notin held[q]

\* SELECT ... FOR UPDATE, or the implicit lock of an UPDATE
Acquire(r, row) ==
    /\ Unlocked(r, row)
    /\ held' = [held EXCEPT ![r] = @ \cup {row}]

Goto(r, step, t) ==
    /\ pc' = [pc EXCEPT ![r] = step]
    /\ tx' = [tx EXCEPT ![r] = t]

Asked(op) == {c \in Calls : c.op = op}

-----------------------------------------------------------------------------
(* What the three entry points read before their transaction *)

\* getBookableEvent, computeSessionTimeWindow and matchScheduleSlotForBooking
Bookable(e, t) ==
    /\ NoticeSatisfied(e, t)
    /\ Fixed(e) => MatchingSlot(e, t) # Null

BookingTx(op, e, t, st, preferred, target) ==
    [NoTx EXCEPT !.op = op, !.event = e, !.start = t, !.student = st,
                 !.slot = MatchingSlot(e, t), !.preferred = preferred, !.target = target]

CreateBooking(r) ==
    /\ pc[r] = "idle"
    /\ \E c \in Asked("create") :
         /\ Bookable(c.event, c.start)
         /\ Pool(c.event) # {}
         /\ Event[c.event].coachChoice => c.preferred # Null
         /\ Begin(r, "locking", BookingTx("create", c.event, c.start, c.student, c.preferred, r))
    /\ UNCHANGED <<rowVars, now>>

\* findBookingByToken and assertRescheduleTokenValid; staff come without a token
RescheduleLinkValid(b, token) ==
    /\ token = bookings[b].token
    /\ Active(b)
    /\ now <= End(bookings[b].event, bookings[b].start) + Grace

RescheduleBooking(r) ==
    /\ pc[r] = "idle"
    /\ \E c \in Asked("reschedule") :
         LET old == bookings[c.booking]
             s   == MatchingSlot(old.event, c.start)
         IN  /\ Exists(c.booking)
             /\ c.token # Null => RescheduleLinkValid(c.booking, c.token)
             /\ Bookable(old.event, c.start)
             /\ s # Null => slots[s].start > now
             /\ Begin(r, "locking",
                      [BookingTx("reschedule", old.event, c.start, old.student, old.coach, c.booking)
                         EXCEPT !.token = c.token])
    /\ UNCHANGED <<rowVars, now>>

BookFollowUp(r) ==
    /\ pc[r] = "idle"
    /\ \E c \in Asked("followUp") :
         LET old == bookings[c.booking]
         IN  /\ old.status = "COMPLETED"
             /\ old.coach # Null
             /\ old.coach \in userActive \cap Pool(old.event)
             /\ Bookable(old.event, c.start)
             /\ Begin(r, "locking",
                      BookingTx("followUp", old.event, c.start, old.student, old.coach, r))
    /\ UNCHANGED <<rowVars, now>>

-----------------------------------------------------------------------------
(* The transaction: acquireLocksAndSelectCoach, the checks, the write *)

\* mutant: rescheduling starts from the student's row, against the lock order
FirstRowStudent(t) ==
    IF t.op = "reschedule" THEN StudentRow(t.student)
    ELSE IF t.slot # Null THEN SlotRow(t.slot) ELSE EventRow(t.event)

\* mutant: the slot row is locked even when no slot matched
FirstRowSlotOnly(t) == SlotRow(t.slot)

\* The row that serialises the sessions of a slot, or of an event that has none at this start.
FirstRow(t) == IF t.slot # Null THEN SlotRow(t.slot) ELSE EventRow(t.event)

Excluded(t) == IF t.op = "reschedule" THEN t.target ELSE Null

\* mutant: the coach is selected before the transaction, under no lock
SelectCoachUnlocked(r) ==
    LET t == tx[r]
    IN  /\ pc[r] = "locking"
        /\ \E choice \in Selections(t.event, t.start, t.slot, t.preferred, Excluded(t)) :
             Goto(r, "coach", [t EXCEPT !.coach = choice.coach, !.coHosts = choice.coHosts])
        /\ UNCHANGED <<rowVars, now, held>>

SelectCoach(r) ==
    LET t == tx[r]
        choices == Selections(t.event, t.start, t.slot, t.preferred, Excluded(t))
    IN  /\ pc[r] = "locking"
        /\ IF choices = {}
           THEN Unlocked(r, FirstRow(t)) /\ Finish(r)
           ELSE \E choice \in choices :
                  /\ Acquire(r, FirstRow(t))
                  /\ Goto(r, IF choice.cursor # Null THEN "routing" ELSE "coach",
                          [t EXCEPT !.coach = choice.coach, !.coHosts = choice.coHosts,
                                    !.cursor = choice.cursor])
        /\ UNCHANGED <<rowVars, now>>

\* updateRoutingState: the row is locked here, its new value visible to others at commit
AdvanceRouting(r) ==
    /\ pc[r] = "routing"
    /\ Acquire(r, RoutingRow(tx[r].event))
    /\ Goto(r, "coach", tx[r])
    /\ UNCHANGED <<rowVars, now>>

\* mutant: the follow-up trusts what it read before its transaction
CoachTrusted(t) == TRUE

\* lockCoach, and in a follow-up the second look at the coach's account and at the pool
CoachStillEligible(t) ==
    t.op = "followUp" => t.coach # Null /\ t.coach \in userActive \cap Pool(t.event)

LockCoach(r) ==
    LET t == tx[r]
    IN  /\ pc[r] = "coach"
        /\ t.coach # Null => Unlocked(r, CoachRow(t.coach))
        /\ IF CoachStillEligible(t)
           THEN /\ held' = [held EXCEPT ![r] =
                              IF t.coach = Null THEN @ ELSE @ \cup {CoachRow(t.coach)}]
                /\ Goto(r, "seats", t)
           ELSE Finish(r)
        /\ UNCHANGED <<rowVars, now>>

\* mutant: a booking that is moved takes its seat along
CheckSeatsUnlessMoved(r) ==
    LET t == tx[r]
    IN  /\ pc[r] = "seats"
        /\ IF t.op = "reschedule" \/ (Fixed(t.event) => SeatAvailable(t.event, t.start, t.slot))
           THEN Goto(r, "student", t) /\ UNCHANGED held
           ELSE Finish(r)
        /\ UNCHANGED <<rowVars, now>>

\* The capacity check of FIXED_SLOTS events; other events look for a slot once more.
CheckSeats(r) ==
    LET t == tx[r]
        s == IF t.slot # Null THEN t.slot ELSE MatchingSlot(t.event, t.start)
    IN  /\ pc[r] = "seats"
        /\ IF Fixed(t.event) => SeatAvailable(t.event, t.start, s)
           THEN Goto(r, "student", [t EXCEPT !.slot = s]) /\ UNCHANGED held
           ELSE Finish(r)
        /\ UNCHANGED <<rowVars, now>>

\* mutant: the overlap is checked without lockStudent
LockStudentForgotten(r) ==
    LET t == tx[r]
    IN  /\ pc[r] = "student"
        /\ IF StudentFree(t.student, t.event, t.start, Excluded(t))
           THEN Goto(r, "write", t) /\ UNCHANGED held
           ELSE Finish(r)
        /\ UNCHANGED <<rowVars, now>>

\* upsertStudentForBooking, lockStudent and assertStudentNotOverlapping
LockStudent(r) ==
    LET t == tx[r]
    IN  /\ pc[r] = "student"
        /\ IF StudentFree(t.student, t.event, t.start, Excluded(t))
           THEN Acquire(r, StudentRow(t.student)) /\ Goto(r, "write", t)
           ELSE Unlocked(r, StudentRow(t.student)) /\ Finish(r)
        /\ UNCHANGED <<rowVars, now>>

\* createBookingRecord or updateBookingById, then COMMIT.  Inserting a booking takes a
\* key-share lock on its event for the foreign key, which FOR UPDATE excludes.
WriteBooking(r) ==
    LET t == tx[r]
    IN  /\ pc[r] = "write"
        /\ t.op # "reschedule" => Unlocked(r, EventRow(t.event))
        /\ bookings' = [bookings EXCEPT ![t.target] =
                          [status |-> "CONFIRMED", event |-> t.event, start |-> t.start,
                           coach |-> t.coach, coHosts |-> t.coHosts, student |-> t.student,
                           slot |-> t.slot, token |-> IF t.token = Null THEN @.token ELSE @.token + 1]]
        /\ routing' = IF t.cursor = Null THEN routing ELSE [routing EXCEPT ![t.event] = t.cursor]
        /\ Finish(r)
        /\ UNCHANGED <<slots, userActive, now>>

\* A pool or lock timeout (P2024, P2028, answered 409), or the death of the process.
GiveUp(r) ==
    /\ pc[r] \in InTransaction \cup {"cancelling", "cancellingSlot"}
    /\ Finish(r)
    /\ UNCHANGED <<rowVars, now>>

-----------------------------------------------------------------------------
(* The other writers *)

\* findBookingByToken and assertCancelTokenValid
CancelLinkValid(b, token) ==
    /\ token = bookings[b].token
    /\ Active(b)
    /\ now < bookings[b].start

\* The transaction of cancelBooking up to its update: it locks nothing.
CancelBooking(r) ==
    /\ pc[r] = "idle"
    /\ \E c \in Asked("cancel") :
         /\ Exists(c.booking)
         /\ c.token # Null => CancelLinkValid(c.booking, c.token)
         /\ Begin(r, "cancelling", [NoTx EXCEPT !.op = "cancel", !.target = c.booking])
    /\ UNCHANGED <<rowVars, now>>

WriteCancellation(r) ==
    /\ pc[r] = "cancelling"
    /\ bookings' = [bookings EXCEPT ![tx[r].target].status = "CANCELLED"]
    /\ Finish(r)
    /\ UNCHANGED <<slots, routing, userActive, now>>

\* PATCH /bookings/:id writes the status it is given, from any status.
PatchStatus(r) ==
    /\ pc[r] = "idle"
    /\ \E c \in Asked("patch") :
         /\ Exists(c.booking)
         /\ bookings' = [bookings EXCEPT ![c.booking].status = c.status]
    /\ Finish(r)
    /\ UNCHANGED <<slots, routing, userActive, now>>

\* The guards of cancelEventScheduleSlot, read before its transaction.
CancelSlot(r) ==
    /\ pc[r] = "idle"
    /\ \E c \in Asked("cancelSlot") :
         /\ ~slots[c.slot].cancelled
         /\ End(SlotEvent[c.slot], slots[c.slot].start) >= now
         /\ Begin(r, "cancellingSlot", [NoTx EXCEPT !.op = "cancelSlot", !.slot = c.slot])
    /\ UNCHANGED <<rowVars, now>>

WriteSlotCancellation(r) ==
    LET s == tx[r].slot
    IN  /\ pc[r] = "cancellingSlot"
        /\ Unlocked(r, SlotRow(s))
        /\ slots' = [slots EXCEPT ![s].cancelled = TRUE, ![s].active = FALSE]
        /\ bookings' = [b \in Requests |->
                          IF Active(b) /\ bookings[b].slot = s
                          THEN [bookings[b] EXCEPT !.status = "CANCELLED"] ELSE bookings[b]]
        /\ Finish(r)
        /\ UNCHANGED <<routing, userActive, now>>

\* deleteUser: an UPDATE of the User row, which waits for whoever locked the coach.
DeactivateUser(r) ==
    /\ pc[r] = "idle"
    /\ \E c \in Asked("deactivateUser") :
         /\ c.user \in userActive
         /\ Unlocked(r, CoachRow(c.user))
         /\ userActive' = userActive \ {c.user}
    /\ Finish(r)
    /\ UNCHANGED <<bookings, slots, routing, now>>

Tick ==
    /\ now < MaxNow
    /\ now' = now + 1
    /\ UNCHANGED <<rowVars, pc, tx, held>>

-----------------------------------------------------------------------------
\* A call arrives.
Receive(r) ==
    \/ CreateBooking(r) \/ RescheduleBooking(r) \/ BookFollowUp(r) \/ CancelBooking(r)
    \/ PatchStatus(r) \/ CancelSlot(r) \/ DeactivateUser(r)

\* A handler that is under way goes on.
Serve(r) ==
    \/ SelectCoach(r) \/ AdvanceRouting(r) \/ LockCoach(r) \/ CheckSeats(r) \/ LockStudent(r)
    \/ WriteBooking(r) \/ WriteCancellation(r) \/ WriteSlotCancellation(r)

Next == Tick \/ \E r \in Requests : Receive(r) \/ Serve(r) \/ GiveUp(r)

Spec == Init /\ [][Next]_vars

\* PostgreSQL grants a free lock to a waiter, and a promise that can go on does so.
FairSpec == Spec /\ \A r \in Requests : WF_vars(Serve(r))

-----------------------------------------------------------------------------
(* Properties *)

TypeOK ==
    /\ bookings \in [Requests -> Booking]
    /\ slots \in [Slots -> Slot]
    /\ routing \in [Events -> Nat]
    /\ userActive \subseteq Coaches
    /\ now \in Nat
    /\ pc \in [Requests -> Steps]
    /\ tx \in [Requests -> Local]
    /\ held \in [Requests -> SUBSET Rows]

\* The hypothesis of the two properties below: PATCH is not used to put a booking back.
NoReinstating == \A c \in Asked("patch") : c.status \notin ActiveStatuses

\* No student holds two overlapping sessions, whatever events, slots and requests they came
\* from: the student row lock makes assertStudentNotOverlapping and the write one step.
StudentNeverDoubleBooked ==
    \A a, b \in Requests :
        a # b /\ Active(a) /\ Active(b) /\ bookings[a].student = bookings[b].student
            => ~OverlapsBooking(a, bookings[b].event, bookings[b].start)

\* A slot never has more active bookings than its effective capacity: every path that puts a
\* booking on a slot counts and writes under the lock of that slot.
SeatsNeverOversold ==
    \A s \in Slots :
        Fixed(SlotEvent[s]) /\ SeatLimit(s) # Null
            => Cardinality({b \in Requests : Active(b) /\ bookings[b].slot = s}) <= SeatLimit(s)

\* The promise of BookingLedger, kept by the transactions: an active booking is an entry.
Entries == [event: Events, start: Starts, student: Students, slot: Slots \cup {Null}]

ASSUME EntriesAssumption == Null \notin Entries

EntryOf(b) ==
    IF Active(b)
    THEN [event |-> bookings[b].event, start |-> bookings[b].start,
          student |-> bookings[b].student, slot |-> bookings[b].slot]
    ELSE Null

SeatsOf(s) == IF Fixed(SlotEvent[s]) THEN SeatLimit(s) ELSE Null

Meeting(x, y) == Overlap(x.event, x.start, y.event, y.start)

Ledger == INSTANCE BookingLedger WITH
    Ids <- Requests, Entry <- Entries, Limit <- SeatsOf, Meet <- Meeting,
    ledger <- [b \in Requests |-> EntryOf(b)]

\* Whatever requests interleave, bookings change as if each were checked and made in one step.
KeepsLedger == Ledger!Spec

\* Two overlapping sessions of one event without slots never share a coach: the event row
\* lock serialises selecting the coach and writing the booking.
EventNeverDoubleBooksStaff ==
    \A a, b \in Requests :
        (/\ a # b /\ Active(a) /\ Active(b)
         /\ bookings[a].event = bookings[b].event /\ ~Fixed(bookings[a].event)
         /\ OverlapsBooking(a, bookings[b].event, bookings[b].start))
            => (Staff(a) \cap Staff(b)) \ {Null} = {}

\* A session's lead is never listed among its co-hosts, and there are no more co-hosts than the
\* event asks for, whichever branch picked the team and whatever was booked meanwhile.
TeamWellFormed ==
    \A b \in Requests :
        Active(b) => /\ bookings[b].coach \notin bookings[b].coHosts
                     /\ Event[bookings[b].event].targetCoHosts # Null
                          => Cardinality(bookings[b].coHosts)
                               <= Event[bookings[b].event].targetCoHosts

\* A follow-up is only committed with a coach whose account is active at that moment, although
\* accounts are deactivated concurrently: the coach row is locked, then the account read again.
FollowUpOnlyWithActiveCoach ==
    [][\A r \in Requests :
          WriteBooking(r) /\ tx[r].op = "followUp" => tx[r].coach \in userActive]_vars

\* What the comment on lockCoach says the lock is for: no coach leads or joins two overlapping
\* sessions, of whatever events.  A group session is one session for all its students.
NoCoachDoubleBooked ==
    \A a, b \in Requests :
        LET sameSession == /\ Group(bookings[a].event)
                           /\ bookings[a].event = bookings[b].event
                           /\ bookings[a].start = bookings[b].start
        IN  (/\ a # b /\ Active(a) /\ Active(b) /\ ~sameSession
             /\ OverlapsBooking(a, bookings[b].event, bookings[b].start))
                => (Staff(a) \cap Staff(b)) \ {Null} = {}

\* The rows the next step of r needs, and must wait for when another transaction holds them.
Wanted(r) ==
    LET t == tx[r]
    IN  CASE pc[r] = "locking"        -> {FirstRow(t)}
          [] pc[r] = "routing"        -> {RoutingRow(t.event)}
          [] pc[r] = "coach"          -> {CoachRow(t.coach)}
          [] pc[r] = "student"        -> {StudentRow(t.student)}
          [] pc[r] = "write"          -> IF t.op = "reschedule" THEN {} ELSE {EventRow(t.event)}
          [] pc[r] = "cancellingSlot" -> {SlotRow(t.slot)}
          [] OTHER                    -> {}

\* What the documentation concludes from the lock order slot or event, coach, student: two
\* requests never end up each holding what the other one wants.
NoLockCycle ==
    \A q, r \in Requests :
        q # r => Wanted(q) \cap held[r] = {} \/ Wanted(r) \cap held[q] = {}

\* What the cancellation cascade promises: a cancelled slot has no active booking.
CancelledSlotIsEmpty ==
    \A b \in Requests :
        Active(b) /\ bookings[b].slot # Null => ~slots[bookings[b].slot].cancelled

\* What the state diagram of the documentation says: nothing follows CANCELLED, COMPLETED, NO_SHOW.
TerminalStatusIsFinal ==
    [][\A b \in Requests :
          bookings[b].status \in {"CANCELLED", "COMPLETED", "NO_SHOW"}
            => bookings'[b].status = bookings[b].status]_vars

\* Every call is answered: the lock order slot or event, routing, coach, student admits no cycle.
EveryCallAnswered == \A r \in Requests : pc[r] # "idle" ~> pc[r] = "done"
=============================================================================
