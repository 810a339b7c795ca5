------------------------------ MODULE SlotAdmin ------------------------------
(***************************************************************************)
(* What staff do to the slots of one group event (eventScheduling.service, *)
(* sessionLog.service), while students book seats and every listing of the *)
(* slots replenishes the event's continuous series.                        *)
(*                                                                         *)
(* A handler reads, decides and writes in separate statements; nothing but *)
(* the row lock of a booking transaction makes another one wait.  Callers  *)
(* are authorised; notifications, meeting links and the round-robin choice *)
(* of a coach for a new slot are left out.  Time is counted in days of the *)
(* series' time zone, and a session is over on the day after its start.    *)
(***************************************************************************)
EXTENDS Recurrence, FiniteSets

CONSTANTS
    Coaches, Bookings,
    Calls,          \* the requests
    Asks,           \* Asks[c]: what request c may ask for
    Initial,        \* the slots, series and bookings there may be at first
    FixedLead,      \* fixedLeadCoachId, the default coach of a DIRECT event
    Deferred,       \* deferCoachReveal
    Ahead,          \* the 90 days that a series is replenished ahead
    Occurrences,    \* the 12 occurrences a continuous series starts with
    MaxSlots, MaxNow

VARIABLES
    slots,          \* slots[i]: the EventScheduleSlot row with identifier i, Null when there is none
    created,        \* how many slot identifiers have been used
    series,         \* the RecurrenceGroup row of the continuous series
    frequency,      \* and its frequency
    bookings,       \* bookings[b]: the Booking row and its attendance, Null when there is none
    locks,          \* locks[i]: the booking transaction that holds slot i
    now,
    pc, tx,
    excused,        \* history: days of which a slot has been deleted or moved away
    disturbed,      \* history: a slot of the series was moved, or the first of three a week is missing
    withdrawn,      \* history: bookings that have been cancelled, and not rescheduled since
    restated,       \* history: bookings of which something else than a log has changed the status
    reassigned      \* history: slots that got another coach in an update after their reveal

slotVars == <<slots, created, series, frequency, excused, disturbed>>
history == <<withdrawn, restated, reassigned>>
vars == <<slotVars, bookings, locks, now, pc, tx, history>>

Ids == 1..MaxSlots

SeriesStates == {"none", "active", "stopped", "deleted"}

Slot == [start: Nat, coach: Coaches \cup {Null}, capacity: Nat \cup {Null}, active: BOOLEAN,
         cancelled: BOOLEAN, overridden: BOOLEAN, revealed: BOOLEAN, inSeries: BOOLEAN,
         logged: BOOLEAN]

Statuses == {"PENDING", "CONFIRMED", "CANCELLED", "COMPLETED", "NO_SHOW"}

\* The SessionAttendance row of a booking, and the slot whose log it belongs to
AttendanceRow == [log: Ids, attended: BOOLEAN]

BookingRow == [status: Statuses, slot: Ids \cup {Null}, start: Nat, coach: Coaches \cup {Null},
               attendance: AttendanceRow \cup {Null}]

\* What the payload of an update may write; a start comes with its end.
Fields == {"start", "coach", "capacity", "active", "cancelled"}

\* The fields that an update names have the values given.  Elsewhere Null is a value left out.
Ask ==
    [op: {"list", "stop", "resume"}]
    \cup [op: {"create"}, start: Nat, coach: Coaches \cup {Null}, capacity: Nat \cup {Null}]
    \cup [op: {"createSeries"}, start: Nat, coach: Coaches \cup {Null}, capacity: Nat \cup {Null},
          frequency: Frequencies]
    \cup [op: {"update"}, slot: Ids, fields: SUBSET Fields, start: Nat, coach: Coaches \cup {Null},
          capacity: Nat \cup {Null}, active: BOOLEAN, cancelled: BOOLEAN]
    \cup [op: {"delete", "cancel"}, slot: Ids]
    \cup [op: {"reveal"}, slot: Ids, coach: Coaches \cup {Null}]
    \cup [op: {"log"}, slot: Ids, noted: SUBSET Bookings, present: SUBSET Bookings,
          coach: Coaches \cup {Null}]
    \cup [op: {"book"}, booking: Bookings, start: Nat]
    \cup [op: {"status"}, booking: Bookings, status: Statuses]

ASSUME SlotAdminAssumption ==
    /\ \A c \in Calls : Asks[c] \subseteq Ask
    /\ FixedLead \in Coaches \cup {Null} /\ Deferred \in BOOLEAN
    /\ Ahead \in Nat /\ Occurrences \in Nat \ {0} /\ MaxSlots \in Nat /\ MaxNow \in Nat
    /\ Null \notin Nat \cup Coaches \cup BOOLEAN \cup Calls \cup Slot \cup BookingRow
    /\ \A i \in Initial :
         /\ i.slots \in [Ids -> Slot \cup {Null}]
         /\ i.bookings \in [Bookings -> BookingRow \cup {Null}]
         /\ i.series \in SeriesStates /\ i.frequency \in Frequencies \cup {Null}

\* What has been cancelled, logged or revealed has been so in the run; the slots of a series have a
\* group with a frequency, and a booking refers to a slot there is.
ASSUME InitialAssumption ==
    \A i \in Initial :
        /\ \A k \in Ids : i.slots[k] # Null =>
             /\ ~i.slots[k].revealed /\ k <= Cardinality({x \in Ids : i.slots[x] # Null})
             /\ i.slots[k].inSeries => i.series \in {"active", "stopped"}
        /\ i.series # "none" => i.frequency # Null
        /\ \A b \in Bookings : i.bookings[b] # Null =>
             /\ i.bookings[b].status = "CONFIRMED" /\ i.bookings[b].attendance = Null
             /\ i.bookings[b].slot # Null => i.slots[i.bookings[b].slot] # Null

NoTx == [slot |-> Null, start |-> Null, coach |-> Null, capacity |-> Null, phase |-> 0, until |-> 0,
         active |-> TRUE, cancelled |-> FALSE, fields |-> {}, coachChanged |-> FALSE, cascaded |-> {},
         booking |-> Null, noted |-> {}, present |-> {}, open |-> {}]

Asked(c, op) == {a \in Asks[c] : a.op = op}

Goto(c, step, local) ==
    /\ pc' = [pc EXCEPT ![c] = step]
    /\ tx' = [tx EXCEPT ![c] = local]

Answer(c) == Goto(c, "done", NoTx)

Begin(c, step, local) == pc[c] = "idle" /\ Goto(c, step, local)

Exists(i) == i # Null /\ slots[i] # Null
SlotsAt(day) == {i \in Ids : Exists(i) /\ slots[i].start = day}
SeriesSlots == {i \in Ids : Exists(i) /\ slots[i].inSeries}

Counted(b) == bookings[b] # Null /\ bookings[b].status # "CANCELLED"
Seated(i) == {b \in Bookings : Counted(b) /\ bookings[b].slot = i}

NewSlot(day, coach, capacity, inSeries) ==
    [start |-> day, coach |-> coach, capacity |-> capacity, active |-> TRUE, cancelled |-> FALSE,
     overridden |-> FALSE, revealed |-> FALSE, inSeries |-> inSeries, logged |-> FALSE]

\* createMany with skipDuplicates: a start is unique in its event.
Insert(days, row) ==
    LET new == {d \in days : SlotsAt(d) = {}}
        idOf(d) == created + 1 + Cardinality({x \in new \ {d} : x < d})
    IN  /\ created + Cardinality(new) <= MaxSlots
        /\ created' = created + Cardinality(new)
        /\ slots' = [i \in Ids |->
                        IF \E d \in new : i = idOf(d)
                        THEN [row EXCEPT !.start = CHOOSE d \in new : i = idOf(d)]
                        ELSE slots[i]]

Init ==
    /\ \E i \in Initial :
         /\ slots = i.slots /\ series = i.series /\ frequency = i.frequency /\ bookings = i.bookings
         /\ created = Cardinality({x \in Ids : i.slots[x] # Null})
    /\ locks = [i \in Ids |-> Null]
    /\ now = 0
    /\ pc = [c \in Calls |-> "idle"]
    /\ tx = [c \in Calls |-> NoTx]
    /\ excused = {} /\ disturbed = FALSE
    /\ withdrawn = {} /\ restated = {} /\ reassigned = {}

-----------------------------------------------------------------------------
(* createEventScheduleSlot *)

DefaultCoach(coach) == IF coach = Null THEN FixedLead ELSE coach

CreateSlot(c) ==
    /\ \E a \in Asked(c, "create") :
         /\ \A i \in SlotsAt(a.start) : ~slots[i].active
         /\ Begin(c, "insert", [NoTx EXCEPT !.start = a.start, !.coach = DefaultCoach(a.coach),
                                            !.capacity = a.capacity])
    /\ UNCHANGED <<slotVars, bookings, locks, now, history>>

\* An inactive slot at this start makes the insertion fail.
InsertSlot(c) ==
    LET t == tx[c]
    IN  /\ pc[c] = "insert"
        /\ IF SlotsAt(t.start) = {}
           THEN Insert({t.start}, NewSlot(t.start, t.coach, t.capacity, FALSE))
           ELSE UNCHANGED <<slots, created>>
        /\ Answer(c)
        /\ UNCHANGED <<series, frequency, excused, disturbed, bookings, locks, now, history>>

\* The group is created first, in a statement of its own; a second series is left out.
CreateSeries(c) ==
    /\ series = "none"
    /\ \E a \in Asked(c, "createSeries") :
         /\ Begin(c, "insertSeries", [NoTx EXCEPT !.start = a.start, !.coach = DefaultCoach(a.coach),
                                                  !.capacity = a.capacity])
         /\ frequency' = a.frequency
    /\ series' = "active"
    /\ UNCHANGED <<slots, created, excused, disturbed, bookings, locks, now, history>>

InsertSeries(c) ==
    LET t == tx[c]
    IN  /\ pc[c] = "insertSeries"
        /\ Insert({Occurrence(t.start, frequency, 0, n) : n \in 0..Occurrences - 1},
                  NewSlot(0, t.coach, t.capacity, TRUE))
        /\ disturbed' = (frequency = "THRICE_A_WEEK" /\ SlotsAt(t.start) # {})
        /\ Answer(c)
        /\ UNCHANGED <<series, frequency, excused, bookings, locks, now, history>>

-----------------------------------------------------------------------------
(* listEventScheduleSlots, resumeRecurrenceGroup and stopRecurrenceGroup *)

ListSlots(c) ==
    /\ Asked(c, "list") # {}
    /\ Begin(c, "readSeries", NoTx)
    /\ UNCHANGED <<slotVars, bookings, locks, now, history>>

SwitchSeries(c, op, state) ==
    /\ series \in {"active", "stopped"}
    /\ Asked(c, op) # {}
    /\ series' = state
    /\ UNCHANGED <<slots, created, frequency, excused, disturbed, bookings, locks, now, history>>

StopSeries(c) ==
    /\ SwitchSeries(c, "stop", "stopped")
    /\ Begin(c, "done", NoTx)

ResumeSeries(c) ==
    /\ SwitchSeries(c, "resume", "active")
    /\ Begin(c, "readSeries", NoTx)

\* replenishContinuousSlots: the latest slot of an active series, of which it may have none yet
ReadSeries(c) ==
    LET latest == CHOOSE i \in SeriesSlots : \A x \in SeriesSlots : slots[x].start <= slots[i].start
    IN  /\ pc[c] = "readSeries"
        /\ IF series # "active" THEN Answer(c)
           ELSE IF SeriesSlots = {} THEN Goto(c, "deactivate", NoTx)
           ELSE IF slots[latest].start >= now + Ahead THEN Answer(c)
           ELSE Goto(c, IF frequency = "THRICE_A_WEEK" THEN "readAnchor" ELSE "replenish",
                     [NoTx EXCEPT !.start = slots[latest].start, !.capacity = slots[latest].capacity,
                                  !.active = slots[latest].active, !.until = now + Ahead,
                                  !.coach = IF FixedLead # Null THEN FixedLead ELSE slots[latest].coach])
        /\ UNCHANGED <<slotVars, bookings, locks, now, history>>

Deactivate(c) ==
    /\ pc[c] = "deactivate"
    /\ series' = IF series = "deleted" THEN series ELSE "stopped"
    /\ Answer(c)
    /\ UNCHANGED <<slots, created, frequency, excused, disturbed, bookings, locks, now, history>>

\* The place of the latest slot in the cycle is counted from the earliest one, and not by rows.
ReadAnchor(c) ==
    LET t == tx[c]
        first == CHOOSE i \in SeriesSlots : \A x \in SeriesSlots : slots[x].start >= slots[i].start
    IN  /\ pc[c] = "readAnchor"
        /\ Goto(c, "replenish",
                [t EXCEPT !.phase = IF SeriesSlots = {} THEN 0 ELSE CyclePhase(t.start - slots[first].start)])
        /\ UNCHANGED <<slotVars, bookings, locks, now, history>>

\* A series that has been deleted meanwhile makes the insertion fail.
Replenish(c) ==
    LET t == tx[c]
    IN  /\ pc[c] = "replenish"
        /\ IF series # "deleted"
           THEN Insert(Upcoming(t.start, frequency, t.phase, t.until),
                       [NewSlot(0, t.coach, t.capacity, TRUE) EXCEPT !.active = t.active])
           ELSE UNCHANGED <<slots, created>>
        /\ Answer(c)
        /\ UNCHANGED <<series, frequency, excused, disturbed, bookings, locks, now, history>>

-----------------------------------------------------------------------------
(* updateEventScheduleSlot *)

\* The guards, and the number of bookings, are read once.
ReadSlotToUpdate(c) ==
    /\ \E a \in Asked(c, "update") :
         /\ Exists(a.slot)
         /\ "start" \in a.fields => slots[a.slot].start > now /\ a.start > now
         /\ "capacity" \in a.fields /\ a.capacity # Null => a.capacity >= Cardinality(Seated(a.slot))
         /\ LET timeChanged == "start" \in a.fields /\ a.start # slots[a.slot].start
                coachChanged == "coach" \in a.fields /\ a.coach # slots[a.slot].coach
                follow == Seated(a.slot) # {}
            IN  Begin(c, "update",
                      [NoTx EXCEPT !.slot = a.slot, !.fields = a.fields, !.start = a.start, !.coach = a.coach,
                                   !.capacity = a.capacity, !.active = a.active, !.cancelled = a.cancelled,
                                   !.coachChanged = coachChanged,
                                   !.cascaded = (IF timeChanged /\ follow THEN {"start"} ELSE {})
                                       \cup (IF /\ coachChanged /\ follow
                                                /\ Deferred => slots[a.slot].revealed
                                             THEN {"coach"} ELSE {})])
    /\ UNCHANGED <<slotVars, bookings, locks, now, history>>

\* assignedCoachOverride tells whether the last change of the coach has put one in.
Updated(slot, t) ==
    [slot EXCEPT !.start = IF "start" \in t.fields THEN t.start ELSE @,
                 !.coach = IF "coach" \in t.fields THEN t.coach ELSE @,
                 !.capacity = IF "capacity" \in t.fields THEN t.capacity ELSE @,
                 !.active = IF "active" \in t.fields THEN t.active ELSE @,
                 !.cancelled = IF "cancelled" \in t.fields THEN t.cancelled ELSE @,
                 !.overridden = IF t.coachChanged THEN t.coach # Null ELSE @]

UpdateSlot(c) ==
    LET t == tx[c]
        i == t.slot
        possible == Exists(i) /\ ("start" \in t.fields => SlotsAt(t.start) \subseteq {i})
    IN  /\ pc[c] = "update"
        /\ locks[i] = Null
        /\ IF possible
           THEN /\ slots' = [slots EXCEPT ![i] = Updated(@, t)]
                /\ excused' = excused \cup ({slots[i].start} \ {slots'[i].start})
                /\ disturbed' = (disturbed \/ (slots[i].inSeries /\ slots[i].start # slots'[i].start))
                /\ reassigned' = IF /\ slots[i].revealed
                                    /\ t.coachChanged \/ slots[i].coach # slots'[i].coach
                                 THEN reassigned \cup {i} ELSE reassigned
           ELSE UNCHANGED <<slots, excused, disturbed, reassigned>>
        /\ IF possible /\ t.cascaded # {} THEN Goto(c, "cascade", t) ELSE Answer(c)
        /\ UNCHANGED <<created, series, frequency, bookings, locks, now, withdrawn, restated>>

\* The new time and coach, for the bookings the slot has by now
Cascade(c) ==
    LET t == tx[c]
    IN  /\ pc[c] = "cascade"
        /\ bookings' = [b \in Bookings |->
                          IF b \in Seated(t.slot)
                          THEN [bookings[b] EXCEPT !.start = IF "start" \in t.cascaded THEN t.start ELSE @,
                                                   !.coach = IF "coach" \in t.cascaded THEN t.coach ELSE @]
                          ELSE bookings[b]]
        /\ Answer(c)
        /\ UNCHANGED <<slotVars, locks, now, history>>

-----------------------------------------------------------------------------
(* deleteEventScheduleSlot *)

CountBookings(c) ==
    /\ \E a \in Asked(c, "delete") :
         /\ Exists(a.slot)
         /\ Seated(a.slot) = {}
         /\ Begin(c, "delete", [NoTx EXCEPT !.slot = a.slot])
    /\ UNCHANGED <<slotVars, bookings, locks, now, history>>

\* mutant: the reference to the slot is not cleared
OrphanedWithSlot(i) == bookings

\* The log goes with the slot, and the attendance with the log; a booking made meanwhile stays, without
\* a slot.
Orphaned(i) ==
    LET without(row) == [row EXCEPT !.slot = IF @ = i THEN Null ELSE @,
                                    !.attendance = IF @ # Null /\ @.log = i THEN Null ELSE @]
    IN  [b \in Bookings |-> IF bookings[b] = Null THEN Null ELSE without(bookings[b])]

DeleteSlot(c) ==
    LET i == tx[c].slot
    IN  /\ pc[c] = "delete"
        /\ locks[i] = Null
        /\ IF Exists(i)
           THEN /\ slots' = [slots EXCEPT ![i] = Null]
                /\ bookings' = Orphaned(i)
                /\ excused' = excused \cup {slots[i].start}
                /\ disturbed' = (disturbed \/ (frequency = "THRICE_A_WEEK" /\ i \in SeriesSlots
                                              /\ \A x \in SeriesSlots : slots[x].start >= slots[i].start))
                /\ IF slots[i].inSeries THEN Goto(c, "countSeries", tx[c]) ELSE Answer(c)
           ELSE Answer(c) /\ UNCHANGED <<slots, bookings, excused, disturbed>>
        /\ UNCHANGED <<created, series, frequency, locks, now, history>>

CountSeries(c) ==
    /\ pc[c] = "countSeries"
    /\ IF SeriesSlots = {} THEN Goto(c, "deleteSeries", tx[c]) ELSE Answer(c)
    /\ UNCHANGED <<slotVars, bookings, locks, now, history>>

\* Slots inserted meanwhile lose their series.
DeleteSeries(c) ==
    /\ pc[c] = "deleteSeries"
    /\ series' = "deleted"
    /\ slots' = [i \in Ids |-> IF i \in SeriesSlots THEN [slots[i] EXCEPT !.inSeries = FALSE] ELSE slots[i]]
    /\ Answer(c)
    /\ UNCHANGED <<created, frequency, excused, disturbed, bookings, locks, now, history>>

-----------------------------------------------------------------------------
(* cancelEventScheduleSlot and revealCoachForSlot *)

ReadSlotToCancel(c) ==
    /\ \E a \in Asked(c, "cancel") :
         /\ Exists(a.slot)
         /\ ~slots[a.slot].cancelled
         /\ ~slots[a.slot].logged
         /\ slots[a.slot].start >= now
         /\ Begin(c, "cancel", [NoTx EXCEPT !.slot = a.slot])
    /\ UNCHANGED <<slotVars, bookings, locks, now, history>>

CancelSlot(c) ==
    LET i == tx[c].slot
        cancelled == {b \in Seated(i) : bookings[b].status \in {"PENDING", "CONFIRMED"}}
    IN  /\ pc[c] = "cancel"
        /\ locks[i] = Null
        /\ IF Exists(i)
           THEN /\ slots' = [slots EXCEPT ![i] = [@ EXCEPT !.cancelled = TRUE, !.active = FALSE]]
                /\ bookings' = [b \in Bookings |->
                                  IF b \in cancelled THEN [bookings[b] EXCEPT !.status = "CANCELLED"]
                                  ELSE bookings[b]]
                /\ withdrawn' = withdrawn \cup cancelled
                /\ restated' = restated \cup cancelled
           ELSE UNCHANGED <<slots, bookings, withdrawn, restated>>
        /\ Answer(c)
        /\ UNCHANGED <<created, series, frequency, excused, disturbed, locks, now, reassigned>>

Given(value, old) == IF value = Null THEN old ELSE value

ReadSlotToReveal(c) ==
    /\ Deferred
    /\ \E a \in Asked(c, "reveal") :
         /\ Exists(a.slot)
         /\ ~slots[a.slot].revealed
         /\ ~slots[a.slot].cancelled
         /\ Given(a.coach, slots[a.slot].coach) # Null
         /\ Begin(c, "reveal", [NoTx EXCEPT !.slot = a.slot,
                                            !.coach = Given(a.coach, slots[a.slot].coach)])
    /\ UNCHANGED <<slotVars, bookings, locks, now, history>>

\* mutant: bookings that have a coach keep it
RevealedToNewcomers(i, coach) ==
    [b \in Bookings |-> IF b \in Seated(i) /\ bookings[b].coach = Null
                       THEN [bookings[b] EXCEPT !.coach = coach] ELSE bookings[b]]

\* The bookings of the slot, one made while its lock was waited for included, get the coach.
Revealed(i, coach) ==
    [b \in Bookings |-> IF b \in Seated(i) THEN [bookings[b] EXCEPT !.coach = coach] ELSE bookings[b]]

RevealCoach(c) ==
    LET i == tx[c].slot
    IN  /\ pc[c] = "reveal"
        /\ locks[i] = Null
        /\ IF Exists(i)
           THEN /\ slots' = [slots EXCEPT ![i] = [@ EXCEPT !.coach = tx[c].coach, !.revealed = TRUE]]
                /\ bookings' = Revealed(i, tx[c].coach)
           ELSE UNCHANGED <<slots, bookings>>
        /\ Answer(c)
        /\ UNCHANGED <<created, series, frequency, excused, disturbed, locks, now, history>>

-----------------------------------------------------------------------------
(* upsertSessionLog *)

\* Attendance is noted of some bookings of the slot.  Which of them may be completed is read before the
\* transaction.
ReadBookingsToLog(c) ==
    /\ \E a \in Asked(c, "log") :
         /\ Exists(a.slot)
         /\ slots[a.slot].start <= now
         /\ \A b \in a.noted : bookings[b] # Null /\ bookings[b].slot = a.slot
         /\ Begin(c, "log",
                  [NoTx EXCEPT !.slot = a.slot, !.coach = a.coach, !.noted = a.noted, !.present = a.present,
                               !.open = {b \in Seated(a.slot) : bookings[b].status # "PENDING"}])
    /\ UNCHANGED <<slotVars, bookings, locks, now, history>>

\* mutant: the status of a session that was logged before is left alone
AttendedOnce(b, t) ==
    [bookings[b] EXCEPT !.attendance = [log |-> t.slot, attended |-> b \in t.present],
                        !.status = IF b \notin t.open \/ @ # "CONFIRMED" THEN @
                                   ELSE IF b \in t.present THEN "COMPLETED" ELSE "NO_SHOW"]

\* A row that there is stays with its log.
Attended(b, t) ==
    [bookings[b] EXCEPT !.attendance = [log |-> IF @ = Null THEN t.slot ELSE @.log,
                                        attended |-> b \in t.present],
                        !.status = IF b \notin t.open THEN @
                                   ELSE IF b \in t.present THEN "COMPLETED" ELSE "NO_SHOW"]

\* Either the coach is assigned in retrospect, or attendance is recorded; never both.
LogSession(c) ==
    LET t == tx[c]
        i == t.slot
    IN  /\ pc[c] = "log"
        /\ locks[i] = Null \/ (t.coach = Null /\ Exists(i) /\ slots[i].logged)
        /\ IF ~Exists(i) THEN UNCHANGED <<slots, bookings>>
           ELSE /\ slots' = [slots EXCEPT ![i] = [@ EXCEPT !.logged = TRUE,
                                                    !.coach = Given(t.coach, slots[i].coach)]]
                /\ bookings' = IF t.coach # Null THEN Revealed(i, t.coach)
                               ELSE [b \in Bookings |-> IF b \in t.noted /\ bookings[b] # Null
                                                       THEN Attended(b, t) ELSE bookings[b]]
        /\ Answer(c)
        /\ UNCHANGED <<created, series, frequency, excused, disturbed, locks, now, history>>

-----------------------------------------------------------------------------
(* Bookings: createBooking, rescheduleBooking, updateBooking and cancelBooking, see module Booking *)

\* A booking that there is, whatever its status, is rescheduled, to a session that has not begun.
MatchSlot(c) ==
    /\ \E a \in Asked(c, "book") :
         /\ a.start >= now
         /\ bookings[a.booking] # Null => a.start > now
         /\ \E i \in SlotsAt(a.start) :
              /\ slots[i].active
              /\ Begin(c, "seat", [NoTx EXCEPT !.slot = i, !.start = a.start, !.booking = a.booking,
                                               !.capacity = slots[i].capacity])
    /\ UNCHANGED <<slotVars, bookings, locks, now, history>>

\* Under the lock of the slot: its coach, or that of the session, or one the strategy picks
TakeSeat(c) ==
    LET t == tx[c]
        taken == {b \in Bookings : Counted(b) /\ bookings[b].start = t.start}
    IN  /\ pc[c] = "seat"
        /\ locks[t.slot] = Null
        /\ IF Exists(t.slot) /\ (t.capacity = Null \/ Cardinality(taken) < t.capacity)
           THEN /\ \E coach \in IF slots[t.slot].coach # Null THEN {slots[t.slot].coach}
                                ELSE IF taken # {} THEN {bookings[b].coach : b \in taken}
                                ELSE Coaches :
                     Goto(c, "book", [t EXCEPT !.coach = coach])
                /\ locks' = [locks EXCEPT ![t.slot] = c]
           ELSE Answer(c) /\ UNCHANGED locks
        /\ UNCHANGED <<slotVars, bookings, now, history>>

\* The attendance of a booking that is rescheduled is left as it is.
BookSeat(c) ==
    LET t == tx[c]
        b == t.booking
    IN  /\ pc[c] = "book"
        /\ bookings' = [bookings EXCEPT ![b] =
                           [status |-> "CONFIRMED", slot |-> t.slot, start |-> t.start, coach |-> t.coach,
                            attendance |-> IF @ = Null THEN Null ELSE @.attendance]]
        /\ locks' = [locks EXCEPT ![t.slot] = Null]
        /\ withdrawn' = withdrawn \ {b}
        /\ restated' = IF bookings[b] = Null THEN restated ELSE restated \cup {b}
        /\ Answer(c)
        /\ UNCHANGED <<slotVars, now, reassigned>>

\* Any status is written over any other; a cancellation writes CANCELLED.
SetStatus(c) ==
    /\ \E a \in Asked(c, "status") :
         /\ bookings[a.booking] # Null
         /\ bookings' = [bookings EXCEPT ![a.booking].status = a.status]
         /\ withdrawn' = IF a.status = "CANCELLED" THEN withdrawn \cup {a.booking} ELSE withdrawn
         /\ restated' = restated \cup {a.booking}
    /\ Begin(c, "done", NoTx)
    /\ UNCHANGED <<slotVars, locks, now, reassigned>>

\* The process dies, or the database does not answer.
GiveUp(c) ==
    /\ pc[c] \notin {"idle", "done"}
    /\ locks' = [i \in Ids |-> IF locks[i] = c THEN Null ELSE locks[i]]
    /\ Answer(c)
    /\ UNCHANGED <<slotVars, bookings, now, history>>

Tick ==
    /\ now < MaxNow
    /\ now' = now + 1
    /\ UNCHANGED <<slotVars, bookings, locks, pc, tx, history>>

-----------------------------------------------------------------------------
Receive(c) ==
    \/ CreateSlot(c) \/ CreateSeries(c) \/ ListSlots(c) \/ StopSeries(c) \/ ResumeSeries(c)
    \/ ReadSlotToUpdate(c) \/ CountBookings(c) \/ ReadSlotToCancel(c) \/ ReadSlotToReveal(c)
    \/ ReadBookingsToLog(c) \/ MatchSlot(c) \/ SetStatus(c)

Serve(c) ==
    \/ InsertSlot(c) \/ InsertSeries(c)
    \/ ReadSeries(c) \/ Deactivate(c) \/ ReadAnchor(c) \/ Replenish(c)
    \/ UpdateSlot(c) \/ Cascade(c)
    \/ DeleteSlot(c) \/ CountSeries(c) \/ DeleteSeries(c)
    \/ CancelSlot(c) \/ RevealCoach(c) \/ LogSession(c)
    \/ TakeSeat(c) \/ BookSeat(c)

Next == Tick \/ \E c \in Calls : Receive(c) \/ Serve(c) \/ GiveUp(c)

Spec == Init /\ [][Next]_vars

-----------------------------------------------------------------------------
(* Properties *)

LocalType ==
    [slot: Ids \cup {Null}, start: Nat \cup {Null}, coach: Coaches \cup {Null},
     capacity: Nat \cup {Null}, phase: 0..2, until: Nat, active: BOOLEAN, cancelled: BOOLEAN,
     fields: SUBSET Fields, coachChanged: BOOLEAN, cascaded: SUBSET {"start", "coach"},
     booking: Bookings \cup {Null}, noted: SUBSET Bookings, present: SUBSET Bookings,
     open: SUBSET Bookings]

\* Types of the tables and of the handlers; identifiers beyond those used have no row, and a booking
\* refers to a slot that exists, as does its attendance, whatever was deleted while they were made.
TypeOK ==
    /\ slots \in [Ids -> Slot \cup {Null}]
    /\ created \in 0..MaxSlots
    /\ \A i \in Ids : i > created => slots[i] = Null
    /\ series \in SeriesStates
    /\ frequency \in Frequencies \cup {Null}
    /\ bookings \in [Bookings -> BookingRow \cup {Null}]
    /\ \A b \in Bookings : bookings[b] # Null =>
         /\ bookings[b].slot # Null => Exists(bookings[b].slot)
         /\ bookings[b].attendance # Null => Exists(bookings[b].attendance.log)
    /\ locks \in [Ids -> Calls \cup {Null}]
    /\ tx \in [Calls -> LocalType]

Anchor == CHOOSE d \in {slots[i].start : i \in SeriesSlots} : \A i \in SeriesSlots : d <= slots[i].start

\* Where a series that begins with the anchor has its sessions.  The day of a MONTHLY one is the
\* anchor's, or the last of the shortest month it has been through.
OnSeries(day) ==
    CASE frequency = "WEEKLY"                         -> (day - Anchor) % 7 = 0
      [] frequency \in {"BI_WEEKLY", "TWICE_A_MONTH"} -> (day - Anchor) % 14 = 0
      [] frequency = "THRICE_A_WEEK"                  -> (day - Anchor) % 7 \in {0, 2, 4}
      [] frequency = "MONTHLY"                        ->
           LET months == {m \in MonthStarts : MonthOf(Anchor) <= m /\ m <= day}
           IN  day - MonthOf(day)
                 = Min({Anchor - MonthOf(Anchor)} \cup {MonthAfter(m) - 1 - m : m \in months})

\* However many listings replenish the series at once, and whatever is deleted from its middle or
\* its end meanwhile, its slots sit on the days of a series that begins with its first slot, as
\* advanceRecurrenceFloating steps from one to the next.
SeriesKeepsItsDays ==
    ~disturbed => \A i \in SeriesSlots : OnSeries(slots[i].start)

\* No day of the series is passed over before its latest slot: a replenishment that has read an
\* older slot than another one, or that stops at its iteration limit, leaves no hole.
SeriesHasNoGaps ==
    ~disturbed => \A i \in SeriesSlots : \A d \in Anchor..slots[i].start :
        OnSeries(d) => SlotsAt(d) # {} \/ d \in excused

\* From the reveal on, the bookings of a slot have the coach of the slot, also those made or moved there
\* while it was revealed or logged (revealCoachForSlot, upsertSessionLog, createBooking,
\* rescheduleBooking).  Excepted are the slots whose coach updateEventScheduleSlot has changed, or
\* cleared, since: there the bookings follow in another statement, or never; and a booking that was
\* cancelled, which a log or a PATCH may revive.
RevealedCoachLeads ==
    \A i \in Ids \ reassigned :
        Exists(i) /\ slots[i].revealed =>
            \A b \in Seated(i) \ withdrawn : bookings[b].coach = slots[i].coach

\* Attendance and status of a booking are the work of the same log, whichever of several concurrent
\* logs, full or partial, comes last (upsertSessionLog), unless something else than a log has changed
\* the status: a cancellation, a PATCH and a reschedule leave the attendance as it is.
AttendanceMatchesStatus ==
    \A b \in Bookings \ restated :
        bookings[b] # Null /\ bookings[b].attendance # Null =>
            bookings[b].status = IF bookings[b].attendance.attended THEN "COMPLETED" ELSE "NO_SHOW"
=============================================================================
