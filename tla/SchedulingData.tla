--------------------------- MODULE SchedulingData ---------------------------
(***************************************************************************)
(* The rows the booking domain reads and writes, and the pure rules over   *)
(* them: backend/prisma/schema.prisma (Event, EventScheduleSlot, Booking,  *)
(* EventRoutingState, User) and backend/src/domain/scheduling.             *)
(*                                                                         *)
(* Time is a natural number of ticks.  A booking is named by the request   *)
(* that created it, so the set of booking identifiers is Requests and a    *)
(* booking whose status is "VACANT" has not been created.  All events      *)
(* belong to one team.                                                     *)
(***************************************************************************)
EXTENDS Integers, FiniteSets

CONSTANTS
    Events, Slots, Coaches, Students,
    Requests,       \* HTTP requests, each served once
    Null,           \* SQL NULL, and the absence of an optional argument
    Event,          \* Event[e]: the configuration of event e
    Order,          \* Order[e]: coachOrder of each coach of the active pool of e
    Calendar,       \* Calendar[e][c]: the starts coach c's calendar admits for e
    SlotEvent,      \* SlotEvent[s]: the event that slot s belongs to
    SlotCapacity,   \* SlotCapacity[s]: EventScheduleSlot.capacity
    InitialSlots,   \* the slot rows the run starts from
    Starts,         \* the instants at which sessions may start
    Lookback        \* the 120 minutes the conflict queries look back

VARIABLES
    bookings,       \* bookings[b]: the Booking row
    slots,          \* slots[s]: the EventScheduleSlot row
    routing,        \* routing[e]: EventRoutingState.nextCoachOrder
    userActive,     \* the coaches whose User.isActive is true
    now             \* the clock

Statuses == {"PENDING", "CONFIRMED", "CANCELLED", "COMPLETED", "NO_SHOW"}
ActiveStatuses == {"PENDING", "CONFIRMED"}

EventConfig ==
    [mode: {"FIXED_SLOTS", "COACH_AVAILABILITY"},
     interaction: {"ONE_TO_ONE", "ONE_TO_MANY", "MANY_TO_ONE", "MANY_TO_MANY"},
     leadership: {"SINGLE_COACH", "FIXED_LEAD", "ROTATING_LEAD"},
     strategy: {"DIRECT", "ROUND_ROBIN"},
     fixedLead: Coaches \cup {Null},
     anonymous: BOOLEAN,             \* allowAnonymousBooking
     coachChoice: BOOLEAN,           \* allowStudentCoachChoice
     duration: Nat \ {0},
     notice: Nat,                    \* minimumNoticeMinutes
     buffer: Nat,                    \* bufferAfterMinutes
     maxParticipants: Nat \cup {Null},
     targetCoHosts: Nat \cup {Null}]

Booking ==
    [status: Statuses \cup {"VACANT"},
     event: Events \cup {Null},
     start: Starts \cup {Null},
     coach: Coaches \cup {Null},
     coHosts: SUBSET Coaches,
     student: Students \cup {Null},
     slot: Slots \cup {Null},
     token: Nat]                     \* rescheduleToken, by how often it was rotated

Slot == [start: Starts, coach: Coaches \cup {Null}, active: BOOLEAN, cancelled: BOOLEAN]

\* Null is a value of its own, and the constants describe rows of the schema.
ASSUME NullAssumption ==
    /\ Null \notin Events \cup Slots \cup Coaches \cup Students
    /\ Null \notin Requests
    /\ Null \notin Nat

ASSUME DataAssumption ==
    /\ Starts \subseteq Nat
    /\ Lookback \in Nat
    /\ Event \in [Events -> EventConfig]
    /\ SlotEvent \in [Slots -> Events]
    /\ SlotCapacity \in [Slots -> Nat \cup {Null}]
    /\ InitialSlots \in [Slots -> Slot]
    /\ IsFiniteSet(Requests)
    /\ IsFiniteSet(Slots)

\* EventScheduleSlot is unique in (eventId, startTime), EventCoach in (eventId, coachOrder),
\* and group interaction types are always FIXED_SLOTS.
ASSUME SchemaAssumption ==
    /\ \A s, x \in Slots : SlotEvent[s] = SlotEvent[x] /\ InitialSlots[s].start = InitialSlots[x].start
                             => s = x
    /\ \A e \in Events :
         /\ DOMAIN Order[e] \subseteq Coaches
         /\ \A c \in DOMAIN Order[e] : Order[e][c] \in Nat
         /\ \A c, d \in DOMAIN Order[e] : Order[e][c] = Order[e][d] => c = d
         /\ Event[e].interaction \in {"ONE_TO_MANY", "MANY_TO_MANY"} => Event[e].mode = "FIXED_SLOTS"

-----------------------------------------------------------------------------
VacantBooking ==
    [status |-> "VACANT", event |-> Null, start |-> Null, coach |-> Null, coHosts |-> {},
     student |-> Null, slot |-> Null, token |-> 0]

End(e, t) == t + Event[e].duration

Fixed(e) == Event[e].mode = "FIXED_SLOTS"

\* INTERACTION_TYPE_CAPS[...].multipleParticipants
Group(e) == Event[e].interaction \in {"ONE_TO_MANY", "MANY_TO_MANY"}

Exists(b) == bookings[b].status # "VACANT"

\* status in (PENDING, CONFIRMED): what the overlap and conflict queries look at
Active(b) == bookings[b].status \in ActiveStatuses

\* status not CANCELLED: what the capacity, load and group-session queries look at
Counted(b) == bookings[b].status \notin {"VACANT", "CANCELLED"}

Staff(b) == {bookings[b].coach} \cup bookings[b].coHosts

\* Half-open intervals: a session of e at t and one of e2 at t2 share an instant.
Overlap(e, t, e2, t2) == t < End(e2, t2) /\ t2 < End(e, t)

\* The session of booking b shares an instant with a session of e at t.
OverlapsBooking(b, e, t) == Overlap(e, t, bookings[b].event, bookings[b].start)

\* resolveMatchingScheduleSlot: isActive is the only flag it looks at
MatchingSlot(e, t) ==
    LET found == {s \in Slots : SlotEvent[s] = e /\ slots[s].start = t /\ slots[s].active}
    IN  IF found = {} THEN Null ELSE CHOOSE s \in found : TRUE

\* getEffectiveParticipantPolicy for a FIXED_SLOTS booking on slot s; Null is "no limit"
SeatLimit(s) ==
    LET e == SlotEvent[s]
    IN  IF ~Group(e) THEN 1
        ELSE IF SlotCapacity[s] # Null THEN SlotCapacity[s]
        ELSE Event[e].maxParticipants

\* countActiveParticipantsForTime
ParticipantsAt(e, t) ==
    Cardinality({b \in Requests : Counted(b) /\ bookings[b].event = e /\ bookings[b].start = t})

\* mutant: the last comparison of the capacity check off by one
SeatAvailableOffByOne(e, t, s) ==
    SeatLimit(s) = Null \/ ParticipantsAt(e, t) <= SeatLimit(s)

\* assertParticipantCapacityAvailable
SeatAvailable(e, t, s) ==
    SeatLimit(s) = Null \/ ParticipantsAt(e, t) < SeatLimit(s)

\* assertBookingNoticeSatisfied (it implies the check of parseBookingStartTime)
NoticeSatisfied(e, t) == t >= now + Event[e].notice

\* assertStudentNotOverlapping, booking b excluded
StudentFree(student, e, t, b) ==
    \A x \in Requests \ {b} :
        Active(x) /\ bookings[x].student = student => ~OverlapsBooking(x, e, t)
=============================================================================
