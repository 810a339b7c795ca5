---------------------------- MODULE SlotListing ----------------------------
(***************************************************************************)
(* What a student is shown: getAvailableSlots (availability.service.ts)    *)
(* over the rows that the booking transactions write.  It reads without    *)
(* locks, and decides by a code of its own what a booking decides later.   *)
(*                                                                         *)
(* The end of a range has been cut to the booking window.  Replenishing a  *)
(* series is modelled in SlotAdmin; its visibility limit is left out.      *)
(***************************************************************************)
EXTENDS Booking, Availability

CONSTANTS
    Ranges,         \* the ranges that a client may ask for
    Margin          \* BUFFER_MS

ASSUME ListingAssumption ==
    /\ Ranges \subseteq [from: Nat, to: Nat]
    /\ Margin \in Nat

\* The calendars that a booking consults are those that Availability describes.
ASSUME CalendarAssumption ==
    \A e \in Events, c \in Coaches : Calendar[e][c] = {t \in Starts : BookingAdmits(e, c, t)}

\* The end of a session with the buffer after it, which a booking does not look at
EffectiveEnd(e, t) == End(e, t) + Event[e].buffer

\* Of a COACH_AVAILABILITY event the exceptions are fetched once, for the range that is listed.
ListedExceptions(e, c, range, t) ==
    IF Fixed(e) THEN ExceptionsBetween(c, t - 2 * Day, EffectiveEnd(e, t) + 2 * Day)
    ELSE ExceptionsBetween(c, range.from, EffectiveEnd(e, range.to))

CalendarShows(e, c, range, t) ==
    CalendarAdmits(e, c, ListedExceptions(e, c, range, t), t, EffectiveEnd(e, t))

\* The coaches and starts of an event whose calendars the listing of a range finds open
ListedSessions ==
    UNION {{<<e, c, range, t>> : t \in {x \in Starts : CalendarShows(e, c, range, x)}} :
             e \in Events, c \in Coaches, range \in Ranges}

\* filterConflictsForSlot
InTheWay(e0, t0, e, t) ==
    /\ t0 < EffectiveEnd(e, t)
    /\ End(e0, t0) > t - Lookback
    /\ t < EffectiveEnd(e0, t0)

\* mutant: a session that the coach only joins is not looked for
BookingInTheWayOfLead(x, c, e, t, s) ==
    /\ Active(x)
    /\ c = bookings[x].coach
    /\ Fixed(e) => bookings[x].slot \notin {s, Null}
    /\ InTheWay(bookings[x].event, bookings[x].start, e, t)

\* For a FIXED_SLOTS event the query says NOT scheduleSlotId = s, which NULL does not satisfy either.
BookingInTheWay(x, c, e, t, s) ==
    /\ Active(x)
    /\ c \in Staff(x)
    /\ Fixed(e) => bookings[x].slot \notin {s, Null}
    /\ InTheWay(bookings[x].event, bookings[x].start, e, t)

SlotInTheWay(x, c, e, t, s) ==
    /\ slots[x].coach = c
    /\ slots[x].active /\ ~slots[x].cancelled
    /\ Fixed(e) => x # s
    /\ InTheWay(SlotEvent[x], slots[x].start, e, t)

ShownFree(c, e, t, s, range) ==
    /\ <<e, c, range, t>> \in ListedSessions
    /\ \A x \in Requests : ~BookingInTheWay(x, c, e, t, s)
    /\ \A x \in Slots : ~SlotInTheWay(x, c, e, t, s)

\* mutant: the seats taken on a slot are not counted
SeatsShownUncounted(s) == SeatLimit(s) = Null \/ SeatLimit(s) > 0

\* countActiveBookingsForSlot: by the slot, whereas a booking counts by event and start
SeatsShown(s) ==
    \/ SeatLimit(s) = Null
    \/ Cardinality({b \in Requests : Counted(b) /\ bookings[b].slot = s}) < SeatLimit(s)

\* One of these coaches has to be free.
ShownCoaches(e, s, preferred) ==
    LET eligible == IF preferred = Null THEN Pool(e) ELSE Pool(e) \cap {preferred}
    IN  IF eligible = {} THEN {}
        ELSE IF s # Null /\ slots[s].coach # Null THEN {slots[s].coach}
        ELSE IF Event[e].strategy = "DIRECT" /\ preferred = Null THEN {FirstCoach(e)}
        ELSE eligible

\* The starts that exist: those of the active slots, or of a grid
Candidate(e, t, s) ==
    IF Fixed(e)
    THEN s # Null /\ SlotEvent[s] = e /\ slots[s].start = t /\ slots[s].active
    ELSE s = Null /\ t % Grid = 0

Offered(e, t, s, preferred, range) ==
    /\ Candidate(e, t, s)
    /\ range.from <= t /\ t < range.to
    /\ t > now + Margin
    /\ NoticeSatisfied(e, t)
    /\ s # Null => SeatsShown(s)
    /\ \E c \in ShownCoaches(e, s, preferred) : ShownFree(c, e, t, s, range)

-----------------------------------------------------------------------------
(* Properties *)

\* What a booking of e at t would decide if it ran now, by itself
Accepted(e, t, preferred) ==
    /\ Bookable(e, t)
    /\ Selections(e, t, MatchingSlot(e, t), preferred, Null) # {}
    /\ Fixed(e) => SeatAvailable(e, t, MatchingSlot(e, t))

\* Of these the calendars of all dates that matter have been fetched.
Generous(range, e, t) == range.from + 2 * Day <= t /\ EffectiveEnd(e, t) + 2 * Day <= range.to

OneHost(e) ==
    /\ Event[e].leadership = "SINGLE_COACH"
    /\ Event[e].strategy = "DIRECT" => Event[e].fixedLead \in {Null, FirstCoach(e)}

NobodyOffSlots == \A b \in Requests : Active(b) => bookings[b].slot # Null

\* A start that is shown can be booked, in every state that the booking transactions reach: the
\* listing counts, filters and looks at calendars on its own, "mirroring" the booking.  It holds for
\* events with one host, whose designated coach, if any, comes first; where coaches are booked by
\* their calendars, away from the ends of the range, as exceptions are fetched for the range only;
\* and for slots, unless somebody is booked without a slot.  A slot of which only the buffer crosses
\* the coach's midnight may break it: its listing passes over the exceptions of the day.
OfferedIsBookable ==
    \A e \in {x \in Events : OneHost(x)}, t \in Starts, s \in Slots \cup {Null} :
        Candidate(e, t, s) /\ (Fixed(e) => NobodyOffSlots) =>
            \A preferred \in Pool(e) \cup {Null} :
                (\E range \in Ranges : /\ Fixed(e) \/ Generous(range, e, t)
                                       /\ Offered(e, t, s, preferred, range))
                    => Accepted(e, t, preferred)

\* Every minute of a session that coaches were picked for lies in the hours of all its staff, in
\* their own time zones, across midnight, exceptions included (isCoachAvailableAcrossMidnight,
\* resolveAvailabilityFromException, isWithinWeeklyAvailability); and it would at every other
\* quarter of an hour of the week that the calendars admit.  Hours granted for a date are all the hours
\* of that date.
BookedInsideHours ==
    LET booked == {b \in Requests : Active(b) /\ ~Fixed(bookings[b].event)}
        sessions(b) == {<<bookings[b].event, c, bookings[b].start>> : c \in Staff(b) \ {Null}}
    IN  (UNION {sessions(b) : b \in booked}) \cup AdmittedSessions \subseteq OpenSessions
=============================================================================
