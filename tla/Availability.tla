---------------------------- MODULE Availability ----------------------------
(***************************************************************************)
(* When the calendar of a coach admits a session: evaluateCoachAvailability *)
(* (coachAvailability.service.ts, availability.shared.ts) after its check  *)
(* for conflicts.                                                          *)
(*                                                                         *)
(* A time is a number of minutes since a Sunday at 0:00 UTC, a date is a   *)
(* number of days.  A time zone is an offset, without daylight saving.     *)
(***************************************************************************)
EXTENDS SchedulingData

CONSTANTS
    Zone,           \* Zone[c]: minutes by which the local time of c is ahead of UTC
    Weekly,         \* Weekly[c]: the UserWeeklyAvailability rows of c
    Override,       \* Override[e][c]: the EventCoachWeeklyAvailability rows of c for e
    Exceptions      \* Exceptions[c]: the UserAvailabilityException rows of c

Day == 1440

Clock == 0..Day - 1     \* "HH:mm"

LastMinute == Day - 1   \* "23:59"

Window == [weekday: 0..6, from: Clock, to: Clock]

\* Blocked all day (without times), blocked for some hours, or open for some hours
Exception ==
    [date: Int, blocked: {TRUE}, from: {Null}, to: {Null}]
    \cup [date: Int, blocked: BOOLEAN, from: Clock, to: Clock]

\* No place is a day ahead of UTC.  The schema does not exclude two exceptions on one date; then
\* findMany decides which one counts.
ASSUME AvailabilityAssumption ==
    /\ Zone \in [Coaches -> 1 - Day..Day - 1]
    /\ \A c \in Coaches :
         /\ Weekly[c] \subseteq Window
         /\ \A e \in Events : Override[e][c] \subseteq Window
         /\ Exceptions[c] \subseteq Exception
         /\ \A x, y \in Exceptions[c] : x.date = y.date => x = y

\* toLocalAvailabilityInfo
LocalTime(c, t) == [date |-> (t + Zone[c]) \div Day, minute |-> (t + Zone[c]) % Day]

\* An exception has the timestamp of midnight UTC.
ExceptionsBetween(c, from, to) == {x \in Exceptions[c] : x.date * Day \in from..to}

\* Whether a blocking exception stands in the way of a session between two times of its date
Clashes(x, from, to) == x.from = Null \/ (from < x.to /\ to > x.from)

\* mutant: granted hours are added to the weekly ones
DateAdmitsEither(hours, exceptions, date, from, to) ==
    LET today == {x \in exceptions : x.date = date}
    IN  /\ \A x \in today : x.blocked => ~Clashes(x, from, to)
        /\ \/ \E x \in today : ~x.blocked /\ from >= x.from /\ to <= x.to
           \/ \E w \in hours : w.weekday = date % 7 /\ from >= w.from /\ to <= w.to

\* One part of a session within a date: what a blocking exception leaves open is decided by the weekly
\* hours; an exception that grants some hours closes the rest of its date.
DateAdmits(hours, exceptions, date, from, to) ==
    LET today == {x \in exceptions : x.date = date}
        granted == {x \in today : ~x.blocked}
    IN  /\ \A x \in today \ granted : ~Clashes(x, from, to)
        /\ IF granted # {}
           THEN \E x \in granted : from >= x.from /\ to <= x.to
           ELSE \E w \in hours : w.weekday = date % 7 /\ from >= w.from /\ to <= w.to

HoursFor(e, c) == IF Override[e][c] # {} THEN Override[e][c] ELSE Weekly[c]

\* A session that ends on the next date, be it at midnight, is split.
AcrossMidnightAdmits(hours, exceptions, s, x) ==
    /\ DateAdmits(hours, exceptions, s.date, s.minute, LastMinute)
    /\ DateAdmits(hours, exceptions, s.date + 1, 0, x.minute)

\* In FIXED_SLOTS events nothing but the exceptions counts, and not even these across midnight.
CalendarAdmits(e, c, exceptions, start, end) ==
    LET s == LocalTime(c, start)
        x == LocalTime(c, end)
        hours == IF Fixed(e) THEN [weekday: 0..6, from: {0}, to: {LastMinute}] ELSE HoursFor(e, c)
    IN  IF s.date = x.date
        THEN DateAdmits(hours, exceptions, s.date, s.minute, x.minute)
        ELSE Fixed(e) \/ AcrossMidnightAdmits(hours, exceptions, s, x)

\* What a booking asks of the calendar; it fetches the exceptions of two more days on either side.
BookingAdmits(e, c, t) ==
    CalendarAdmits(e, c, ExceptionsBetween(c, t - 2 * Day, End(e, t) + 2 * Day), t, End(e, t))

Grid == 15          \* intervalMs of the listing

WeekStarts == Starts \cup {Grid * n : n \in 0..(7 * Day) \div Grid}

\* The coaches and starts of a COACH_AVAILABILITY event, in a week, that the calendars admit
AdmittedSessions ==
    UNION {{<<e, c, t>> : t \in {x \in WeekStarts : BookingAdmits(e, c, x)}} :
             e \in {x \in Events : ~Fixed(x)}, c \in Coaches}

-----------------------------------------------------------------------------
(* The reference: the calendar minute by minute.  Hours granted for a date *)
(* replace its weekly hours, as the code has it; the comment of            *)
(* resolveAvailabilityFromException defers to them instead.                *)

Covers(w, minute) == w.from <= minute /\ (minute < w.to \/ w.to = LastMinute)

OpenAt(e, c, t) ==
    LET here == LocalTime(c, t)
        today == {x \in Exceptions[c] : x.date = here.date}
        granted == {x \in today : ~x.blocked}
    IN  /\ \A x \in today \ granted : x.from # Null /\ here.minute \notin x.from..x.to - 1
        /\ IF granted # {}
           THEN \E x \in granted : Covers(x, here.minute)
           ELSE \E w \in HoursFor(e, c) : w.weekday = here.date % 7 /\ Covers(w, here.minute)

OpenThroughout(e, c, t) == \A m \in t..End(e, t) - 1 : OpenAt(e, c, m)

\* Those with open hours to the last minute
OpenSessions ==
    UNION {{<<e, c, t>> : t \in {x \in WeekStarts : OpenThroughout(e, c, x)}} : e \in Events, c \in Coaches}
=============================================================================
