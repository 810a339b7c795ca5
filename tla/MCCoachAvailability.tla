------------------------- MODULE MCCoachAvailability -------------------------
(***************************************************************************)
(* Two events booked against the coaches' calendars, without slots:        *)
(* consult rotates one coach, panel has a fixed lead and one rotating      *)
(* co-host.  The second session of c1 crosses midnight; that of c3, who is *)
(* a night ahead, runs into an exception.                                  *)
(***************************************************************************)
EXTENDS SlotListing, TLC

CONSTANTS consult, panel, c1, c2, c3, amy, bob, r1, r2, r3, r4

MCEvent ==
    LET base == [mode |-> "COACH_AVAILABILITY", interaction |-> "ONE_TO_ONE",
                 leadership |-> "SINGLE_COACH", strategy |-> "ROUND_ROBIN", fixedLead |-> Null,
                 anonymous |-> FALSE, coachChoice |-> FALSE, duration |-> 60, notice |-> 0,
                 buffer |-> 0, maxParticipants |-> Null, targetCoHosts |-> Null]
    IN  consult :> [base EXCEPT !.buffer = 15]
        @@ panel :> [base EXCEPT !.interaction = "MANY_TO_ONE", !.leadership = "FIXED_LEAD",
                                 !.fixedLead = c1, !.targetCoHosts = 1]

MCOrder == consult :> (c1 :> 1 @@ c2 :> 2) @@ panel :> (c1 :> 1 @@ c2 :> 2 @@ c3 :> 3)
MCZone == c1 :> 0 @@ c2 :> -300 @@ c3 :> 330
MCWeekly ==
    c1 :> {[weekday |-> 2, from |-> 540, to |-> LastMinute], [weekday |-> 3, from |-> 30, to |-> 1080]}
    @@ c2 :> {[weekday |-> 2, from |-> 540, to |-> 1080]}
    @@ c3 :> {[weekday |-> 3, from |-> 180, to |-> 420]}
MCOverride ==
    [e \in Events |-> [c \in Coaches |-> IF c = c2 THEN {[weekday |-> 2, from |-> 1020, to |-> 1170]} ELSE {}]]
MCExceptions ==
    c1 :> {[date |-> 3, blocked |-> FALSE, from |-> 0, to |-> 60]}
    @@ c2 :> {}
    @@ c3 :> {[date |-> 3, blocked |-> TRUE, from |-> 315, to |-> 360]}
MCCalendar == [e \in Events |-> [c \in Coaches |-> {t \in Starts : <<e, c, t>> \in AdmittedSessions}]]
MCNoSlots == [s \in Slots |-> Null]

\* Half past ten and a quarter past eleven in the evening, on a Tuesday
Early == 2 * Day + 1350
Late == 2 * Day + 1395
MCStarts == {Early, Late}
MCRanges == {[from |-> Early - 2 * Day, to |-> Late + 75 + 2 * Day]}

\* The student may ask for c2.  r1 is the request whose booking is changed and followed up;
\* the others are interchangeable.
MCCalls ==
    [op: {"create"}, event: {consult}, start: {Early}, student: Students, preferred: {Null}]
    \cup [op: {"create"}, event: {consult}, start: {Late}, student: {bob}, preferred: {c2}]
    \cup [op: {"create"}, event: {panel}, start: Starts, student: {bob}, preferred: {Null}]
    \cup [op: {"reschedule"}, booking: {r1}, start: Starts, token: {Null, 0}]
    \cup [op: {"followUp"}, booking: {r1}, start: {Late}]
    \cup [op: {"patch"}, booking: {r1}, status: {"COMPLETED"}]
    \cup [op: {"cancel"}, booking: {r1}, token: {0}]
    \cup [op: {"deactivateUser"}, user: {c1, c2}]

\* One booking of each event, at overlapping times
MCCrossEventCalls ==
    [op: {"create"}, event: {consult}, start: {Early}, student: {amy}, preferred: {Null}]
    \cup [op: {"create"}, event: {panel}, start: {Late}, student: {bob}, preferred: {Null}]

OtherRequests == Permutations({r2, r3, r4})
=============================================================================
