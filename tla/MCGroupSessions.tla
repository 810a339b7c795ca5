--------------------------- MODULE MCGroupSessions ---------------------------
(***************************************************************************)
(* Two group events whose slots all overlap: workshop has two slots of one *)
(* seat, the first for its designated coach and the second with a coach    *)
(* assigned to it, lecture has one slot with two seats and rotates its     *)
(* coaches.  Three requests, two students, every operation.                *)
(***************************************************************************)
EXTENDS Booking, TLC

CONSTANTS workshop, lecture, s1, s2, s3, c1, c2, c3, amy, bob, r1, r2, r3

MCEvent ==
    LET base == [mode |-> "FIXED_SLOTS", interaction |-> "ONE_TO_MANY",
                 leadership |-> "SINGLE_COACH", strategy |-> "ROUND_ROBIN", fixedLead |-> Null,
                 anonymous |-> FALSE, coachChoice |-> FALSE, duration |-> 2, notice |-> 0,
                 buffer |-> 0, maxParticipants |-> 2, targetCoHosts |-> Null]
    IN  workshop :> [base EXCEPT !.strategy = "DIRECT"] @@ lecture :> base

MCOrder == workshop :> (c1 :> 1 @@ c3 :> 2) @@ lecture :> (c1 :> 1 @@ c2 :> 2)
MCCalendar == [e \in Events |-> [c \in Coaches |-> Starts]]
MCSlotEvent == s1 :> workshop @@ s2 :> lecture @@ s3 :> workshop
MCSlotCapacity == s1 :> 1 @@ s2 :> Null @@ s3 :> 1
MCInitialSlots ==
    s1 :> [start |-> 1, coach |-> Null, active |-> TRUE, cancelled |-> FALSE]
    @@ s2 :> [start |-> 2, coach |-> Null, active |-> TRUE, cancelled |-> FALSE]
    @@ s3 :> [start |-> 2, coach |-> c3, active |-> TRUE, cancelled |-> FALSE]
MCStarts == {1, 2}

MCCalls ==
    [op: {"create"}, event: {workshop}, start: {1}, student: {amy}, preferred: {Null}]
    \cup [op: {"create"}, event: {workshop}, start: {2}, student: {bob}, preferred: {Null}]
    \cup [op: {"create"}, event: {lecture}, start: {2}, student: Students, preferred: {Null}]
    \cup [op: {"reschedule"}, booking: {r1}, start: Starts, token: {Null, 0}]
    \cup [op: {"reschedule"}, booking: {r2}, start: Starts, token: {Null}]
    \cup [op: {"followUp"}, booking: {r1}, start: {2}]
    \cup [op: {"cancel"}, booking: {r1}, token: {Null, 0}]
    \cup [op: {"patch"}, booking: {r1}, status: {"COMPLETED"}]
    \cup [op: {"cancelSlot"}, slot: {s2, s3}]
    \cup [op: {"deactivateUser"}, user: {c1}]

\* A student books while staff cancel the slot
MCCancelSlotCalls ==
    [op: {"create"}, event: {lecture}, start: {2}, student: Students, preferred: {Null}]
    \cup [op: {"cancelSlot"}, slot: {s2}]

\* A student opens the reschedule and the cancellation link of the same booking
MCLinkCalls ==
    [op: {"create"}, event: {lecture}, start: {2}, student: {amy}, preferred: {Null}]
    \cup [op: {"reschedule"}, booking: {r1}, start: {2}, token: {0}]
    \cup [op: {"cancel"}, booking: {r1}, token: {0}]
=============================================================================
