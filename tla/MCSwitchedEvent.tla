--------------------------- MODULE MCSwitchedEvent ---------------------------
(***************************************************************************)
(* An event with several coaches and one student whose booking mode was    *)
(* changed from FIXED_SLOTS to COACH_AVAILABILITY while one of its slots   *)
(* was live: a start that has the slot locks its row, any other start      *)
(* locks the row of the event.                                             *)
(***************************************************************************)
EXTENDS Booking, TLC

CONSTANTS panel, s1, c1, c2, amy, bob, r1, r2

MCEvent ==
    panel :> [mode |-> "COACH_AVAILABILITY", interaction |-> "MANY_TO_ONE",
              leadership |-> "ROTATING_LEAD", strategy |-> "ROUND_ROBIN", fixedLead |-> Null,
              anonymous |-> FALSE, coachChoice |-> FALSE, duration |-> 2, notice |-> 0,
              buffer |-> 0, maxParticipants |-> 1, targetCoHosts |-> 0]

MCOrder == panel :> (c1 :> 1 @@ c2 :> 2)
MCCalendar == panel :> [c \in Coaches |-> Starts]
MCSlotEvent == s1 :> panel
MCSlotCapacity == s1 :> Null
MCInitialSlots == s1 :> [start |-> 1, coach |-> Null, active |-> TRUE, cancelled |-> FALSE]
MCStarts == {1, 2}

MCCalls ==
    [op: {"create"}, event: {panel}, start: Starts, student: Students, preferred: {Null}]
=============================================================================
