--------------------------- MODULE CoachAssignment --------------------------
(***************************************************************************)
(* Who runs a session: bookingAssignmentResolver.service.ts and the two    *)
(* strategies of assignment.service.ts, as operators over the rows.        *)
(*                                                                         *)
(* A selection is a record: the lead (Null for an anonymous event), the    *)
(* co-hosts, and the rotation cursor the request will write (Null when it  *)
(* writes none).  The operators return the set of selections the code may  *)
(* make; the empty set is a rejection with a 4xx.                          *)
(***************************************************************************)
EXTENDS SchedulingData

Pool(e) == DOMAIN Order[e]

\* A pool is finite, so it has a last coach; orders count from 1 (EventCoach.coachOrder).
ASSUME PoolAssumption ==
    \A e \in Events :
        /\ IsFiniteSet(Pool(e))
        /\ \A c \in Pool(e) : Order[e][c] >= 1
        /\ Pool(e) # {} => \E c \in Pool(e) : \A d \in Pool(e) : Order[e][d] <= Order[e][c]

MaxOrder(e) ==
    LET orders == {Order[e][c] : c \in Pool(e)}
    IN  CHOOSE m \in orders : \A o \in orders : o <= m

FirstCoach(e) == CHOOSE c \in Pool(e) : \A d \in Pool(e) : Order[e][c] <= Order[e][d]

-----------------------------------------------------------------------------
(* Conflicts and availability *)

\* A session of e0 at t0, with the buffer of e0 after it, stands in the way of one of e at t.
Blocks(e0, t0, e, t) ==
    /\ t0 < End(e, t)
    /\ End(e0, t0) > t - Lookback
    /\ t < End(e0, t0) + Event[e0].buffer

\* Bookings of the same FIXED_SLOTS slot are one session; booking b is the one being moved.
BookingConflict(c, e, t, s, b) ==
    \E x \in Requests \ {b} :
        /\ Active(x)
        /\ c \in Staff(x)
        /\ ~(Fixed(e) /\ bookings[x].slot = s)
        /\ Blocks(bookings[x].event, bookings[x].start, e, t)

SlotConflict(c, e, t, s) ==
    \E x \in Slots :
        /\ slots[x].coach = c
        /\ slots[x].active /\ ~slots[x].cancelled
        /\ ~(Fixed(e) /\ x = s)
        /\ Blocks(SlotEvent[x], slots[x].start, e, t)

FreeCoaches(e, t, s, b) ==
    {c \in Pool(e) :
        /\ t \in Calendar[e][c]
        /\ ~BookingConflict(c, e, t, s, b)
        /\ ~SlotConflict(c, e, t, s)}

-----------------------------------------------------------------------------
(* The strategies *)

\* Sessions a coach leads: bookings not cancelled, and live slots assigned to the coach.
Load(c) ==
    Cardinality({b \in Requests : Counted(b) /\ bookings[b].coach = c})
    + Cardinality({s \in Slots : slots[s].coach = c /\ slots[s].active /\ ~slots[s].cancelled})

\* Position of c in the rotation that starts at the cursor.
Rank(e, c, cursor) ==
    IF Order[e][c] >= cursor THEN Order[e][c] ELSE Order[e][c] + MaxOrder(e)

\* updateRoutingState: (coachOrder % maxOrder) + 1, where maxOrder is the last order of the pool
CursorAfter(e, c) ==
    IF \A d \in Pool(e) : Order[e][d] <= Order[e][c] THEN 1 ELSE Order[e][c] + 1

RunsBefore(e, c, d) ==
    \/ Load(c) < Load(d)
    \/ Load(c) = Load(d) /\ Rank(e, c, routing[e]) < Rank(e, d, routing[e])

Lone(c) == [coach |-> c, coHosts |-> {}, cursor |-> Null]

StrategyLead(e, free) ==
    IF Event[e].strategy = "DIRECT"
    THEN {Lone(c) : c \in {FirstCoach(e)} \cap free}
    ELSE {[Lone(c) EXCEPT !.cursor = CursorAfter(e, c)] :
            c \in {x \in free : \A d \in free \ {x} : RunsBefore(e, x, d)}}

-----------------------------------------------------------------------------
(* The decision tree of resolveBookingCoachSelection *)

\* A preferred coach is pinned under DIRECT; under ROUND_ROBIN it is only tried first.
SingleHost(e, free, preferred) ==
    LET wanted == IF Event[e].strategy = "DIRECT" /\ preferred = Null
                  THEN Event[e].fixedLead ELSE preferred
    IN  IF wanted \in free THEN {Lone(wanted)}
        ELSE IF wanted = Null \/ Event[e].strategy = "ROUND_ROBIN" THEN StrategyLead(e, free)
        ELSE {}

\* mutant: the lead is not skipped, and the first free coach joins whatever the target
WithCoHostsLeadIncluded(e, free, lead) ==
    {[lead EXCEPT !.coHosts = {c}, !.cursor = CursorAfter(e, c)] : c \in free}

\* Co-hosts are the first free coaches after the cursor, which advances past each of them.
WithCoHosts(e, free, lead) ==
    LET cursor == IF lead.cursor = Null THEN routing[e] ELSE lead.cursor
        others == free \ {lead.coach}
        ahead(c) == {d \in others : Rank(e, d, cursor) < Rank(e, c, cursor)}
        chosen == {c \in others : \/ Event[e].targetCoHosts = Null
                                  \/ Cardinality(ahead(c)) < Event[e].targetCoHosts}
        last   == {c \in chosen : \A d \in chosen : Rank(e, d, cursor) <= Rank(e, c, cursor)}
    IN  {[lead EXCEPT !.coHosts = chosen, !.cursor = x] :
            x \in IF chosen = {} THEN {lead.cursor} ELSE {CursorAfter(e, c) : c \in last}}

CollaborativeTeam(e, free) ==
    LET pinned == \/ Event[e].leadership = "FIXED_LEAD"
                  \/ Event[e].strategy = "DIRECT" /\ Event[e].fixedLead # Null
        leads  == IF pinned THEN {Lone(c) : c \in {Event[e].fixedLead} \cap free}
                  ELSE StrategyLead(e, free)
    IN  UNION {WithCoHosts(e, free, lead) : lead \in leads}

\* A group session that exists already: reuse its team, the slot's coach being authoritative.
SessionTeams(e, t, s) ==
    {[coach   |-> IF s # Null /\ slots[s].coach # Null THEN slots[s].coach ELSE bookings[x].coach,
      coHosts |-> bookings[x].coHosts,
      cursor  |-> Null] :
        x \in {y \in Requests : Counted(y) /\ bookings[y].event = e /\ bookings[y].start = t}}

Selections(e, t, s, preferred, b) ==
    LET free     == FreeCoaches(e, t, s, b)
        existing == IF Group(e) THEN SessionTeams(e, t, s) ELSE {}
        single   == Event[e].leadership = "SINGLE_COACH"
    IN  IF Event[e].anonymous THEN {Lone(Null)}
        ELSE IF existing # {} THEN existing
        ELSE IF single /\ s # Null /\ slots[s].coach # Null THEN {Lone(slots[s].coach)}
        ELSE IF single THEN SingleHost(e, free, preferred)
        ELSE CollaborativeTeam(e, free)
=============================================================================
