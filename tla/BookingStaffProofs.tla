------------------------- MODULE BookingStaffProofs -------------------------
(***************************************************************************)
(* What the transactions promise of a session's staff, for every set of    *)
(* events, slots, coaches, students, requests and calls: a follow-up has   *)
(* an active coach, teams are well formed, and an event without slots      *)
(* never takes a coach twice at one time; and that the lock order admits   *)
(* no cycle, as long as only FIXED_SLOTS events have slots.                *)
(***************************************************************************)
EXTENDS BookingProofs, InductionLemmas

-----------------------------------------------------------------------------
(* What the steps do to the staff of a session *)

\* Only the selection changes the staff a handler has picked.
LEMMA StaffStays ==
    ASSUME TypeOK, NEW r \in Requests, pc'[r] # "done",
           AdvanceRouting(r) \/ LockCoach(r) \/ CheckSeats(r) \/ LockStudent(r)
    PROVE  tx'[r].coach = tx[r].coach /\ tx'[r].coHosts = tx[r].coHosts
<1> USE DEF TypeOK
<1>1. tx[r] \in Local /\ ~Finish(r)
      BY DEF Finish
<1>2. CASE AdvanceRouting(r) \/ LockCoach(r) \/ LockStudent(r)
      BY <1>1, <1>2 DEF AdvanceRouting, LockCoach, LockStudent, Goto
<1>3. CASE CheckSeats(r)
  <2> DEFINE s == IF tx[r].slot # Null THEN tx[r].slot ELSE MatchingSlot(tx[r].event, tx[r].start)
  <2>1. tx'[r] = [tx[r] EXCEPT !.slot = s]
        BY <1>1, <1>3 DEF CheckSeats, Goto
  <2> HIDE DEF s
  <2> QED BY <1>1, <2>1 DEF Local
<1> QED BY <1>2, <1>3

\* The selection.
LEMMA StaffSelected ==
    ASSUME TypeOK, NEW r \in Requests, pc'[r] # "done", SelectCoach(r)
    PROVE  \E x \in Selections(tx[r].event, tx[r].start, tx[r].slot, tx[r].preferred, Excluded(tx[r])) :
               tx'[r].coach = x.coach /\ tx'[r].coHosts = x.coHosts
<1> USE DEF TypeOK
<1> DEFINE t == tx[r]
           choices == Selections(t.event, t.start, t.slot, t.preferred, Excluded(t))
<1>1. t \in Local /\ ~Finish(r)
      BY DEF Finish
<1>2. PICK x \in choices :
        Goto(r, IF x.cursor # Null THEN "routing" ELSE "coach",
             [t EXCEPT !.coach = x.coach, !.coHosts = x.coHosts, !.cursor = x.cursor])
      BY <1>1 DEF SelectCoach
<1>3. tx'[r] = [t EXCEPT !.coach = x.coach, !.coHosts = x.coHosts, !.cursor = x.cursor]
      BY <1>2 DEF Goto
<1>4. tx'[r].coach = x.coach /\ tx'[r].coHosts = x.coHosts
      BY <1>1, <1>3 DEF Local
<1> QED BY <1>4

\* The write takes the staff of the handler.
LEMMA StaffWritten ==
    ASSUME WellFormed, NEW r \in Requests, WriteBooking(r)
    PROVE  /\ bookings'[tx[r].target].coach = tx[r].coach
           /\ bookings'[tx[r].target].coHosts = tx[r].coHosts
<1>1. tx[r].target \in Requests
      BY Written DEF WellFormed
<1> QED BY <1>1 DEF WriteBooking, WellFormed, TypeOK

\* No other write touches staff.
LEMMA StaffKept ==
    ASSUME TypeOK, NEW r \in Requests, NEW b \in Requests,
           WriteCancellation(r) \/ PatchStatus(r) \/ WriteSlotCancellation(r)
    PROVE  bookings'[b].coach = bookings[b].coach /\ bookings'[b].coHosts = bookings[b].coHosts
<1> USE DEF TypeOK
<1>1. ASSUME NEW st
      PROVE  LET y == [bookings[b] EXCEPT !.status = st]
             IN  y.coach = bookings[b].coach /\ y.coHosts = bookings[b].coHosts
      BY DEF Booking
<1>2. CASE WriteCancellation(r)
      BY <1>1, <1>2 DEF WriteCancellation
<1>3. CASE PatchStatus(r)
      BY <1>1, <1>3 DEF PatchStatus
<1>4. CASE WriteSlotCancellation(r)
      BY <1>1, <1>4 DEF WriteSlotCancellation
<1> QED BY <1>2, <1>3, <1>4

-----------------------------------------------------------------------------
(* Follow-ups *)

\* From the second look at the account to the write, the coach is active and locked.
FollowUpReady ==
    \A r \in Requests : pc[r] \in {"seats", "student", "write"} /\ tx[r].op = "followUp" =>
        tx[r].coach \in userActive /\ CoachRow(tx[r].coach) \in held[r]

\* Deactivating an account waits for whoever has locked it.
LEMMA ActiveStays ==
    ASSUME TypeOK, [Next]_vars, NEW q \in Requests, pc'[q] \notin {"idle", "done"},
           NEW c \in userActive, CoachRow(c) \in held[q]
    PROVE  c \in userActive'
<1>1. CASE UNCHANGED userActive
      BY <1>1
<1>2. ASSUME NEW r \in Requests, DeactivateUser(r) PROVE c \in userActive'
  <2>1. r # q
        BY <1>2, LastStep
  <2>2. PICK x \in Asked("deactivateUser") :
           Unlocked(r, CoachRow(x.user)) /\ userActive' = userActive \ {x.user}
        BY <1>2 DEF DeactivateUser
  <2> QED BY <2>1, <2>2 DEF Unlocked
<1>3. UNCHANGED userActive \/ \E r \in Requests : DeactivateUser(r)
      BY DEF Next, Receive, Serve, vars, rowVars, Tick, CreateBooking, RescheduleBooking,
             BookFollowUp, CancelBooking, PatchStatus, CancelSlot, SelectCoach,
             AdvanceRouting, LockCoach, CheckSeats, LockStudent, WriteBooking,
             WriteCancellation, WriteSlotCancellation, GiveUp
<1> QED BY <1>1, <1>2, <1>3

\* Every step keeps the coach of a follow-up active.
LEMMA FollowUpStep ==
    ASSUME WellFormed, FollowUpReady, [Next]_vars
    PROVE  FollowUpReady'
<1> USE DEF WellFormed
<1> SUFFICES ASSUME NEW q \in Requests, pc'[q] \in {"seats", "student", "write"},
                    tx'[q].op = "followUp"
             PROVE  tx'[q].coach \in userActive' /\ CoachRow(tx'[q].coach) \in held'[q]
    BY DEF FollowUpReady
<1>1. CASE pc'[q] = pc[q] /\ tx'[q] = tx[q] /\ held'[q] = held[q]
      BY <1>1, ActiveStays DEF FollowUpReady
<1>2. CASE CheckSeats(q) \/ LockStudent(q)
  <2>1. pc[q] \in {"seats", "student"} /\ pc'[q] # "done"
        BY <1>2 DEF CheckSeats, LockStudent
  <2>2. /\ tx'[q].op = tx[q].op /\ tx'[q].coach = tx[q].coach
        /\ held[q] \subseteq held'[q]
        BY <1>2, <2>1, StayInTx, StaffStays, StayOnSlot
  <2>3. tx[q].coach \in userActive /\ CoachRow(tx[q].coach) \in held[q]
        BY <2>1, <2>2 DEF FollowUpReady
  <2>4. tx[q].coach \in userActive'
        BY <2>3, ActiveStays
  <2> QED BY <2>2, <2>3, <2>4
<1>3. CASE LockCoach(q)
  <2>1. /\ CoachStillEligible(tx[q]) /\ tx'[q] = tx[q] /\ UNCHANGED userActive
        /\ held'[q] = IF tx[q].coach = Null THEN held[q] ELSE held[q] \cup {CoachRow(tx[q].coach)}
        BY <1>3 DEF LockCoach, Finish, Goto, rowVars, TypeOK
  <2> QED BY <2>1 DEF CoachStillEligible
<1>4. CASE SelectCoach(q) \/ AdvanceRouting(q)
      BY <1>4 DEF SelectCoach, AdvanceRouting, Goto, Finish, TypeOK
<1>5. CASE \/ CreateBooking(q) \/ RescheduleBooking(q) \/ BookFollowUp(q)
           \/ CancelBooking(q) \/ CancelSlot(q)
      BY <1>5, EnterTx, EnterCancellation
<1>6. CASE \/ WriteBooking(q) \/ WriteCancellation(q) \/ WriteSlotCancellation(q)
           \/ PatchStatus(q) \/ DeactivateUser(q) \/ GiveUp(q)
      BY <1>6, LastStep
<1> QED BY <1>1, <1>2, <1>3, <1>4, <1>5, <1>6, OneHandler DEF Receive, Serve

\* bookFollowUpSession reads the account again under lockCoach: whatever is deactivated between the
\* first look and the commit, the coach of a follow-up is active when it is written.
THEOREM FollowUpSafety == Spec => FollowUpOnlyWithActiveCoach
<1>1. Init => FollowUpReady
      BY DEF Init, FollowUpReady
<1>2. WellFormed /\ FollowUpReady /\ [Next]_vars => FollowUpReady'
      BY FollowUpStep
<1>3. FollowUpReady => [\A r \in Requests : WriteBooking(r) /\ tx[r].op = "followUp"
                          => tx[r].coach \in userActive]_vars
      BY DEF FollowUpReady, WriteBooking
<1> QED BY <1>1, <1>2, <1>3, WellFormedInvariant, PTL DEF Spec, FollowUpOnlyWithActiveCoach

-----------------------------------------------------------------------------
(* The staff of events without slots *)

\* The hypothesis of StaffSafety: no event was switched away from FIXED_SLOTS keeping its slots,
\* so a session without seats to count is always serialised by the row of its event.
NoSwitchedEvent == \A s \in Slots : Fixed(SlotEvent[s])

Picked(t) == {t.coach} \cup t.coHosts

\* The event stays locked to the commit.
EventLocked ==
    \A r \in Requests :
        pc[r] \in InTransaction \ {"locking"} /\ ~Fixed(tx[r].event)
            => EventRow(tx[r].event) \in held[r]

\* Booking b is not a session of the same event at that time with a coach that t picked.
Apart(b, t) ==
    Active(b) /\ bookings[b].event = t.event /\ OverlapsBooking(b, t.event, t.start)
        => Staff(b) \cap Picked(t) \subseteq {Null}

\* From the selection to the write, no other session of the event at that time has a picked coach.
StaffReady ==
    \A r \in Requests :
        pc[r] \in InTransaction \ {"locking"} /\ ~Fixed(tx[r].event) =>
            \A b \in Requests \ {Excluded(tx[r])} : Apart(b, tx[r])

\* For an event without slots only free coaches are selected.
LEMMA SelectsFree ==
    ASSUME NEW e \in Events, ~Fixed(e), NEW t, NEW preferred, NEW b,
           NEW x \in Selections(e, t, Null, preferred, b)
    PROVE  Picked(x) \subseteq FreeCoaches(e, t, Null, b) \cup {Null}
<1> DEFINE free == FreeCoaches(e, t, Null, b)
           Good(y) == Picked(y) \subseteq free \cup {Null}
<1>1. ~Group(e)
      BY SchemaAssumption DEF Group, Fixed
<1> HIDE DEF Good
<1>2. \A c : Good(Lone(c)) <=> c \in free \cup {Null}
      BY DEF Lone, Picked, Good
<1>3. \A y \in StrategyLead(e, free) : Good(y)
  <2>1. \A c, n : LET y == [Lone(c) EXCEPT !.cursor = n] IN Good(y) <=> c \in free \cup {Null}
        BY DEF Lone, Picked, Good
  <2> QED BY <1>2, <2>1 DEF StrategyLead
<1>4. \A y \in SingleHost(e, free, preferred) : Good(y)
      BY <1>2, <1>3 DEF SingleHost
<1>5. ASSUME NEW lead, lead \in StrategyLead(e, free) \/ \E c \in free : lead = Lone(c),
             NEW y \in WithCoHosts(e, free, lead)
      PROVE  Good(y)
  <2>1. lead = [coach |-> lead.coach, coHosts |-> lead.coHosts, cursor |-> lead.cursor]
    <3>1. \E c, n : lead = Lone(c) \/ lead = [Lone(c) EXCEPT !.cursor = n]
          BY <1>5 DEF StrategyLead
    <3> QED BY <3>1 DEF Lone
  <2>2. Good(lead)
        BY <1>2, <1>3, <1>5
  <2>3. PICK h \in SUBSET free : \E n : y = [lead EXCEPT !.coHosts = h, !.cursor = n]
        BY <1>5 DEF WithCoHosts
  <2>4. y.coach = lead.coach /\ y.coHosts = h
        BY <2>1, <2>3
  <2> QED BY <2>4, <2>2 DEF Picked, Good
<1>6. \A y \in CollaborativeTeam(e, free) : Good(y)
      BY <1>5 DEF CollaborativeTeam
<1> QED BY <1>1, <1>2, <1>4, <1>6 DEF Selections, Good

\* A free coach is not on the staff of an overlapping session.
LEMMA FreeIsApart ==
    ASSUME WellFormed, NEW e \in Events, NEW t \in Starts, NEW b,
           NEW c \in FreeCoaches(e, t, Null, b),
           NEW x \in Requests \ {b}, Active(x), ~Fixed(e), bookings[x].event = e,
           OverlapsBooking(x, e, t)
    PROVE  c \notin Staff(x)
<1> DEFINE t0 == bookings[x].start
<1>1. t0 \in Nat /\ t \in Nat /\ Lookback \in Nat
      /\ Event[e].duration \in Nat /\ Event[e].buffer \in Nat
      BY DataAssumption DEF WellFormed, RowsOK, Exists, Active, ActiveStatuses, EventConfig
<1>2. t < t0 + Event[e].duration /\ t0 < t + Event[e].duration
      BY DEF OverlapsBooking, Overlap, End
<1> HIDE DEF t0
<1>3. Blocks(e, t0, e, t)
      BY <1>1, <1>2 DEF Blocks, End
<1> QED BY <1>3 DEF FreeCoaches, BookingConflict, t0

\* Every step of a transaction past the first keeps its event locked.
LEMMA EventLockedStep ==
    ASSUME NoSwitchedEvent, WellFormed, SlotsOK, EventLocked, [Next]_vars
    PROVE  EventLocked'
<1> USE DEF WellFormed
<1> SUFFICES ASSUME NEW r \in Requests, pc'[r] \in InTransaction \ {"locking"},
                    ~Fixed(tx'[r].event)
             PROVE  EventRow(tx'[r].event) \in held'[r]
    BY DEF EventLocked, Fixed
<1>1. CASE pc'[r] = pc[r] /\ tx'[r] = tx[r] /\ held'[r] = held[r]
      BY <1>1 DEF EventLocked
<1>2. CASE \/ SelectCoach(r) \/ AdvanceRouting(r) \/ LockCoach(r) \/ CheckSeats(r)
           \/ LockStudent(r)
  <2>1. /\ pc'[r] # "done" /\ pc[r] \in InTransaction /\ tx'[r].event = tx[r].event
        BY <1>2, StayInTx DEF InTransaction
  <2>2. tx[r].slot = Null
        BY <2>1 DEF SlotsOK, NoSwitchedEvent, TypeOK, Local
  <2> QED BY <1>2, <2>1, <2>2, StayOnSlot DEF EventLocked, FirstRow
<1>3. CASE CreateBooking(r) \/ RescheduleBooking(r) \/ BookFollowUp(r)
      BY <1>3, EnterTx
<1>4. CASE CancelBooking(r) \/ CancelSlot(r)
      BY <1>4, EnterCancellation DEF InTransaction
<1>5. CASE \/ WriteBooking(r) \/ WriteCancellation(r) \/ WriteSlotCancellation(r)
           \/ PatchStatus(r) \/ DeactivateUser(r) \/ GiveUp(r)
      BY <1>5, LastStep DEF InTransaction
<1> QED BY <1>1, <1>2, <1>3, <1>4, <1>5, OneHandler DEF Receive, Serve

\* Whoever else writes, the coaches a handler has picked under the event's lock stay free.
LEMMA StaffReadyStep ==
    ASSUME NoReinstating, NoSwitchedEvent, WellFormed, LocksOK, SlotsOK, EventLocked, StaffReady,
           [Next]_vars
    PROVE  StaffReady'
<1> USE DEF WellFormed
<1> SUFFICES ASSUME NEW q \in Requests, pc'[q] \in InTransaction \ {"locking"},
                    ~Fixed(tx'[q].event),
                    NEW x \in Requests \ {Excluded(tx'[q])}
             PROVE  Apart(x, tx[q])'
    BY DEF StaffReady, Excluded, Fixed
<1> SUFFICES ASSUME Active(x)', bookings'[x].event = tx'[q].event,
                    OverlapsBooking(x, tx[q].event, tx[q].start)'
             PROVE  Staff(x)' \cap Picked(tx'[q]) \subseteq {Null}
    BY DEF Apart, Picked
<1>1. CASE pc'[q] = pc[q] /\ tx'[q] = tx[q] /\ held'[q] = held[q]
  <2>1. CASE UNCHANGED bookings
        BY <1>1, <2>1 DEF StaffReady, Apart, Active, OverlapsBooking, Staff
  <2>2. ASSUME NEW r \in Requests, WriteBooking(r)
        PROVE  Staff(x)' \cap Picked(tx'[q]) \subseteq {Null}
    <3>1. r # q /\ pc[r] = "write"
          BY <1>1, <2>2, LastStep DEF WriteBooking, InTransaction
    <3>2. tx[r].event # tx[q].event
          BY <1>1, <3>1 DEF LocksOK, EventLocked, InTransaction
    <3>3. bookings'[x] = bookings[x]
          BY <1>1, <2>2, <3>2, Written
    <3> QED BY <1>1, <3>3 DEF StaffReady, Apart, Active, OverlapsBooking, Staff
  <2>3. ASSUME NEW r \in Requests,
               WriteCancellation(r) \/ PatchStatus(r) \/ WriteSlotCancellation(r)
        PROVE  Staff(x)' \cap Picked(tx'[q]) \subseteq {Null}
    <3>1. /\ Active(x)
          /\ bookings'[x].event = bookings[x].event /\ bookings'[x].start = bookings[x].start
          BY <2>3, NoNewActive
    <3>2. Staff(x)' = Staff(x)
          BY <2>3, StaffKept DEF Staff
    <3> QED BY <1>1, <3>1, <3>2 DEF StaffReady, Apart, OverlapsBooking
  <2> QED BY <2>1, <2>2, <2>3, Writers
<1>2. CASE SelectCoach(q)
  <2> DEFINE t == tx[q]
  <2>1. /\ pc'[q] # "done" /\ pc[q] \in InTransaction /\ UNCHANGED bookings
        /\ tx'[q].event = t.event /\ tx'[q].start = t.start
        /\ tx'[q].op = t.op /\ tx'[q].target = t.target
        BY <1>2, StayInTx DEF InTransaction
  <2>2. t.slot = Null /\ t.event \in Events /\ t.start \in Starts
        BY <2>1 DEF SlotsOK, NoSwitchedEvent, TypeOK, Local, HandlersOK, TxOK
  <2>3. PICK y \in Selections(t.event, t.start, Null, t.preferred, Excluded(t)) :
           tx'[q].coach = y.coach /\ tx'[q].coHosts = y.coHosts
        BY <1>2, <2>1, <2>2, StaffSelected
  <2>4. Picked(tx'[q]) \subseteq FreeCoaches(t.event, t.start, Null, Excluded(t)) \cup {Null}
        BY <2>1, <2>2, <2>3, SelectsFree DEF Picked
  <2>5. /\ x \in Requests \ {Excluded(t)} /\ Active(x) /\ bookings[x].event = t.event
        /\ OverlapsBooking(x, t.event, t.start) /\ Staff(x)' = Staff(x)
        BY <2>1 DEF Excluded, Active, OverlapsBooking, Staff
  <2>6. ~Fixed(t.event)
        BY <2>1
  <2> HIDE DEF t
  <2> QED BY <2>2, <2>4, <2>5, <2>6, FreeIsApart
<1>3. CASE AdvanceRouting(q) \/ LockCoach(q) \/ CheckSeats(q) \/ LockStudent(q)
  <2>1. pc'[q] # "done" /\ pc[q] \in InTransaction \ {"locking"}
        BY <1>3 DEF AdvanceRouting, LockCoach, CheckSeats, LockStudent, InTransaction
  <2>2. /\ UNCHANGED bookings
        /\ tx'[q].event = tx[q].event /\ tx'[q].start = tx[q].start
        /\ tx'[q].op = tx[q].op /\ tx'[q].target = tx[q].target
        /\ Picked(tx'[q]) = Picked(tx[q])
        BY <1>3, <2>1, StayInTx, StaffStays DEF Picked
  <2> QED BY <2>1, <2>2 DEF StaffReady, Apart, Excluded, Active, OverlapsBooking, Staff
<1>4. CASE \/ CreateBooking(q) \/ RescheduleBooking(q) \/ BookFollowUp(q)
           \/ CancelBooking(q) \/ CancelSlot(q)
      BY <1>4, EnterTx, EnterCancellation DEF InTransaction
<1>5. CASE \/ WriteBooking(q) \/ WriteCancellation(q) \/ WriteSlotCancellation(q)
           \/ PatchStatus(q) \/ DeactivateUser(q) \/ GiveUp(q)
      BY <1>5, LastStep DEF InTransaction
<1> QED BY <1>1, <1>2, <1>3, <1>4, <1>5, OneHandler DEF Receive, Serve

\* One booking is written, and its staff is on no other session of the event at that time.
LEMMA StaffStep ==
    ASSUME NoReinstating, WellFormed, StaffReady, EventNeverDoubleBooksStaff, [Next]_vars
    PROVE  EventNeverDoubleBooksStaff'
<1> USE DEF WellFormed
<1> SUFFICES ASSUME NEW a \in Requests, NEW b \in Requests, a # b, Active(a)', Active(b)',
                    bookings'[a].event = bookings'[b].event, ~Fixed(bookings'[a].event),
                    OverlapsBooking(a, bookings[b].event, bookings[b].start)'
             PROVE  Staff(a)' \cap Staff(b)' \subseteq {Null}
    BY DEF EventNeverDoubleBooksStaff, Fixed
<1>1. CASE UNCHANGED bookings
      BY <1>1 DEF EventNeverDoubleBooksStaff, Active, OverlapsBooking, Staff
<1>2. ASSUME NEW r \in Requests, WriteBooking(r)
      PROVE  Staff(a)' \cap Staff(b)' \subseteq {Null}
  <2>1. PICK w \in Requests : w = tx[r].target
        BY <1>2, Written
  <2>2. /\ TxOK(r)
        /\ \A x \in Requests \ {w} : bookings'[x] = bookings[x]
        /\ bookings'[w].event = tx[r].event /\ bookings'[w].start = tx[r].start
        BY <1>2, <2>1, Written
  <2>4. pc[r] = "write"
        BY <1>2 DEF WriteBooking
  <2>3. Staff(w)' = Picked(tx[r])
    <3>1. /\ bookings'[tx[r].target].coach = tx[r].coach
          /\ bookings'[tx[r].target].coHosts = tx[r].coHosts
          BY <1>2, StaffWritten
    <3> QED BY <2>1, <3>1 DEF Staff, Picked
  <2>5. ASSUME NEW x \in Requests, x # w, Active(x), bookings[x].event = tx[r].event,
               ~Fixed(tx[r].event), OverlapsBooking(x, tx[r].event, tx[r].start)
        PROVE  Staff(x) \cap Picked(tx[r]) \subseteq {Null}
        BY <2>1, <2>2, <2>5, <2>4, NullAssumption DEF StaffReady, Apart, Excluded, InTransaction
  <2>6. CASE a # w /\ b # w
        BY <2>2, <2>6 DEF EventNeverDoubleBooksStaff, Active, OverlapsBooking, Staff
  <2>7. CASE b = w
    <3>1. OverlapsBooking(a, tx[r].event, tx[r].start) /\ Active(a) /\ Staff(a)' = Staff(a)
          BY <2>2, <2>7 DEF OverlapsBooking, Active, Staff
    <3> QED BY <2>2, <2>5, <2>7, <2>3, <3>1
  <2>8. CASE a = w
    <3>1. OverlapsBooking(b, tx[r].event, tx[r].start) /\ Active(b) /\ Staff(b)' = Staff(b)
          BY <2>2, <2>8 DEF OverlapsBooking, Overlap, Active, Staff
    <3> QED BY <2>2, <2>5, <2>8, <2>3, <3>1
  <2> QED BY <2>6, <2>7, <2>8
<1>3. ASSUME NEW r \in Requests,
             WriteCancellation(r) \/ PatchStatus(r) \/ WriteSlotCancellation(r)
      PROVE  Staff(a)' \cap Staff(b)' \subseteq {Null}
      BY <1>3, NoNewActive, StaffKept DEF EventNeverDoubleBooksStaff, OverlapsBooking, Staff
<1> QED BY <1>1, <1>2, <1>3, Writers

\* Two overlapping sessions of one event without slots never share a coach, however the
\* transactions interleave, as long as every slot belongs to a FIXED_SLOTS event.
THEOREM StaffSafety ==
    ASSUME NoReinstating, NoSwitchedEvent PROVE Spec => []EventNeverDoubleBooksStaff
<1> DEFINE Inv == LocksOK /\ SlotsOK /\ EventLocked /\ StaffReady /\ EventNeverDoubleBooksStaff
<1>1. Init => Inv
  <2> SUFFICES ASSUME Init PROVE Inv
      OBVIOUS
  <2>1. \A b \in Requests : ~Active(b) /\ ~Exists(b)
        BY DEF Init, Active, Exists, VacantBooking, ActiveStatuses
  <2> QED BY <2>1 DEF Init, LocksOK, SlotsOK, EventLocked, StaffReady, InTransaction,
                      EventNeverDoubleBooksStaff
<1>2. WellFormed /\ Inv /\ [Next]_vars => Inv'
      BY LocksStep, SlotsStep, EventLockedStep, StaffReadyStep, StaffStep DEF WellFormed
<1> QED BY <1>1, <1>2, WellFormedInvariant, PTL DEF Spec

-----------------------------------------------------------------------------
(* Teams *)

\* The hypothesis of TeamSafety: the slots of collaborative events have no coach of their own.
\* A group session takes its slot's coach as lead and the co-hosts of its first booking as they
\* are, although nothing keeps that coach from being one of them.
TeamsUnassigned ==
    \A s \in Slots :
        InitialSlots[s].coach # Null => Event[SlotEvent[s]].leadership = "SINGLE_COACH"

\* A team for a session of e.
TeamFor(e, coach, coHosts) ==
    /\ coach \notin coHosts
    /\ Event[e].targetCoHosts # Null => Cardinality(coHosts) <= Event[e].targetCoHosts
    /\ Event[e].leadership = "SINGLE_COACH" => coHosts = {}

\* Every session, written or about to be, has a team for its event.
TeamsOK ==
    /\ \A s \in Slots : slots[s].coach = InitialSlots[s].coach
    /\ \A b \in Requests : Exists(b) =>
         TeamFor(bookings[b].event, bookings[b].coach, bookings[b].coHosts)
    /\ \A r \in Requests : pc[r] \in InTransaction \ {"locking"} =>
         TeamFor(tx[r].event, tx[r].coach, tx[r].coHosts)

\* Of a finite set with distinct ranks, n members at most have fewer than n before them.
LEMMA FirstFew ==
    ASSUME NEW S, IsFiniteSet(S), NEW rank \in [S -> Int],
           \A c, d \in S : rank[c] = rank[d] => c = d, NEW n \in Nat
    PROVE  Cardinality({c \in S : Cardinality({d \in S : rank[d] < rank[c]}) < n}) <= n
<1> DEFINE ahead(c) == {d \in S : rank[d] < rank[c]}
           few == {c \in S : Cardinality(ahead(c)) < n}
           place == [c \in few |-> Cardinality(ahead(c))]
<1>1. ASSUME NEW c \in S
      PROVE  IsFiniteSet(ahead(c)) /\ Cardinality(ahead(c)) \in Nat
      BY FS_Subset, FS_CardinalityType
<1>2. ASSUME NEW c \in S, NEW d \in S, rank[c] < rank[d]
      PROVE  Cardinality(ahead(c)) < Cardinality(ahead(d))
  <2>1. c \notin ahead(c) /\ ahead(c) \cup {c} \subseteq ahead(d)
        BY <1>2
  <2> HIDE DEF ahead
  <2>2. Cardinality(ahead(c) \cup {c}) = Cardinality(ahead(c)) + 1
        BY <1>1, <2>1, FS_AddElement
  <2>3. Cardinality(ahead(c) \cup {c}) <= Cardinality(ahead(d))
        BY <1>1, <2>1, FS_Subset
  <2> QED BY <1>1, <2>2, <2>3
<1> HIDE DEF ahead
<1>3. place \in [few -> 0..(n - 1)]
      BY <1>1
<1>4. \A c, d \in few : c # d => place[c] # place[d]
      BY <1>1, <1>2
<1>5. IsFiniteSet(few) /\ Cardinality(few) \in Nat
      BY FS_Subset, FS_CardinalityType
<1>6. IsFiniteSet(0..(n - 1)) /\ Cardinality(0..(n - 1)) = n
      BY FS_Interval
<1> HIDE DEF few, place
<1>7. ~(Cardinality(0..(n - 1)) < Cardinality(few))
      BY <1>3, <1>4, <1>5, <1>6, FS_PigeonHole
<1> QED BY <1>5, <1>6, <1>7 DEF few, ahead

\* Two coaches of a pool never have the same place in a rotation.
LEMMA RankDistinct ==
    ASSUME NEW e \in Events, NEW cursor \in Nat, NEW c \in Pool(e), NEW d \in Pool(e)
    PROVE  /\ Rank(e, c, cursor) \in Int
           /\ Rank(e, c, cursor) = Rank(e, d, cursor) => c = d
<1> DEFINE orders == {Order[e][x] : x \in Pool(e)}
<1>1. \A x \in Pool(e) : Order[e][x] \in Nat /\ Order[e][x] >= 1
      BY SchemaAssumption, PoolAssumption DEF Pool
<1>2. \E m \in orders : \A o \in orders : o <= m
      BY PoolAssumption
<1>3. MaxOrder(e) \in orders /\ \A o \in orders : o <= MaxOrder(e)
      BY <1>2 DEF MaxOrder
<1>4. MaxOrder(e) \in Nat /\ Order[e][c] <= MaxOrder(e) /\ Order[e][d] <= MaxOrder(e)
      BY <1>1, <1>3
<1>5. Order[e][c] = Order[e][d] => c = d
      BY SchemaAssumption DEF Pool
<1> QED BY <1>1, <1>4, <1>5 DEF Rank

\* The co-hosts that join a lead make a team with the lead.
LEMMA CoHostsJoin ==
    ASSUME TypeOK, NEW e \in Events, Event[e].leadership # "SINGLE_COACH",
           NEW free \in SUBSET Pool(e), NEW lead, lead.cursor \in Nat \cup {Null},
           lead = [coach |-> lead.coach, coHosts |-> lead.coHosts, cursor |-> lead.cursor],
           NEW y \in WithCoHosts(e, free, lead)
    PROVE  TeamFor(e, y.coach, y.coHosts)
<1> DEFINE cursor == IF lead.cursor = Null THEN routing[e] ELSE lead.cursor
           others == free \ {lead.coach}
           ahead(c) == {d \in others : Rank(e, d, cursor) < Rank(e, c, cursor)}
           n == Event[e].targetCoHosts
           chosen == {c \in others : n = Null \/ Cardinality(ahead(c)) < n}
           rank == [c \in others |-> Rank(e, c, cursor)]
<1>1. cursor \in Nat
      BY DEF TypeOK
<1>2. \E k : y = [lead EXCEPT !.coHosts = chosen, !.cursor = k]
      BY DEF WithCoHosts
<1>3. y.coach = lead.coach /\ y.coHosts = chosen
      BY <1>2
<1>4. n # Null => n \in Nat
      BY DataAssumption DEF EventConfig
<1>5. IsFiniteSet(others)
      BY PoolAssumption, FS_Subset
<1> HIDE DEF cursor
<1>6. /\ rank \in [others -> Int]
      /\ \A c, d \in others : rank[c] = rank[d] => c = d
      BY <1>1, RankDistinct
<1>7. ASSUME n # Null PROVE Cardinality(chosen) <= n
  <2>1. chosen = {c \in others : Cardinality({d \in others : rank[d] < rank[c]}) < n}
        BY <1>7
  <2> HIDE DEF chosen, others, rank, n
  <2> QED BY <1>4, <1>5, <1>6, <1>7, <2>1, FirstFew
<1>8. lead.coach \notin chosen
      OBVIOUS
<1> HIDE DEF chosen
<1> QED BY <1>3, <1>7, <1>8 DEF TeamFor

\* Whatever branch selects, it selects a team.
LEMMA SelectsTeam ==
    ASSUME TeamsUnassigned, WellFormed, TeamsOK, NEW e \in Events, NEW t,
           NEW s \in Slots \cup {Null}, s # Null => SlotEvent[s] = e, NEW preferred, NEW b,
           NEW x \in Selections(e, t, s, preferred, b)
    PROVE  TeamFor(e, x.coach, x.coHosts)
<1> DEFINE free == FreeCoaches(e, t, s, b)
           Good(y) == TeamFor(e, y.coach, y.coHosts)
           Alone(y) == y.coHosts = {}
<1>1. \A y : Alone(y) => Good(y)
  <2>1. Event[e].targetCoHosts # Null => Event[e].targetCoHosts \in Nat
        BY DataAssumption DEF EventConfig
  <2> QED BY <2>1, FS_EmptySet DEF TeamFor
<1> HIDE DEF Good
<1>2. \A c : Alone(Lone(c))
      BY DEF Lone
<1>3. \A y \in StrategyLead(e, free) : Alone(y)
  <2>1. \A c, n : Alone([Lone(c) EXCEPT !.cursor = n])
        BY DEF Lone
  <2> QED BY <1>2, <2>1 DEF StrategyLead
<1>4. \A y \in SingleHost(e, free, preferred) : Alone(y)
      BY <1>2, <1>3 DEF SingleHost
<1>5. ASSUME NEW y \in SessionTeams(e, t, s) PROVE Good(y)
  <2>1. PICK z \in Requests :
           /\ Exists(z) /\ bookings[z].event = e /\ y.coHosts = bookings[z].coHosts
           /\ y.coach = IF s # Null /\ slots[s].coach # Null THEN slots[s].coach
                        ELSE bookings[z].coach
        BY <1>5 DEF SessionTeams, Counted, Exists
  <2>2. TeamFor(e, bookings[z].coach, bookings[z].coHosts)
        BY <2>1 DEF TeamsOK
  <2>3. CASE s # Null /\ slots[s].coach # Null
    <3>1. Event[e].leadership = "SINGLE_COACH"
          BY <2>3 DEF TeamsOK, TeamsUnassigned
    <3>2. Alone(y)
          BY <2>1, <2>2, <3>1 DEF TeamFor
    <3> QED BY <1>1, <3>2
  <2>4. CASE ~(s # Null /\ slots[s].coach # Null)
        BY <2>1, <2>2, <2>4 DEF Good
  <2> QED BY <2>3, <2>4
<1>6. ASSUME Event[e].leadership # "SINGLE_COACH", NEW y \in CollaborativeTeam(e, free)
      PROVE  Good(y)
  <2>1. free \subseteq Pool(e)
        BY DEF FreeCoaches
  <2>2. PICK lead : /\ lead \in StrategyLead(e, free) \/ \E c : lead = Lone(c)
                    /\ y \in WithCoHosts(e, free, lead)
        BY <1>6 DEF CollaborativeTeam
  <2>3. \A c \in Pool(e) : CursorAfter(e, c) \in Nat
        BY SchemaAssumption DEF CursorAfter, Pool
  <2>4. \E c, k : k \in Nat \cup {Null} /\ lead = [coach |-> c, coHosts |-> {}, cursor |-> k]
    <3>1. CASE \E c : lead = Lone(c)
          BY <3>1 DEF Lone
    <3>2. CASE lead \in StrategyLead(e, free) /\ ~ \E c : lead = Lone(c)
      <4>1. PICK c \in free : lead = [Lone(c) EXCEPT !.cursor = CursorAfter(e, c)]
            BY <3>2 DEF StrategyLead
      <4>2. lead = [coach |-> c, coHosts |-> {}, cursor |-> CursorAfter(e, c)]
            BY <4>1 DEF Lone
      <4> QED BY <2>1, <2>3, <4>2
    <3> QED BY <2>2, <3>1, <3>2
  <2>5. /\ lead = [coach |-> lead.coach, coHosts |-> lead.coHosts, cursor |-> lead.cursor]
        /\ lead.cursor \in Nat \cup {Null}
        BY <2>4
  <2> HIDE DEF free
  <2> QED BY <1>6, <2>1, <2>2, <2>5, CoHostsJoin DEF WellFormed, Good
<1> HIDE DEF Alone, free
<1> QED BY <1>1, <1>2, <1>4, <1>5, <1>6 DEF Selections, Good, free

\* No step moves a slot to another coach.
LEMMA SlotCoachStays ==
    ASSUME TypeOK, [Next]_vars, NEW s \in Slots
    PROVE  slots'[s].coach = slots[s].coach
<1>1. CASE UNCHANGED slots
      BY <1>1
<1>2. ASSUME NEW r \in Requests, WriteSlotCancellation(r)
      PROVE  slots'[s].coach = slots[s].coach
      BY <1>2 DEF WriteSlotCancellation, TypeOK, Slot
<1>3. UNCHANGED slots \/ \E r \in Requests : WriteSlotCancellation(r)
      BY DEF Next, Receive, Serve, vars, rowVars, Tick, CreateBooking, RescheduleBooking,
             BookFollowUp, CancelBooking, PatchStatus, CancelSlot, DeactivateUser, SelectCoach,
             AdvanceRouting, LockCoach, CheckSeats, LockStudent, WriteBooking,
             WriteCancellation, GiveUp
<1> QED BY <1>1, <1>2, <1>3

\* Every step keeps the teams.
LEMMA TeamsStep ==
    ASSUME TeamsUnassigned, WellFormed, SlotsOK, TeamsOK, [Next]_vars
    PROVE  TeamsOK'
<1> USE DEF WellFormed
<1>1. ASSUME NEW s \in Slots PROVE slots'[s].coach = InitialSlots[s].coach
      BY SlotCoachStays DEF TeamsOK
<1>2. ASSUME NEW b \in Requests, Exists(b)'
      PROVE  TeamFor(bookings'[b].event, bookings'[b].coach, bookings'[b].coHosts)
  <2>1. CASE UNCHANGED bookings
        BY <1>2, <2>1 DEF TeamsOK, Exists
  <2>2. ASSUME NEW r \in Requests, WriteBooking(r)
        PROVE  TeamFor(bookings'[b].event, bookings'[b].coach, bookings'[b].coHosts)
    <3>1. TeamFor(tx[r].event, tx[r].coach, tx[r].coHosts)
          BY <2>2 DEF WriteBooking, TeamsOK, InTransaction
    <3>2. CASE b = tx[r].target
          BY <2>2, <3>1, <3>2, Written, StaffWritten
    <3>3. CASE b # tx[r].target
      <4>1. bookings'[b] = bookings[b]
            BY <2>2, <3>3, Written
      <4> QED BY <1>2, <4>1 DEF TeamsOK, Exists
    <3> QED BY <3>2, <3>3
  <2>3. ASSUME NEW r \in Requests,
               WriteCancellation(r) \/ PatchStatus(r) \/ WriteSlotCancellation(r)
        PROVE  TeamFor(bookings'[b].event, bookings'[b].coach, bookings'[b].coHosts)
    <3>1. bookings'[b].event = bookings[b].event /\ Exists(b)
          BY <1>2, <2>3, StatusOnly DEF Exists
    <3>2. bookings'[b].coach = bookings[b].coach /\ bookings'[b].coHosts = bookings[b].coHosts
          BY <2>3, StaffKept
    <3> QED BY <3>1, <3>2 DEF TeamsOK
  <2> QED BY <2>1, <2>2, <2>3, Writers
<1>3. ASSUME NEW r \in Requests, pc'[r] \in InTransaction \ {"locking"}
      PROVE  TeamFor(tx'[r].event, tx'[r].coach, tx'[r].coHosts)
  <2>1. CASE pc'[r] = pc[r] /\ tx'[r] = tx[r]
        BY <1>3, <2>1 DEF TeamsOK
  <2>2. CASE SelectCoach(r)
    <3> DEFINE t == tx[r]
    <3>1. /\ pc'[r] # "done" /\ pc[r] \in InTransaction /\ tx'[r].event = t.event
          BY <1>3, <2>2, StayInTx DEF InTransaction
    <3>2. /\ t.event \in Events /\ t.slot \in Slots \cup {Null}
          /\ t.slot # Null => SlotEvent[t.slot] = t.event
          BY <3>1 DEF HandlersOK, TxOK, TypeOK, Local, SlotsOK
    <3>3. PICK x \in Selections(t.event, t.start, t.slot, t.preferred, Excluded(t)) :
             tx'[r].coach = x.coach /\ tx'[r].coHosts = x.coHosts
          BY <2>2, <3>1, StaffSelected
    <3> HIDE DEF t
    <3>4. TeamFor(t.event, x.coach, x.coHosts)
          BY <3>2, <3>3, SelectsTeam
    <3> QED BY <3>1, <3>3, <3>4
  <2>3. CASE AdvanceRouting(r) \/ LockCoach(r) \/ CheckSeats(r) \/ LockStudent(r)
    <3>1. pc'[r] # "done" /\ pc[r] \in InTransaction \ {"locking"}
          BY <1>3, <2>3 DEF AdvanceRouting, LockCoach, CheckSeats, LockStudent, InTransaction
    <3> QED BY <2>3, <3>1, StayInTx, StaffStays DEF TeamsOK
  <2>4. CASE \/ CreateBooking(r) \/ RescheduleBooking(r) \/ BookFollowUp(r)
             \/ CancelBooking(r) \/ CancelSlot(r)
        BY <1>3, <2>4, EnterTx, EnterCancellation DEF InTransaction
  <2>5. CASE \/ WriteBooking(r) \/ WriteCancellation(r) \/ WriteSlotCancellation(r)
             \/ PatchStatus(r) \/ DeactivateUser(r) \/ GiveUp(r)
        BY <1>3, <2>5, LastStep DEF InTransaction
  <2> QED BY <2>1, <2>2, <2>3, <2>4, <2>5, OneHandler DEF Receive, Serve
<1> QED BY <1>1, <1>2, <1>3 DEF TeamsOK

\* A session's lead is never one of its co-hosts, and the co-hosts are never more than asked for,
\* however the transactions interleave, as long as collaborative events assign coaches to sessions
\* only and not to their slots.
THEOREM TeamSafety == ASSUME TeamsUnassigned PROVE Spec => []TeamWellFormed
<1> DEFINE Inv == SlotsOK /\ TeamsOK
<1>1. Init => Inv
  <2> SUFFICES ASSUME Init PROVE Inv
      OBVIOUS
  <2>1. \A b \in Requests : ~Exists(b)
        BY DEF Init, Exists, VacantBooking
  <2> QED BY <2>1 DEF Init, SlotsOK, TeamsOK, InTransaction
<1>2. WellFormed /\ Inv /\ [Next]_vars => Inv'
      BY SlotsStep, TeamsStep DEF WellFormed
<1>3. Inv => TeamWellFormed
      BY DEF TeamsOK, TeamFor, TeamWellFormed, Active, ActiveStatuses, Exists
<1> QED BY <1>1, <1>2, <1>3, WellFormedInvariant, PTL DEF Spec

-----------------------------------------------------------------------------
(* The lock order.  Every row a transaction waits for comes later in the   *)
(* order than every row it holds; the one exception is the event row of an *)
(* insert, which nobody else holds.                                        *)

\* The place of a table in the lock order
LockRank(row) ==
    CASE row[1] \in {"EventScheduleSlot", "Event"} -> 1
      [] row[1] = "EventRoutingState"              -> 2
      [] row[1] = "User"                           -> 3
      [] row[1] = "Student"                        -> 4

\* The highest place a transaction may have reached at a step
Reached(step) ==
    CASE step = "routing"             -> 1
      [] step = "coach"               -> 2
      [] step \in {"seats", "student"} -> 3
      [] step = "write"               -> 4
      [] OTHER                        -> 0

\* Rows are taken in the order of their tables, and an event row only if the event has no slots.
LocksInOrder ==
    \A r \in Requests : \A row \in held[r] :
        /\ LockRank(row) \in 1..Reached(pc[r])
        /\ row[1] = "Event" => ~Fixed(row[2])

\* What a transaction has to wait for comes after all that it holds, so that a chain of
\* transactions that wait for one another never returns to where it began.
WaitsUpwards ==
    \A q, r \in Requests : q # r =>
        \A x \in Wanted(q) \cap held[r] : \A y \in held[q] : LockRank(y) < LockRank(x)

-----------------------------------------------------------------------------
\* The ranks of the rows
LEMMA LockRanks ==
    /\ \A s : LockRank(SlotRow(s)) = 1 /\ SlotRow(s)[1] # "Event"
    /\ \A e : LockRank(EventRow(e)) = 1 /\ EventRow(e)[1] = "Event" /\ EventRow(e)[2] = e
    /\ \A e : LockRank(RoutingRow(e)) = 2 /\ RoutingRow(e)[1] # "Event"
    /\ \A c : LockRank(CoachRow(c)) = 3 /\ CoachRow(c)[1] # "Event"
    /\ \A st : LockRank(StudentRow(st)) = 4 /\ StudentRow(st)[1] # "Event"
BY DEF LockRank, SlotRow, EventRow, RoutingRow, CoachRow, StudentRow

\* Who ends its transaction holds nothing.
LEMMA EndsUnlocked ==
    ASSUME TypeOK, NEW r \in Requests,
           \/ Finish(r)
           \/ WriteBooking(r) \/ WriteCancellation(r) \/ WriteSlotCancellation(r)
           \/ PatchStatus(r) \/ DeactivateUser(r) \/ GiveUp(r)
    PROVE  held'[r] = {}
BY DEF WriteBooking, WriteCancellation, WriteSlotCancellation, PatchStatus, DeactivateUser, GiveUp,
       Finish, TypeOK

\* What one step of a transaction adds to its locks
LEMMA TakesNext ==
    ASSUME WellFormed, SlotsOK, NoSwitchedEvent, NEW r \in Requests, held'[r] # {},
           \/ SelectCoach(r) \/ AdvanceRouting(r) \/ LockCoach(r) \/ CheckSeats(r)
           \/ LockStudent(r)
    PROVE  /\ Reached(pc[r]) <= Reached(pc'[r])
           /\ \A row \in held'[r] \ held[r] :
                LockRank(row) \in 1..Reached(pc'[r]) /\ (row[1] = "Event" => ~Fixed(row[2]))
<1> USE DEF WellFormed, TypeOK
<1>1. ~Finish(r)
      BY EndsUnlocked
<1> DEFINE t == tx[r]
<1>2. CASE SelectCoach(r)
  <2>1. /\ pc[r] = "locking" /\ pc'[r] \in {"routing", "coach"}
        /\ held'[r] = held[r] \cup {FirstRow(t)}
        BY <1>1, <1>2 DEF SelectCoach, Acquire, Goto
  <2>2. LockRank(FirstRow(t)) = 1 /\ (FirstRow(t)[1] = "Event" => ~Fixed(FirstRow(t)[2]))
        BY <2>1, LockRanks DEF FirstRow, SlotsOK, InTransaction
  <2> QED BY <2>1, <2>2 DEF Reached
<1>3. CASE AdvanceRouting(r)
  <2>1. pc[r] = "routing" /\ pc'[r] = "coach" /\ held'[r] = held[r] \cup {RoutingRow(t.event)}
        BY <1>3 DEF AdvanceRouting, Acquire, Goto
  <2> QED BY <2>1, LockRanks DEF Reached
<1>4. CASE LockCoach(r)
  <2>1. /\ pc[r] = "coach" /\ pc'[r] = "seats"
        /\ held'[r] \in {held[r], held[r] \cup {CoachRow(t.coach)}}
        BY <1>1, <1>4 DEF LockCoach, Goto
  <2> QED BY <2>1, LockRanks DEF Reached
<1>5. CASE CheckSeats(r)
  <2>1. pc[r] = "seats" /\ pc'[r] = "student" /\ held'[r] = held[r]
        BY <1>1, <1>5 DEF CheckSeats, Goto
  <2> QED BY <2>1 DEF Reached
<1>6. CASE LockStudent(r)
  <2>1. pc[r] = "student" /\ pc'[r] = "write" /\ held'[r] = held[r] \cup {StudentRow(t.student)}
        BY <1>1, <1>6 DEF LockStudent, Acquire, Goto
  <2> QED BY <2>1, LockRanks DEF Reached
<1> QED BY <1>2, <1>3, <1>4, <1>5, <1>6

\* Every step keeps the order.
LEMMA OrderStep ==
    ASSUME NoSwitchedEvent, WellFormed, SlotsOK, LocksInOrder, [Next]_vars
    PROVE  LocksInOrder'
<1> USE DEF WellFormed
<1> SUFFICES ASSUME NEW r \in Requests, NEW row \in held'[r]
             PROVE  LockRank(row) \in 1..Reached(pc'[r]) /\ (row[1] = "Event" => ~Fixed(row[2]))
    BY DEF LocksInOrder, LockRank, Reached, Fixed
<1>1. CASE pc'[r] = pc[r] /\ held'[r] = held[r]
      BY <1>1 DEF LocksInOrder
<1>2. CASE \/ SelectCoach(r) \/ AdvanceRouting(r) \/ LockCoach(r) \/ CheckSeats(r)
           \/ LockStudent(r)
  <2>1. Reached(pc[r]) \in Int /\ Reached(pc'[r]) \in Int
        BY DEF Reached
  <2> QED BY <1>2, <2>1, TakesNext DEF LocksInOrder
<1>3. CASE \/ CreateBooking(r) \/ RescheduleBooking(r) \/ BookFollowUp(r)
           \/ CancelBooking(r) \/ CancelSlot(r)
  <2>1. pc[r] = "idle" /\ held'[r] = held[r]
        BY <1>3 DEF CreateBooking, RescheduleBooking, BookFollowUp, CancelBooking, CancelSlot, Begin
  <2> QED BY <2>1 DEF LocksInOrder, Reached
<1>4. CASE \/ WriteBooking(r) \/ WriteCancellation(r) \/ WriteSlotCancellation(r)
           \/ PatchStatus(r) \/ DeactivateUser(r) \/ GiveUp(r)
      BY <1>4, EndsUnlocked
<1> QED BY <1>1, <1>2, <1>3, <1>4, OneHandler DEF Receive, Serve

\* A transaction in order only waits for what comes after its own rows.
LEMMA OrderWaits ==
    ASSUME WellFormed, LocksOK, EventLocked, LocksInOrder
    PROVE  WaitsUpwards
<1> SUFFICES ASSUME NEW q \in Requests, NEW r \in Requests, q # r,
                    NEW x \in Wanted(q) \cap held[r], NEW y \in held[q]
             PROVE  LockRank(y) < LockRank(x)
    BY DEF WaitsUpwards
<1> DEFINE t == tx[q]
<1>1. LockRank(y) \in 1..Reached(pc[q])
      BY DEF LocksInOrder
<1>2. CASE pc[q] = "write"
  <2>1. x = EventRow(t.event)
        BY <1>2 DEF Wanted
  <2>2. ~Fixed(t.event)
        BY <2>1, LockRanks DEF LocksInOrder
  <2>3. x \in held[q]
        BY <1>2, <2>1, <2>2 DEF EventLocked, InTransaction
  <2> QED BY <2>3 DEF LocksOK
<1>3. CASE pc[q] \in {"locking", "cancellingSlot"}
      BY <1>1, <1>3 DEF Reached
<1>4. CASE pc[q] = "routing"
      BY <1>1, <1>4, LockRanks DEF Reached, Wanted
<1>5. CASE pc[q] = "coach"
      BY <1>1, <1>5, LockRanks DEF Reached, Wanted
<1>6. CASE pc[q] = "student"
      BY <1>1, <1>6, LockRanks DEF Reached, Wanted
<1> QED BY <1>2, <1>3, <1>4, <1>5, <1>6 DEF Wanted

\* Where only FIXED_SLOTS events have slots, a transaction that waits for another one waits for a
\* row that comes after all its own, the foreign key of its insert included.
THEOREM LockOrder == ASSUME NoSwitchedEvent PROVE Spec => []WaitsUpwards
<1> DEFINE Inv == LocksOK /\ SlotsOK /\ EventLocked /\ LocksInOrder
<1>1. Init => Inv
  <2> SUFFICES ASSUME Init PROVE Inv
      OBVIOUS
  <2>1. \A b \in Requests : ~Exists(b)
        BY DEF Init, Exists, VacantBooking
  <2> QED BY <2>1 DEF Init, LocksOK, SlotsOK, EventLocked, LocksInOrder, InTransaction
<1>2. WellFormed /\ Inv /\ [Next]_vars => Inv'
      BY LocksStep, SlotsStep, EventLockedStep, OrderStep DEF WellFormed
<1>3. WellFormed /\ Inv => WaitsUpwards
      BY OrderWaits
<1> QED BY <1>1, <1>2, <1>3, WellFormedInvariant, PTL DEF Spec

\* Two requests never each hold what the other one wants, in a system without switched events.
THEOREM DeadlockFreedom == ASSUME NoSwitchedEvent PROVE Spec => []NoLockCycle
<1>1. WellFormed /\ WaitsUpwards => NoLockCycle
  <2> SUFFICES ASSUME WellFormed, WaitsUpwards, NEW q \in Requests, NEW r \in Requests, q # r,
                      NEW x \in Wanted(q) \cap held[r], NEW y \in Wanted(r) \cap held[q]
               PROVE  FALSE
      BY DEF NoLockCycle
  <2>1. x \in Rows /\ y \in Rows
        BY DEF WellFormed, TypeOK
  <2>2. LockRank(x) \in 1..4 /\ LockRank(y) \in 1..4
        BY <2>1, LockRanks DEF Rows
  <2>3. LockRank(y) < LockRank(x) /\ LockRank(x) < LockRank(y)
        BY DEF WaitsUpwards
  <2> QED BY <2>2, <2>3
<1> QED BY <1>1, LockOrder, WellFormedInvariant, PTL

\* q wants a row that r holds.
WaitsFor(q, r) == q # r /\ Wanted(q) \cap held[r] # {}

\* No chain of transactions that wait for one another, however long, returns to its beginning.
NoWaitingCycle ==
    \A n \in Nat : \A chain \in [0..n -> Requests] :
        (\A i \in 0..n - 1 : WaitsFor(chain[i], chain[i + 1])) => ~WaitsFor(chain[n], chain[0])

\* Along a chain, the last one holds a row no lower in the order than any that the second one holds.
LEMMA RanksClimb ==
    ASSUME WellFormed, WaitsUpwards, NEW n \in Nat, NEW chain \in [0..n -> Requests],
           \A i \in 0..n - 1 : WaitsFor(chain[i], chain[i + 1]),
           NEW x \in Rows, n > 0, x \in held[chain[1]]
    PROVE  \E y \in held[chain[n]] : LockRank(x) <= LockRank(y)
<1> DEFINE Higher(i) == \E y \in held[chain[i]] : LockRank(x) <= LockRank(y)
           S == {i \in Nat : 1 <= i /\ i <= n => Higher(i)}
<1>0. ASSUME NEW y \in Rows PROVE LockRank(y) \in Int
  <2>1. LockRank(y) \in 1..4
        BY <1>0, LockRanks DEF Rows
  <2> QED BY <2>1
<1>1. 0 \in S
      OBVIOUS
<1>2. ASSUME NEW i \in Nat, i \in S PROVE i + 1 \in S
  <2> SUFFICES ASSUME i + 1 <= n PROVE Higher(i + 1)
      OBVIOUS
  <2>1. CASE i = 0
    <3>1. LockRank(x) <= LockRank(x)
          BY <1>0
    <3> QED BY <2>1, <3>1
  <2>2. CASE i # 0
    <3>1. i \in 0..n - 1 /\ i \in 0..n /\ i + 1 \in 0..n /\ 1 <= i /\ i <= n
          BY <2>2
    <3>2. chain[i] \in Requests /\ chain[i + 1] \in Requests
          BY <3>1
    <3>3. PICK y \in held[chain[i]] : LockRank(x) <= LockRank(y)
          BY <1>2, <3>1
    <3>4. PICK z : z \in Wanted(chain[i]) \cap held[chain[i + 1]] /\ chain[i] # chain[i + 1]
          BY <3>1 DEF WaitsFor
    <3>5. LockRank(y) < LockRank(z)
          BY <3>2, <3>3, <3>4 DEF WaitsUpwards
    <3>6. y \in Rows /\ z \in Rows
          BY <3>2, <3>3, <3>4 DEF WellFormed, TypeOK
    <3>7. LockRank(x) <= LockRank(z)
          BY <1>0, <3>3, <3>5, <3>6
    <3> QED BY <3>4, <3>7
  <2> QED BY <2>1, <2>2
<1>3. Nat \subseteq S
  <2> HIDE DEF S
  <2> QED BY <1>1, <1>2, NatSetInduction
<1>4. n \in S
      BY <1>3
<1> QED BY <1>4

\* Whoever books, moves, follows up or cancels, no circle of transactions of any length waits for each
\* other's row locks, in a system without switched events.
THEOREM NoCycleOfAnyLength == ASSUME NoSwitchedEvent PROVE Spec => []NoWaitingCycle
<1>1. WellFormed /\ WaitsUpwards => NoWaitingCycle
  <2> SUFFICES ASSUME WellFormed, WaitsUpwards, NEW n \in Nat, NEW chain \in [0..n -> Requests],
                      \A i \in 0..n - 1 : WaitsFor(chain[i], chain[i + 1]),
                      WaitsFor(chain[n], chain[0])
               PROVE  FALSE
      BY DEF NoWaitingCycle
  <2>1. n # 0
        BY DEF WaitsFor
  <2>2. /\ 0 \in 0..n - 1 /\ 0 \in 0..n /\ 1 \in 0..n /\ n \in 0..n /\ n > 0 /\ 0 + 1 = 1
        /\ chain[0] \in Requests /\ chain[1] \in Requests /\ chain[n] \in Requests
        BY <2>1
  <2>3. PICK x : x \in Wanted(chain[0]) \cap held[chain[1]] /\ chain[0] # chain[1]
        BY <2>2 DEF WaitsFor
  <2>4. PICK z : z \in Wanted(chain[n]) \cap held[chain[0]] /\ chain[n] # chain[0]
        BY DEF WaitsFor
  <2>5. x \in Rows /\ z \in Rows
        BY <2>2, <2>3, <2>4 DEF WellFormed, TypeOK
  <2>6. PICK y \in held[chain[n]] : LockRank(x) <= LockRank(y)
        BY <2>2, <2>3, <2>5, RanksClimb
  <2>7. y \in Rows
        BY <2>2, <2>6 DEF WellFormed, TypeOK
  <2>8. LockRank(y) < LockRank(z) /\ LockRank(z) < LockRank(x)
        BY <2>2, <2>3, <2>4, <2>6 DEF WaitsUpwards
  <2>9. LockRank(x) \in 1..4 /\ LockRank(y) \in 1..4 /\ LockRank(z) \in 1..4
        BY <2>5, <2>7, LockRanks DEF Rows
  <2> QED BY <2>6, <2>8, <2>9
<1> QED BY <1>1, LockOrder, WellFormedInvariant, PTL
=============================================================================
