--------------------------- MODULE BookingProofs ---------------------------
(***************************************************************************)
(* Booking for every set of events, slots, coaches, students, requests and *)
(* calls: type correctness, and what each step of a handler leaves alone;  *)
(* and, as long as PATCH does not put a booking back, that no student is   *)
(* ever double-booked, that no slot is ever oversold and that Booking      *)
(* implements BookingLedger.                                               *)
(***************************************************************************)
EXTENDS Booking, FiniteSetTheorems, TLAPS

\* A row of Booking that exists names its event, start and student.
RowsOK ==
    \A b \in Requests : Exists(b) =>
        /\ bookings[b].event \in Events
        /\ bookings[b].start \in Starts
        /\ bookings[b].student \in Students

\* What a handler knows of the booking it is about to write.
TxOK(r) ==
    /\ tx[r].op \in BookingOps
    /\ tx[r].event \in Events
    /\ tx[r].start \in Starts
    /\ tx[r].student \in Students
    /\ tx[r].op # "reschedule" => tx[r].target = r
    /\ tx[r].op = "reschedule" =>
         /\ tx[r].target \in Requests
         /\ Exists(tx[r].target)
         /\ bookings[tx[r].target].event = tx[r].event
         /\ bookings[tx[r].target].student = tx[r].student

HandlersOK ==
    \A r \in Requests :
        /\ pc[r] \in InTransaction => TxOK(r)
        /\ pc[r] = "cancelling" => tx[r].target \in Requests /\ Exists(tx[r].target)
        /\ pc[r] = "cancellingSlot" => tx[r].slot \in Slots

\* The booking a request creates is its own: nobody else writes it first.
Uncreated ==
    \A r \in Requests :
        pc[r] = "idle" \/ (pc[r] \in InTransaction /\ tx[r].op # "reschedule") => ~Exists(r)

WellFormed == TypeOK /\ RowsOK /\ HandlersOK /\ Uncreated

-----------------------------------------------------------------------------
(* What the operators return *)

\* A selection names coaches, and a cursor that is a number.
LEMMA SelectionType ==
    ASSUME TypeOK,
           NEW e \in Events, NEW t, NEW s \in Slots \cup {Null}, NEW preferred, NEW b,
           NEW x \in Selections(e, t, s, preferred, b)
    PROVE  /\ x = [coach |-> x.coach, coHosts |-> x.coHosts, cursor |-> x.cursor]
           /\ x.coach \in Coaches \cup {Null}
           /\ x.coHosts \in SUBSET Coaches
           /\ x.cursor \in Nat \cup {Null}
<1> DEFINE Team(y) == /\ y = [coach |-> y.coach, coHosts |-> y.coHosts, cursor |-> y.cursor]
                      /\ y.coach \in Coaches \cup {Null}
                      /\ y.coHosts \in SUBSET Coaches
                      /\ y.cursor \in Nat \cup {Null}
           free == FreeCoaches(e, t, s, b)
<1>1. free \subseteq Pool(e) /\ Pool(e) \subseteq Coaches
      BY SchemaAssumption DEF FreeCoaches, Pool
<1>2. \A c \in Pool(e) : CursorAfter(e, c) \in Nat
      BY SchemaAssumption DEF CursorAfter, Pool
<1>3. \A c \in Coaches \cup {Null} : Team(Lone(c))
      BY DEF Lone
<1>4. ASSUME NEW y \in StrategyLead(e, free) PROVE Team(y)
  <2>1. CASE Event[e].strategy = "DIRECT"
        BY <1>1, <1>3, <2>1 DEF StrategyLead
  <2>2. CASE Event[e].strategy # "DIRECT"
    <3>1. PICK c \in free : y = [Lone(c) EXCEPT !.cursor = CursorAfter(e, c)]
          BY <2>2 DEF StrategyLead
    <3>2. y = [coach |-> c, coHosts |-> {}, cursor |-> CursorAfter(e, c)]
          BY <3>1 DEF Lone
    <3>3. CursorAfter(e, c) \in Nat /\ c \in Coaches
          BY <1>1, <1>2
    <3> QED BY <3>2, <3>3
  <2> QED BY <2>1, <2>2
<1>5. ASSUME NEW lead, Team(lead), NEW y \in WithCoHosts(e, free, lead) PROVE Team(y)
  <2>1. PICK hosts \in SUBSET free, k \in Nat \cup {lead.cursor} :
              y = [lead EXCEPT !.coHosts = hosts, !.cursor = k]
        BY <1>1, <1>2, <1>5 DEF WithCoHosts
  <2>2. y = [coach |-> lead.coach, coHosts |-> hosts, cursor |-> k]
        BY <1>5, <2>1
  <2> QED BY <1>1, <1>5, <2>2
<1>6. CASE Event[e].anonymous
      BY <1>3, <1>6 DEF Selections
<1>7. ASSUME NEW y \in SessionTeams(e, t, s) PROVE Team(y)
      BY <1>7 DEF SessionTeams, TypeOK, Slot, Booking
<1>8. ASSUME s # Null, slots[s].coach # Null PROVE Team(Lone(slots[s].coach))
      BY <1>3, <1>8 DEF TypeOK, Slot
<1>9. ASSUME NEW y \in SingleHost(e, free, preferred) PROVE Team(y)
      BY <1>1, <1>3, <1>4, <1>9 DEF SingleHost
<1>10. ASSUME NEW y \in CollaborativeTeam(e, free) PROVE Team(y)
      BY <1>1, <1>3, <1>4, <1>5, <1>10 DEF CollaborativeTeam
<1> QED BY <1>6, <1>7, <1>8, <1>9, <1>10 DEF Selections

\* resolveMatchingScheduleSlot returns a slot of that event that starts then, or null.
LEMMA MatchingSlotType ==
    ASSUME NEW e, NEW t
    PROVE  /\ MatchingSlot(e, t) \in Slots \cup {Null}
           /\ MatchingSlot(e, t) # Null =>
                SlotEvent[MatchingSlot(e, t)] = e /\ slots[MatchingSlot(e, t)].start = t
<1> DEFINE found == {s \in Slots : SlotEvent[s] = e /\ slots[s].start = t /\ slots[s].active}
<1>1. CASE found = {}
      BY <1>1 DEF MatchingSlot
<1>2. CASE found # {}
      BY <1>2 DEF MatchingSlot
<1> QED BY <1>1, <1>2

\* What the members of Calls look like.
LEMMA CallTypes ==
    /\ \A c \in Asked("create") : /\ c.event \in Events /\ c.start \in Starts
                                  /\ c.student \in Students /\ c.preferred \in Coaches \cup {Null}
    /\ \A c \in Asked("reschedule") : /\ c.booking \in Requests /\ c.start \in Starts
                                      /\ c.token \in Nat \cup {Null}
    /\ \A c \in Asked("followUp") : c.booking \in Requests /\ c.start \in Starts
    /\ \A c \in Asked("cancel") : c.booking \in Requests
    /\ \A c \in Asked("patch") : c.booking \in Requests /\ c.status \in Statuses
    /\ \A c \in Asked("cancelSlot") : c.slot \in Slots
    /\ \A c \in Asked("deactivateUser") : c.user \in Coaches
BY CallsAssumption DEF Asked, Call

\* The locals a booking transaction starts with.
LEMMA BookingTxType ==
    ASSUME NEW op \in BookingOps, NEW e \in Events, NEW t \in Starts, NEW st \in Students,
           NEW preferred \in Coaches \cup {Null}, NEW target \in Requests
    PROVE  LET x == BookingTx(op, e, t, st, preferred, target)
           IN  /\ x \in Local
               /\ x.op = op /\ x.event = e /\ x.start = t /\ x.student = st
               /\ x.slot = MatchingSlot(e, t) /\ x.target = target
<1>1. MatchingSlot(e, t) \in Slots \cup {Null}
      BY MatchingSlotType
<1>2. NoTx \in Local
      BY DEF NoTx, Local
<1> QED BY <1>1, <1>2 DEF BookingTx, Local

\* Writing the status leaves the rest of a booking alone.
LEMMA StatusWrite ==
    ASSUME NEW x \in Booking, NEW st \in Statuses
    PROVE  LET y == [x EXCEPT !.status = st]
           IN  /\ y \in Booking
               /\ y.status = st
               /\ y.event = x.event /\ y.start = x.start /\ y.student = x.student
               /\ y.slot = x.slot
BY DEF Booking

\* The locals of a request that is not being served.
LEMMA NoTxType == NoTx \in Local
BY DEF NoTx, Local

\* The rows a run starts from are well formed.
LEMMA InitWellFormed == Init => WellFormed
<1> SUFFICES ASSUME Init PROVE WellFormed
    OBVIOUS
<1>1. VacantBooking \in Booking /\ VacantBooking.status = "VACANT"
      BY DEF VacantBooking, Booking, Statuses
<1>2. TypeOK
      BY <1>1, NoTxType, DataAssumption DEF Init, TypeOK, Steps
<1>3. \A b \in Requests : ~Exists(b)
      BY <1>1 DEF Init, Exists
<1>4. \A r \in Requests : pc[r] = "idle"
      BY DEF Init
<1>5. HandlersOK
      BY <1>4 DEF HandlersOK, InTransaction
<1> QED BY <1>2, <1>3, <1>5 DEF WellFormed, RowsOK, Uncreated

-----------------------------------------------------------------------------
(* Type correctness *)

\* Every step keeps the types.
LEMMA TypeStep == WellFormed /\ [Next]_vars => TypeOK'
<1> SUFFICES ASSUME TypeOK, RowsOK, HandlersOK, [Next]_vars PROVE TypeOK'
    BY DEF WellFormed
<1> USE DEF rowVars, Steps, InTransaction
<1>1. ASSUME NEW r \in Requests, CreateBooking(r) PROVE TypeOK'
  <2>1. PICK c \in Asked("create") :
           Begin(r, "locking", BookingTx("create", c.event, c.start, c.student, c.preferred, r))
        BY <1>1 DEF CreateBooking
  <2>2. BookingTx("create", c.event, c.start, c.student, c.preferred, r) \in Local
        BY CallTypes, BookingTxType DEF BookingOps
  <2> QED BY <1>1, <2>1, <2>2 DEF CreateBooking, Begin, TypeOK
<1>2. ASSUME NEW r \in Requests, RescheduleBooking(r) PROVE TypeOK'
  <2>1. PICK c \in Asked("reschedule") :
           LET old == bookings[c.booking] IN
           /\ Exists(c.booking)
           /\ Begin(r, "locking",
                    [BookingTx("reschedule", old.event, c.start, old.student, old.coach, c.booking)
                       EXCEPT !.token = c.token])
        BY <1>2 DEF RescheduleBooking
  <2> DEFINE old == bookings[c.booking]
             t == BookingTx("reschedule", old.event, c.start, old.student, old.coach, c.booking)
  <2>2. c.booking \in Requests /\ c.start \in Starts /\ c.token \in Nat \cup {Null}
        BY CallTypes
  <2>3. /\ old.event \in Events /\ old.student \in Students
        /\ old.coach \in Coaches \cup {Null}
        BY <2>1, <2>2 DEF RowsOK, TypeOK, Booking
  <2>4. t \in Local
        BY <2>2, <2>3, BookingTxType DEF BookingOps
  <2>5. [t EXCEPT !.token = c.token] \in Local
        BY <2>2, <2>4 DEF Local
  <2> QED BY <1>2, <2>1, <2>5 DEF RescheduleBooking, Begin, TypeOK
<1>3. ASSUME NEW r \in Requests, BookFollowUp(r) PROVE TypeOK'
  <2>1. PICK c \in Asked("followUp") :
           LET old == bookings[c.booking] IN
           /\ old.status = "COMPLETED"
           /\ Begin(r, "locking",
                    BookingTx("followUp", old.event, c.start, old.student, old.coach, r))
        BY <1>3 DEF BookFollowUp
  <2> DEFINE old == bookings[c.booking]
  <2>2. c.booking \in Requests /\ c.start \in Starts
        BY CallTypes
  <2>3. /\ old.event \in Events /\ old.student \in Students
        /\ old.coach \in Coaches \cup {Null}
        BY <2>1, <2>2 DEF RowsOK, TypeOK, Booking, Exists
  <2>4. BookingTx("followUp", old.event, c.start, old.student, old.coach, r) \in Local
        BY <2>2, <2>3, BookingTxType DEF BookingOps
  <2> QED BY <1>3, <2>1, <2>4 DEF BookFollowUp, Begin, TypeOK
<1>4. ASSUME NEW r \in Requests, CancelBooking(r) PROVE TypeOK'
  <2>1. PICK c \in Asked("cancel") :
           Begin(r, "cancelling", [NoTx EXCEPT !.op = "cancel", !.target = c.booking])
        BY <1>4 DEF CancelBooking
  <2>2. [NoTx EXCEPT !.op = "cancel", !.target = c.booking] \in Local
        BY CallTypes, NoTxType DEF Local
  <2> QED BY <1>4, <2>1, <2>2 DEF CancelBooking, Begin, TypeOK
<1>5. ASSUME NEW r \in Requests, CancelSlot(r) PROVE TypeOK'
  <2>1. PICK c \in Asked("cancelSlot") :
           Begin(r, "cancellingSlot", [NoTx EXCEPT !.op = "cancelSlot", !.slot = c.slot])
        BY <1>5 DEF CancelSlot
  <2>2. [NoTx EXCEPT !.op = "cancelSlot", !.slot = c.slot] \in Local
        BY CallTypes, NoTxType DEF Local
  <2> QED BY <1>5, <2>1, <2>2 DEF CancelSlot, Begin, TypeOK
<1>6. ASSUME NEW r \in Requests, PatchStatus(r) PROVE TypeOK'
  <2>1. bookings' \in [Requests -> Booking]
    <3>1. PICK c \in Asked("patch") : bookings' = [bookings EXCEPT ![c.booking].status = c.status]
          BY <1>6 DEF PatchStatus
    <3>2. bookings' = [bookings EXCEPT ![c.booking] = [bookings[c.booking] EXCEPT !.status = c.status]]
          BY <3>1
    <3> QED BY <3>2, CallTypes, StatusWrite DEF TypeOK
  <2> QED BY <1>6, <2>1, NoTxType DEF PatchStatus, Finish, TypeOK
<1>7. ASSUME NEW r \in Requests, DeactivateUser(r) PROVE TypeOK'
      BY <1>7, NoTxType DEF DeactivateUser, Finish, TypeOK
<1>8. ASSUME NEW r \in Requests, SelectCoach(r) PROVE TypeOK'
  <2> DEFINE t == tx[r]
             choices == Selections(t.event, t.start, t.slot, t.preferred, Excluded(t))
  <2>1. t \in Local /\ t.event \in Events
        BY <1>8 DEF SelectCoach, TypeOK, HandlersOK, TxOK
  <2>2. CASE choices = {}
        BY <1>8, <2>2, NoTxType DEF SelectCoach, Finish, TypeOK
  <2>3. CASE choices # {}
    <3>1. PICK x \in choices :
            /\ Acquire(r, FirstRow(t))
            /\ Goto(r, IF x.cursor # Null THEN "routing" ELSE "coach",
                    [t EXCEPT !.coach = x.coach, !.coHosts = x.coHosts, !.cursor = x.cursor])
          BY <1>8, <2>3 DEF SelectCoach
    <3>2. /\ x.coach \in Coaches \cup {Null}
          /\ x.coHosts \in SUBSET Coaches
          /\ x.cursor \in Nat \cup {Null}
          BY <2>1, SelectionType DEF Local
    <3>3. [t EXCEPT !.coach = x.coach, !.coHosts = x.coHosts, !.cursor = x.cursor] \in Local
          BY <2>1, <3>2 DEF Local
    <3>4. FirstRow(t) \in Rows
          BY <2>1 DEF FirstRow, Rows, Local
    <3> QED BY <1>8, <3>1, <3>3, <3>4 DEF SelectCoach, Acquire, Goto, TypeOK
  <2> QED BY <2>2, <2>3
<1>9. ASSUME NEW r \in Requests, AdvanceRouting(r) PROVE TypeOK'
  <2>1. tx[r] \in Local /\ RoutingRow(tx[r].event) \in Rows
        BY <1>9 DEF AdvanceRouting, TypeOK, HandlersOK, TxOK, Rows
  <2> QED BY <1>9, <2>1 DEF AdvanceRouting, Acquire, Goto, TypeOK
<1>10. ASSUME NEW r \in Requests, LockCoach(r) PROVE TypeOK'
  <2>1. tx[r] \in Local /\ (tx[r].coach # Null => CoachRow(tx[r].coach) \in Rows)
        BY DEF TypeOK, Rows, Local
  <2>2. CASE CoachStillEligible(tx[r])
        BY <1>10, <2>1, <2>2 DEF LockCoach, Goto, TypeOK
  <2>3. CASE ~CoachStillEligible(tx[r])
        BY <1>10, <2>3, NoTxType DEF LockCoach, Finish, TypeOK
  <2> QED BY <2>2, <2>3
<1>11. ASSUME NEW r \in Requests, CheckSeats(r) PROVE TypeOK'
  <2> DEFINE t == tx[r]
             s == IF t.slot # Null THEN t.slot ELSE MatchingSlot(t.event, t.start)
  <2>1. s \in Slots \cup {Null} /\ t \in Local
        BY MatchingSlotType DEF TypeOK, Local
  <2>2. [t EXCEPT !.slot = s] \in Local
        BY <2>1 DEF Local
  <2> QED BY <1>11, <2>2, NoTxType DEF CheckSeats, Goto, Finish, TypeOK
<1>12. ASSUME NEW r \in Requests, LockStudent(r) PROVE TypeOK'
  <2>1. tx[r] \in Local /\ StudentRow(tx[r].student) \in Rows
        BY <1>12 DEF LockStudent, TypeOK, HandlersOK, TxOK, Rows
  <2> QED BY <1>12, <2>1, NoTxType DEF LockStudent, Acquire, Goto, Finish, TypeOK
<1>13. ASSUME NEW r \in Requests, WriteBooking(r) PROVE TypeOK'
  <2> DEFINE t == tx[r]
             new == [status |-> "CONFIRMED", event |-> t.event, start |-> t.start,
                     coach |-> t.coach, coHosts |-> t.coHosts, student |-> t.student,
                     slot |-> t.slot,
                     token |-> IF t.token = Null THEN bookings[t.target].token
                               ELSE bookings[t.target].token + 1]
  <2>1. TxOK(r) /\ t \in Local /\ t.target \in Requests
        BY <1>13 DEF WriteBooking, HandlersOK, TxOK, TypeOK
  <2>2. bookings[t.target].token \in Nat
        BY <2>1 DEF TypeOK, Booking
  <2>3. new \in Booking
        BY <2>1, <2>2 DEF Booking, Statuses, Local
  <2>4. bookings' = [bookings EXCEPT ![t.target] = new]
        BY <1>13 DEF WriteBooking
  <2>5. routing' \in [Events -> Nat]
        BY <1>13, <2>1 DEF WriteBooking, TypeOK, Local
  <2> QED BY <1>13, <2>3, <2>4, <2>5, NoTxType DEF WriteBooking, Finish, TypeOK
<1>14. ASSUME NEW r \in Requests, WriteCancellation(r) PROVE TypeOK'
  <2>1. bookings' \in [Requests -> Booking]
    <3>1. bookings' = [bookings EXCEPT ![tx[r].target] =
                         [bookings[tx[r].target] EXCEPT !.status = "CANCELLED"]]
          BY <1>14 DEF WriteCancellation
    <3>2. tx[r].target \in Requests
          BY <1>14 DEF WriteCancellation, HandlersOK
    <3> QED BY <3>1, <3>2, StatusWrite DEF TypeOK, Statuses
  <2> QED BY <1>14, <2>1, NoTxType DEF WriteCancellation, Finish, TypeOK
<1>15. ASSUME NEW r \in Requests, WriteSlotCancellation(r) PROVE TypeOK'
  <2>1. bookings' \in [Requests -> Booking]
    <3>1. \A b \in Requests : [bookings[b] EXCEPT !.status = "CANCELLED"] \in Booking
          BY StatusWrite DEF TypeOK, Statuses
    <3> QED BY <1>15, <3>1 DEF WriteSlotCancellation, TypeOK
  <2>2. slots' \in [Slots -> Slot]
        BY <1>15 DEF WriteSlotCancellation, TypeOK, Slot
  <2> QED BY <1>15, <2>1, <2>2, NoTxType DEF WriteSlotCancellation, Finish, TypeOK
<1>16. ASSUME NEW r \in Requests, GiveUp(r) PROVE TypeOK'
      BY <1>16, NoTxType DEF GiveUp, Finish, TypeOK
<1>17. CASE Tick
      BY <1>17 DEF Tick, TypeOK
<1>18. CASE UNCHANGED vars
      BY <1>18 DEF vars, TypeOK
<1> QED BY <1>1, <1>2, <1>3, <1>4, <1>5, <1>6, <1>7, <1>8, <1>9, <1>10, <1>11, <1>12, <1>13,
           <1>14, <1>15, <1>16, <1>17, <1>18 DEF Next, Receive, Serve

-----------------------------------------------------------------------------
(* What a step leaves alone *)

\* A step of a handler changes no other handler and no lock of another transaction.
LEMMA OneHandler ==
    TypeOK /\ [Next]_vars =>
        \/ UNCHANGED <<pc, tx, held>>
        \/ \E r \in Requests :
              /\ Receive(r) \/ Serve(r) \/ GiveUp(r)
              /\ \A q \in Requests \ {r} :
                   pc'[q] = pc[q] /\ tx'[q] = tx[q] /\ held'[q] = held[q]
<1> SUFFICES ASSUME TypeOK, [Next]_vars, ~UNCHANGED <<pc, tx, held>>
             PROVE  \E r \in Requests :
                      /\ Receive(r) \/ Serve(r) \/ GiveUp(r)
                      /\ \A q \in Requests \ {r} :
                           pc'[q] = pc[q] /\ tx'[q] = tx[q] /\ held'[q] = held[q]
    OBVIOUS
<1> DEFINE Others(r) == \A q \in Requests \ {r} :
                          pc'[q] = pc[q] /\ tx'[q] = tx[q] /\ held'[q] = held[q]
<1>1. ASSUME NEW r \in Requests, NEW step, NEW t,
             \/ Begin(r, step, t)
             \/ Finish(r)
             \/ Goto(r, step, t) /\ (UNCHANGED held \/ \E x : held' = [held EXCEPT ![r] = x])
      PROVE  Others(r)
      BY <1>1 DEF TypeOK, Begin, Finish, Goto
<1> HIDE DEF Others
<1>2. ASSUME NEW r \in Requests, Receive(r) PROVE Others(r)
      BY <1>1, <1>2 DEF Receive, CreateBooking, RescheduleBooking, BookFollowUp, CancelBooking,
                        PatchStatus, CancelSlot, DeactivateUser
<1>3. ASSUME NEW r \in Requests, SelectCoach(r) \/ AdvanceRouting(r) \/ LockStudent(r)
      PROVE  Others(r)
      BY <1>1, <1>3 DEF SelectCoach, AdvanceRouting, LockStudent, Acquire
<1>4. ASSUME NEW r \in Requests, LockCoach(r) \/ CheckSeats(r) PROVE Others(r)
      BY <1>1, <1>4 DEF LockCoach, CheckSeats
<1>5. ASSUME NEW r \in Requests,
             WriteBooking(r) \/ WriteCancellation(r) \/ WriteSlotCancellation(r) \/ GiveUp(r)
      PROVE  Others(r)
      BY <1>1, <1>5 DEF WriteBooking, WriteCancellation, WriteSlotCancellation, GiveUp
<1>6. ~Tick /\ ~UNCHANGED vars
      BY DEF Tick, vars
<1>7. \E r \in Requests : (Receive(r) \/ Serve(r) \/ GiveUp(r)) /\ Others(r)
      BY <1>2, <1>3, <1>4, <1>5, <1>6 DEF Next, Serve
<1> QED BY <1>7 DEF Others

\* Only four actions write bookings.
LEMMA Writers ==
    [Next]_vars =>
        \/ UNCHANGED bookings
        \/ \E r \in Requests : \/ WriteBooking(r) \/ WriteCancellation(r)
                               \/ PatchStatus(r) \/ WriteSlotCancellation(r)
BY DEF Next, Receive, Serve, vars, rowVars, Tick, CreateBooking, RescheduleBooking,
       BookFollowUp, CancelBooking, CancelSlot, DeactivateUser, SelectCoach,
       AdvanceRouting, LockCoach, CheckSeats, LockStudent, GiveUp

\* What WriteBooking writes, and to whom.
LEMMA Written ==
    ASSUME TypeOK, HandlersOK, NEW r \in Requests, WriteBooking(r)
    PROVE  /\ TxOK(r)
           /\ tx[r].target \in Requests
           /\ \A b \in Requests \ {tx[r].target} : bookings'[b] = bookings[b]
           /\ LET x == bookings'[tx[r].target]
              IN  /\ x.status = "CONFIRMED"
                  /\ x.event = tx[r].event /\ x.start = tx[r].start
                  /\ x.student = tx[r].student /\ x.slot = tx[r].slot
<1>1. TxOK(r) /\ tx[r].target \in Requests
      BY DEF WriteBooking, HandlersOK, TxOK, InTransaction
<1> QED BY <1>1 DEF WriteBooking, TypeOK

\* What the other three write: statuses.
LEMMA StatusOnly ==
    ASSUME TypeOK, HandlersOK, NEW r \in Requests,
           WriteCancellation(r) \/ PatchStatus(r) \/ WriteSlotCancellation(r)
    PROVE  \A b \in Requests :
             \/ bookings'[b] = bookings[b]
             \/ /\ Exists(b)
                /\ \/ bookings'[b].status = "CANCELLED"
                   \/ \E c \in Asked("patch") : bookings'[b].status = c.status
                /\ bookings'[b].status \in Statuses
                /\ bookings'[b].event = bookings[b].event
                /\ bookings'[b].start = bookings[b].start
                /\ bookings'[b].student = bookings[b].student
                /\ bookings'[b].slot = bookings[b].slot
<1>1. ASSUME NEW b \in Requests, NEW st \in Statuses
      PROVE  LET y == [bookings[b] EXCEPT !.status = st]
             IN  /\ y.status = st
                 /\ y.event = bookings[b].event /\ y.start = bookings[b].start
                 /\ y.student = bookings[b].student /\ y.slot = bookings[b].slot
      BY StatusWrite DEF TypeOK
<1>2. "CANCELLED" \in Statuses
      BY DEF Statuses
<1>3. CASE WriteCancellation(r)
  <2>1. tx[r].target \in Requests /\ Exists(tx[r].target)
        BY <1>3 DEF WriteCancellation, HandlersOK
  <2>2. bookings' = [bookings EXCEPT ![tx[r].target] =
                       [bookings[tx[r].target] EXCEPT !.status = "CANCELLED"]]
        BY <1>3 DEF WriteCancellation
  <2> QED BY <1>1, <1>2, <2>1, <2>2 DEF TypeOK
<1>4. CASE PatchStatus(r)
  <2>1. PICK c \in Asked("patch") :
           Exists(c.booking) /\ bookings' = [bookings EXCEPT ![c.booking].status = c.status]
        BY <1>4 DEF PatchStatus
  <2>2. bookings' = [bookings EXCEPT ![c.booking] = [bookings[c.booking] EXCEPT !.status = c.status]]
        BY <2>1
  <2>3. c.booking \in Requests /\ c.status \in Statuses
        BY CallTypes
  <2> QED BY <1>1, <2>1, <2>2, <2>3 DEF TypeOK
<1>5. CASE WriteSlotCancellation(r)
  <2>1. \A b \in Requests : Active(b) => Exists(b)
        BY DEF Active, ActiveStatuses, Exists
  <2> QED BY <1>1, <1>2, <1>5, <2>1 DEF WriteSlotCancellation
<1> QED BY <1>3, <1>4, <1>5

\* A booking that exists goes on to, with its event and its student.
LEMMA BookingsPersist ==
    ASSUME WellFormed, [Next]_vars, NEW b \in Requests, Exists(b)
    PROVE  /\ Exists(b)'
           /\ bookings'[b].event = bookings[b].event
           /\ bookings'[b].student = bookings[b].student
<1> USE DEF WellFormed
<1>1. CASE UNCHANGED bookings
      BY <1>1 DEF Exists
<1>2. ASSUME NEW r \in Requests, WriteBooking(r)
      PROVE  /\ Exists(b)'
             /\ bookings'[b].event = bookings[b].event
             /\ bookings'[b].student = bookings[b].student
  <2>1. b = tx[r].target => tx[r].op = "reschedule"
    <3>1. pc[r] = "write" /\ TxOK(r)
          BY <1>2, Written DEF WriteBooking
    <3> QED BY <3>1 DEF TxOK, Uncreated, InTransaction
  <2> QED BY <1>2, <2>1, Written DEF TxOK, Exists
<1>3. ASSUME NEW r \in Requests,
             WriteCancellation(r) \/ PatchStatus(r) \/ WriteSlotCancellation(r)
      PROVE  /\ Exists(b)'
             /\ bookings'[b].event = bookings[b].event
             /\ bookings'[b].student = bookings[b].student
      BY <1>3, StatusOnly DEF Exists, Statuses
<1> QED BY <1>1, <1>2, <1>3, Writers

\* A booking comes into being only when its own request writes it.
LEMMA BookingsAppear ==
    ASSUME WellFormed, [Next]_vars, NEW b \in Requests, ~Exists(b), Exists(b)'
    PROVE  WriteBooking(b)
<1> USE DEF WellFormed
<1>1. ASSUME NEW r \in Requests, WriteBooking(r) PROVE r = b
      BY <1>1, Written DEF TxOK, Exists
<1>2. ~UNCHANGED bookings
      BY DEF Exists
<1>3. ASSUME NEW r \in Requests,
             WriteCancellation(r) \/ PatchStatus(r) \/ WriteSlotCancellation(r)
      PROVE  FALSE
      BY <1>3, StatusOnly DEF Exists
<1> QED BY <1>1, <1>2, <1>3, Writers

-----------------------------------------------------------------------------
(* The rest of WellFormed is inductive *)

\* Every step leaves bookings that name their event, start and student.
LEMMA RowsStep == WellFormed /\ [Next]_vars => RowsOK'
<1> SUFFICES ASSUME WellFormed, [Next]_vars, NEW b \in Requests, Exists(b)'
             PROVE  /\ bookings'[b].event \in Events
                    /\ bookings'[b].start \in Starts
                    /\ bookings'[b].student \in Students
    BY DEF RowsOK
<1> USE DEF WellFormed
<1>1. CASE UNCHANGED bookings
      BY <1>1 DEF Exists, RowsOK
<1>2. ASSUME NEW r \in Requests, WriteBooking(r)
      PROVE  /\ bookings'[b].event \in Events
             /\ bookings'[b].start \in Starts
             /\ bookings'[b].student \in Students
      BY <1>2, Written DEF TxOK, Exists, RowsOK
<1>3. ASSUME NEW r \in Requests,
             WriteCancellation(r) \/ PatchStatus(r) \/ WriteSlotCancellation(r)
      PROVE  /\ bookings'[b].event \in Events
             /\ bookings'[b].start \in Starts
             /\ bookings'[b].student \in Students
      BY <1>3, StatusOnly DEF Exists, RowsOK
<1> QED BY <1>1, <1>2, <1>3, Writers

\* A handler that enters a booking transaction knows its booking.
LEMMA EnterTx ==
    ASSUME WellFormed, NEW r \in Requests,
           CreateBooking(r) \/ RescheduleBooking(r) \/ BookFollowUp(r)
    PROVE  /\ pc[r] = "idle"
           /\ pc'[r] = "locking"
           /\ TxOK(r)'
<1> USE DEF WellFormed, BookingOps
<1>1. CASE CreateBooking(r)
  <2>1. PICK c \in Asked("create") :
           Begin(r, "locking", BookingTx("create", c.event, c.start, c.student, c.preferred, r))
        BY <1>1 DEF CreateBooking
  <2> DEFINE t == BookingTx("create", c.event, c.start, c.student, c.preferred, r)
  <2>2. /\ c.event \in Events /\ c.start \in Starts /\ c.student \in Students
        /\ c.preferred \in Coaches \cup {Null}
        BY CallTypes
  <2>3. /\ t.op = "create" /\ t.event = c.event /\ t.start = c.start
        /\ t.student = c.student /\ t.target = r
        BY <2>2, BookingTxType
  <2>4. pc[r] = "idle" /\ pc'[r] = "locking" /\ tx'[r] = t
        BY <1>1, <2>1 DEF CreateBooking, Begin, TypeOK
  <2> HIDE DEF t
  <2> QED BY <2>2, <2>3, <2>4 DEF TxOK
<1>2. CASE RescheduleBooking(r)
  <2>1. PICK c \in Asked("reschedule") :
           LET old == bookings[c.booking] IN
           /\ Exists(c.booking)
           /\ Begin(r, "locking",
                    [BookingTx("reschedule", old.event, c.start, old.student, old.coach, c.booking)
                       EXCEPT !.token = c.token])
        BY <1>2 DEF RescheduleBooking
  <2> DEFINE old == bookings[c.booking]
             t == BookingTx("reschedule", old.event, c.start, old.student, old.coach, c.booking)
  <2>2. c.booking \in Requests /\ c.start \in Starts
        BY CallTypes
  <2>3. old.event \in Events /\ old.student \in Students /\ old.coach \in Coaches \cup {Null}
        BY <2>1, <2>2 DEF RowsOK, TypeOK, Booking
  <2>4. /\ t \in Local /\ t.op = "reschedule" /\ t.event = old.event /\ t.start = c.start
        /\ t.student = old.student /\ t.target = c.booking
        BY <2>2, <2>3, BookingTxType
  <2>5. LET x == [t EXCEPT !.token = c.token]
        IN  /\ x.op = "reschedule" /\ x.event = old.event /\ x.start = c.start
            /\ x.student = old.student /\ x.target = c.booking
        BY <2>4 DEF Local
  <2>6. tx'[r] = [t EXCEPT !.token = c.token] /\ pc'[r] = "locking" /\ bookings' = bookings
        BY <1>2, <2>1 DEF Begin, RescheduleBooking, rowVars, TypeOK
  <2>7. pc[r] = "idle"
        BY <1>2 DEF RescheduleBooking
  <2> QED BY <2>1, <2>2, <2>3, <2>5, <2>6, <2>7 DEF TxOK, Exists
<1>3. CASE BookFollowUp(r)
  <2>1. PICK c \in Asked("followUp") :
           LET old == bookings[c.booking] IN
           /\ old.status = "COMPLETED"
           /\ Begin(r, "locking",
                    BookingTx("followUp", old.event, c.start, old.student, old.coach, r))
        BY <1>3 DEF BookFollowUp
  <2> DEFINE old == bookings[c.booking]
             t == BookingTx("followUp", old.event, c.start, old.student, old.coach, r)
  <2>2. c.booking \in Requests /\ c.start \in Starts
        BY CallTypes
  <2>3. old.event \in Events /\ old.student \in Students /\ old.coach \in Coaches \cup {Null}
        BY <2>1, <2>2 DEF RowsOK, TypeOK, Booking, Exists
  <2>4. /\ t.op = "followUp" /\ t.event = old.event /\ t.start = c.start
        /\ t.student = old.student /\ t.target = r
        BY <2>2, <2>3, BookingTxType
  <2>5. pc[r] = "idle" /\ pc'[r] = "locking" /\ tx'[r] = t
        BY <1>3, <2>1 DEF BookFollowUp, Begin, TypeOK
  <2> HIDE DEF t
  <2> QED BY <2>2, <2>3, <2>4, <2>5 DEF TxOK
<1> QED BY <1>1, <1>2, <1>3

\* A booking transaction keeps its call while it goes on, and writes nothing.
LEMMA StayInTx ==
    ASSUME WellFormed, NEW r \in Requests,
           \/ SelectCoach(r) \/ AdvanceRouting(r) \/ LockCoach(r) \/ CheckSeats(r)
           \/ LockStudent(r)
    PROVE  /\ pc[r] \in InTransaction
           /\ UNCHANGED bookings
           /\ \/ pc'[r] = "done"
              \/ /\ pc'[r] \in InTransaction
                 /\ tx'[r].op = tx[r].op /\ tx'[r].event = tx[r].event
                 /\ tx'[r].start = tx[r].start /\ tx'[r].student = tx[r].student
                 /\ tx'[r].target = tx[r].target
<1> USE DEF WellFormed, rowVars, InTransaction, Finish, Goto, TypeOK
<1>1. tx[r] \in Local
      OBVIOUS
<1>2. CASE SelectCoach(r)
  <2> DEFINE t == tx[r]
             choices == Selections(t.event, t.start, t.slot, t.preferred, Excluded(t))
  <2>1. pc[r] = "locking" /\ UNCHANGED bookings
        BY <1>2 DEF SelectCoach
  <2>2. CASE choices = {}
        BY <1>2, <2>1, <2>2 DEF SelectCoach
  <2>3. CASE choices # {}
    <3>1. PICK x \in choices :
            Goto(r, IF x.cursor # Null THEN "routing" ELSE "coach",
                 [t EXCEPT !.coach = x.coach, !.coHosts = x.coHosts, !.cursor = x.cursor])
          BY <1>2, <2>3 DEF SelectCoach
    <3>2. tx'[r] = [t EXCEPT !.coach = x.coach, !.coHosts = x.coHosts, !.cursor = x.cursor]
          BY <3>1
    <3>3. tx'[r].op = t.op /\ tx'[r].event = t.event /\ tx'[r].start = t.start
          /\ tx'[r].student = t.student /\ tx'[r].target = t.target
          BY <1>1, <3>2 DEF Local
    <3>4. pc'[r] \in InTransaction
          BY <3>1
    <3> QED BY <2>1, <3>3, <3>4
  <2> QED BY <2>2, <2>3
<1>3. CASE AdvanceRouting(r)
      BY <1>3 DEF AdvanceRouting
<1>4. CASE LockCoach(r)
      BY <1>4 DEF LockCoach
<1>5. CASE CheckSeats(r)
  <2>1. pc[r] = "seats" /\ UNCHANGED bookings
        BY <1>5 DEF CheckSeats
  <2>2. CASE Finish(r)
        BY <2>1, <2>2
  <2>3. ASSUME NEW s, Goto(r, "student", [tx[r] EXCEPT !.slot = s])
        PROVE  /\ pc'[r] \in InTransaction
               /\ tx'[r].op = tx[r].op /\ tx'[r].event = tx[r].event
               /\ tx'[r].start = tx[r].start /\ tx'[r].student = tx[r].student
               /\ tx'[r].target = tx[r].target
    <3>1. pc'[r] = "student" /\ tx'[r] = [tx[r] EXCEPT !.slot = s]
          BY <2>3
    <3> QED BY <1>1, <3>1 DEF Local
  <2>4. Finish(r) \/ \E s : Goto(r, "student", [tx[r] EXCEPT !.slot = s])
        BY <1>5 DEF CheckSeats
  <2> QED BY <2>1, <2>2, <2>3, <2>4
<1>6. CASE LockStudent(r)
      BY <1>6 DEF LockStudent
<1> QED BY <1>2, <1>3, <1>4, <1>5, <1>6

\* What a handler knows of its booking stays true whatever the others do.
LEMMA TxPersists ==
    ASSUME WellFormed, [Next]_vars, NEW r \in Requests, TxOK(r),
           tx'[r].op = tx[r].op, tx'[r].event = tx[r].event, tx'[r].start = tx[r].start,
           tx'[r].student = tx[r].student, tx'[r].target = tx[r].target
    PROVE  TxOK(r)'
BY BookingsPersist DEF TxOK

\* Every other step of a handler is its last.
LEMMA LastStep ==
    ASSUME TypeOK, NEW r \in Requests,
           \/ WriteBooking(r) \/ WriteCancellation(r) \/ WriteSlotCancellation(r)
           \/ PatchStatus(r) \/ DeactivateUser(r) \/ GiveUp(r)
    PROVE  pc'[r] = "done"
BY DEF WriteBooking, WriteCancellation, WriteSlotCancellation, PatchStatus, DeactivateUser,
       GiveUp, Finish, TypeOK

\* A cancellation under way knows its booking or its slot.
LEMMA EnterCancellation ==
    ASSUME TypeOK, NEW r \in Requests, CancelBooking(r) \/ CancelSlot(r)
    PROVE  \/ /\ pc'[r] = "cancelling"
              /\ tx'[r].target \in Requests /\ Exists(tx'[r].target)
           \/ pc'[r] = "cancellingSlot" /\ tx'[r].slot \in Slots
<1>1. CASE CancelBooking(r)
  <2>1. PICK c \in Asked("cancel") :
           /\ Exists(c.booking)
           /\ Begin(r, "cancelling", [NoTx EXCEPT !.op = "cancel", !.target = c.booking])
        BY <1>1 DEF CancelBooking
  <2>2. [NoTx EXCEPT !.op = "cancel", !.target = c.booking].target = c.booking
        BY DEF NoTx
  <2> QED BY <2>1, <2>2, CallTypes DEF Begin, TypeOK
<1>2. CASE CancelSlot(r)
  <2>1. PICK c \in Asked("cancelSlot") :
           Begin(r, "cancellingSlot", [NoTx EXCEPT !.op = "cancelSlot", !.slot = c.slot])
        BY <1>2 DEF CancelSlot
  <2>2. [NoTx EXCEPT !.op = "cancelSlot", !.slot = c.slot].slot = c.slot
        BY DEF NoTx
  <2> QED BY <2>1, <2>2, CallTypes DEF Begin, TypeOK
<1> QED BY <1>1, <1>2

\* Every step keeps what handlers know of their bookings true.
LEMMA HandlersStep == WellFormed /\ [Next]_vars => HandlersOK'
<1> DEFINE HandlerOK(q) ==
             /\ pc[q] \in InTransaction => TxOK(q)
             /\ pc[q] = "cancelling" => tx[q].target \in Requests /\ Exists(tx[q].target)
             /\ pc[q] = "cancellingSlot" => tx[q].slot \in Slots
<1> SUFFICES ASSUME WellFormed, [Next]_vars, NEW q \in Requests PROVE HandlerOK(q)'
    BY DEF HandlersOK
<1>1. HandlerOK(q)
      BY DEF WellFormed, HandlersOK
<1>2. CASE pc'[q] = pc[q] /\ tx'[q] = tx[q]
      BY <1>1, <1>2, TxPersists, BookingsPersist
<1>3. CASE CreateBooking(q) \/ RescheduleBooking(q) \/ BookFollowUp(q)
      BY <1>3, EnterTx
<1>4. CASE \/ SelectCoach(q) \/ AdvanceRouting(q) \/ LockCoach(q) \/ CheckSeats(q)
           \/ LockStudent(q)
      BY <1>1, <1>4, StayInTx, TxPersists DEF InTransaction
<1>5. CASE \/ WriteBooking(q) \/ WriteCancellation(q) \/ WriteSlotCancellation(q)
           \/ PatchStatus(q) \/ DeactivateUser(q) \/ GiveUp(q)
      BY <1>5, LastStep DEF InTransaction, WellFormed
<1>6. CASE CancelBooking(q) \/ CancelSlot(q)
  <2>1. \A b \in Requests : Exists(b) => Exists(b)'
        BY BookingsPersist
  <2> QED BY <1>6, <2>1, EnterCancellation DEF InTransaction, WellFormed
<1>7. \/ pc'[q] = pc[q] /\ tx'[q] = tx[q]
      \/ Receive(q) \/ Serve(q) \/ GiveUp(q)
      BY OneHandler DEF WellFormed
<1> QED BY <1>2, <1>3, <1>4, <1>5, <1>6, <1>7 DEF Receive, Serve

\* Every step leaves the booking of an open request to that request.
LEMMA UncreatedStep == WellFormed /\ [Next]_vars => Uncreated'
<1> SUFFICES ASSUME WellFormed, [Next]_vars, NEW q \in Requests, Exists(q)',
                    \/ pc'[q] = "idle"
                    \/ pc'[q] \in InTransaction /\ tx'[q].op # "reschedule"
             PROVE  FALSE
    BY DEF Uncreated
<1>1. Exists(q)
  <2>1. ~WriteBooking(q)
        BY LastStep DEF WellFormed, InTransaction
  <2> QED BY <2>1, BookingsAppear
<1>2. CASE pc'[q] = pc[q] /\ tx'[q] = tx[q]
      BY <1>1, <1>2 DEF WellFormed, Uncreated
<1>3. CASE CreateBooking(q) \/ RescheduleBooking(q) \/ BookFollowUp(q)
      BY <1>1, <1>3, EnterTx DEF WellFormed, Uncreated
<1>4. CASE \/ SelectCoach(q) \/ AdvanceRouting(q) \/ LockCoach(q) \/ CheckSeats(q)
           \/ LockStudent(q)
      BY <1>1, <1>4, StayInTx DEF WellFormed, Uncreated, InTransaction
<1>5. CASE \/ WriteBooking(q) \/ WriteCancellation(q) \/ WriteSlotCancellation(q)
           \/ PatchStatus(q) \/ DeactivateUser(q) \/ GiveUp(q)
      BY <1>5, LastStep DEF WellFormed, InTransaction
<1>6. CASE CancelBooking(q) \/ CancelSlot(q)
      BY <1>6, EnterCancellation DEF WellFormed, InTransaction
<1>7. \/ pc'[q] = pc[q] /\ tx'[q] = tx[q]
      \/ Receive(q) \/ Serve(q) \/ GiveUp(q)
      BY OneHandler DEF WellFormed
<1> QED BY <1>2, <1>3, <1>4, <1>5, <1>6, <1>7 DEF Receive, Serve

\* The strengthening: what handlers read of their bookings stays true until they write.
THEOREM WellFormedInvariant == Spec => []WellFormed
<1>1. WellFormed /\ [Next]_vars => WellFormed'
      BY TypeStep, RowsStep, HandlersStep, UncreatedStep DEF WellFormed
<1> QED BY InitWellFormed, <1>1, PTL DEF Spec

\* Every row, handler and lock set has the type its schema or its code gives it.
THEOREM TypeCorrect == Spec => []TypeOK
<1>1. WellFormed => TypeOK
      BY DEF WellFormed
<1> QED BY WellFormedInvariant, <1>1, PTL

-----------------------------------------------------------------------------
(* Students, seats and the ledger *)

\* FOR UPDATE: a row is locked by one transaction at most.
LocksOK == \A q, r \in Requests : q # r => held[q] \cap held[r] = {}

\* From the overlap check to the write the student's row is locked, and the check stays true.
StudentReady ==
    \A r \in Requests : pc[r] = "write" =>
        /\ StudentRow(tx[r].student) \in held[r]
        /\ StudentFree(tx[r].student, tx[r].event, tx[r].start, Excluded(tx[r]))

-----------------------------------------------------------------------------
(* Locks *)

\* A handler only takes rows that nobody else has locked.
LEMMA OnlyUnlocked ==
    ASSUME TypeOK, NEW r \in Requests, Receive(r) \/ Serve(r) \/ GiveUp(r),
           NEW row \in held'[r]
    PROVE  row \in held[r] \/ Unlocked(r, row)
<1> USE DEF TypeOK
<1>1. ASSUME Finish(r) PROVE FALSE
      BY <1>1 DEF Finish
<1>2. CASE UNCHANGED held
      BY <1>2
<1>3. ASSUME NEW x, Acquire(r, x) PROVE row \in held[r] \/ Unlocked(r, row)
      BY <1>3 DEF Acquire
<1>4. CASE Receive(r)
      BY <1>1, <1>2, <1>4 DEF Receive, CreateBooking, RescheduleBooking, BookFollowUp, CancelBooking,
                              PatchStatus, CancelSlot, DeactivateUser, Begin
<1>5. CASE SelectCoach(r) \/ AdvanceRouting(r) \/ LockStudent(r)
      BY <1>1, <1>3, <1>5 DEF SelectCoach, AdvanceRouting, LockStudent
<1>6. CASE LockCoach(r) \/ CheckSeats(r)
      BY <1>1, <1>2, <1>6 DEF LockCoach, CheckSeats
<1>7. CASE WriteBooking(r) \/ WriteCancellation(r) \/ WriteSlotCancellation(r) \/ GiveUp(r)
      BY <1>1, <1>7 DEF WriteBooking, WriteCancellation, WriteSlotCancellation, GiveUp
<1> QED BY <1>4, <1>5, <1>6, <1>7 DEF Serve

\* Every step keeps the locks apart.
LEMMA LocksStep == TypeOK /\ LocksOK /\ [Next]_vars => LocksOK'
<1> SUFFICES ASSUME TypeOK, LocksOK, [Next]_vars,
                    NEW q \in Requests, NEW r \in Requests, q # r, NEW row,
                    row \in held'[q], row \in held'[r]
             PROVE  FALSE
    BY DEF LocksOK
<1>1. row \notin held[q] \/ row \notin held[r]
      BY DEF LocksOK
<1>2. ASSUME NEW p \in Requests, Receive(p) \/ Serve(p) \/ GiveUp(p),
             \A o \in Requests \ {p} : held'[o] = held[o]
      PROVE  FALSE
      BY <1>1, <1>2, OnlyUnlocked DEF Unlocked
<1> QED BY <1>1, <1>2, OneHandler

-----------------------------------------------------------------------------
(* Students *)

\* While nothing is put back, a step that only writes statuses makes no booking active.
LEMMA NoNewActive ==
    ASSUME NoReinstating, TypeOK, HandlersOK, NEW r \in Requests,
           WriteCancellation(r) \/ PatchStatus(r) \/ WriteSlotCancellation(r),
           NEW b \in Requests, Active(b)'
    PROVE  /\ Active(b)
           /\ bookings'[b].event = bookings[b].event /\ bookings'[b].start = bookings[b].start
           /\ bookings'[b].student = bookings[b].student /\ bookings'[b].slot = bookings[b].slot
BY StatusOnly DEF NoReinstating, Active, ActiveStatuses

\* One booking is written, and the student it is written for is free.
LEMMA StudentStep ==
    ASSUME NoReinstating, WellFormed, StudentReady, StudentNeverDoubleBooked, [Next]_vars
    PROVE  StudentNeverDoubleBooked'
<1> USE DEF WellFormed
<1> SUFFICES ASSUME NEW a \in Requests, NEW b \in Requests, a # b, Active(a)', Active(b)',
                    bookings'[a].student = bookings'[b].student
             PROVE  ~OverlapsBooking(a, bookings[b].event, bookings[b].start)'
    BY DEF StudentNeverDoubleBooked
<1>1. CASE UNCHANGED bookings
      BY <1>1 DEF StudentNeverDoubleBooked, Active, OverlapsBooking
<1>2. ASSUME NEW r \in Requests, WriteBooking(r)
      PROVE  ~OverlapsBooking(a, bookings[b].event, bookings[b].start)'
  <2> DEFINE w == tx[r].target
  <2>1. /\ pc[r] = "write" /\ TxOK(r) /\ w \in Requests
        /\ \A x \in Requests \ {w} : bookings'[x] = bookings[x]
        /\ bookings'[w].event = tx[r].event /\ bookings'[w].start = tx[r].start
        /\ bookings'[w].student = tx[r].student
        BY <1>2, Written DEF WriteBooking
  <2>2. ASSUME NEW x \in Requests, x # w, Active(x), bookings[x].student = tx[r].student
        PROVE  ~OverlapsBooking(x, tx[r].event, tx[r].start)
        BY <2>1, <2>2, NullAssumption DEF StudentReady, StudentFree, Excluded
  <2>3. CASE a # w /\ b # w
        BY <2>1, <2>3 DEF StudentNeverDoubleBooked, Active, OverlapsBooking
  <2>4. CASE b = w
        BY <2>1, <2>2, <2>4 DEF Active, OverlapsBooking
  <2>5. CASE a = w
    <3>1. ~OverlapsBooking(b, tx[r].event, tx[r].start)
          BY <2>1, <2>2, <2>5 DEF Active
    <3> QED BY <2>1, <2>5, <3>1 DEF OverlapsBooking, Overlap
  <2> QED BY <2>3, <2>4, <2>5
<1>3. ASSUME NEW r \in Requests,
             WriteCancellation(r) \/ PatchStatus(r) \/ WriteSlotCancellation(r)
      PROVE  ~OverlapsBooking(a, bookings[b].event, bookings[b].start)'
      BY <1>3, NoNewActive DEF StudentNeverDoubleBooked, OverlapsBooking
<1> QED BY <1>1, <1>2, <1>3, Writers

\* Whoever else writes, the student a handler has locked stays free.
LEMMA StudentReadyStep ==
    ASSUME NoReinstating, WellFormed, LocksOK, StudentReady, [Next]_vars
    PROVE  StudentReady'
<1> USE DEF WellFormed
<1> SUFFICES ASSUME NEW q \in Requests, pc'[q] = "write"
             PROVE  /\ StudentRow(tx'[q].student) \in held'[q]
                    /\ StudentFree(tx[q].student, tx[q].event, tx[q].start, Excluded(tx[q]))'
    BY DEF StudentReady
<1>1. CASE pc'[q] = pc[q] /\ tx'[q] = tx[q] /\ held'[q] = held[q]
  <2> DEFINE t == tx[q]
  <2>1. /\ StudentRow(t.student) \in held[q]
        /\ StudentFree(t.student, t.event, t.start, Excluded(t))
        BY <1>1 DEF StudentReady
  <2>2. SUFFICES ASSUME NEW x \in Requests \ {Excluded(t)}, Active(x)',
                        bookings'[x].student = t.student
                 PROVE  ~OverlapsBooking(x, t.event, t.start)'
        BY <1>1, <2>1 DEF StudentFree, Excluded
  <2>3. CASE UNCHANGED bookings
        BY <1>1, <2>1, <2>2, <2>3 DEF StudentFree, Active, OverlapsBooking
  <2>4. ASSUME NEW r \in Requests, WriteBooking(r)
        PROVE  ~OverlapsBooking(x, t.event, t.start)'
    <3>1. r # q /\ pc[r] = "write"
          BY <1>1, <2>4, LastStep DEF WriteBooking
    <3>2. tx[r].student # t.student
          BY <2>1, <3>1 DEF LocksOK, StudentReady
    <3>3. bookings'[x] = bookings[x]
          BY <2>2, <2>4, <3>2, Written
    <3> QED BY <1>1, <2>1, <2>2, <3>3 DEF StudentFree, Active, OverlapsBooking
  <2>5. ASSUME NEW r \in Requests,
               WriteCancellation(r) \/ PatchStatus(r) \/ WriteSlotCancellation(r)
        PROVE  ~OverlapsBooking(x, t.event, t.start)'
        BY <1>1, <2>1, <2>2, <2>5, NoNewActive DEF StudentFree, OverlapsBooking
  <2> QED BY <2>3, <2>4, <2>5, Writers
<1>2. CASE LockStudent(q)
  <2>1. /\ StudentFree(tx[q].student, tx[q].event, tx[q].start, Excluded(tx[q]))
        /\ Acquire(q, StudentRow(tx[q].student))
        /\ Goto(q, "write", tx[q])
        /\ UNCHANGED bookings
        BY <1>2 DEF LockStudent, rowVars, Finish, TypeOK
  <2>2. tx'[q] = tx[q] /\ StudentRow(tx[q].student) \in held'[q]
        BY <2>1 DEF Acquire, Goto, TypeOK
  <2> QED BY <2>1, <2>2 DEF StudentFree, Excluded, Active, OverlapsBooking
<1>3. CASE \/ CreateBooking(q) \/ RescheduleBooking(q) \/ BookFollowUp(q)
           \/ CancelBooking(q) \/ CancelSlot(q)
      BY <1>3, EnterTx, EnterCancellation
<1>4. CASE SelectCoach(q) \/ AdvanceRouting(q) \/ LockCoach(q) \/ CheckSeats(q)
      BY <1>4 DEF SelectCoach, AdvanceRouting, LockCoach, CheckSeats, Goto, Finish, TypeOK
<1>5. CASE \/ WriteBooking(q) \/ WriteCancellation(q) \/ WriteSlotCancellation(q)
           \/ PatchStatus(q) \/ DeactivateUser(q) \/ GiveUp(q)
      BY <1>5, LastStep
<1>6. \/ pc'[q] = pc[q] /\ tx'[q] = tx[q] /\ held'[q] = held[q]
      \/ Receive(q) \/ Serve(q) \/ GiveUp(q)
      BY OneHandler
<1> QED BY <1>1, <1>2, <1>3, <1>4, <1>5, <1>6 DEF Receive, Serve

\* No student holds two overlapping sessions, however the transactions interleave.
THEOREM StudentSafety == ASSUME NoReinstating PROVE Spec => []StudentNeverDoubleBooked
<1> DEFINE Inv == LocksOK /\ StudentReady /\ StudentNeverDoubleBooked
<1>1. Init => Inv
  <2> SUFFICES ASSUME Init PROVE Inv
      OBVIOUS
  <2>1. \A b \in Requests : ~Active(b)
        BY DEF Init, Active, VacantBooking, ActiveStatuses
  <2> QED BY <2>1 DEF Init, LocksOK, StudentReady, StudentNeverDoubleBooked
<1>2. WellFormed /\ Inv /\ [Next]_vars => Inv'
      BY LocksStep, StudentReadyStep, StudentStep DEF WellFormed
<1> QED BY <1>1, <1>2, WellFormedInvariant, PTL DEF Spec

-----------------------------------------------------------------------------
(* Slots *)

OnSlot(s) == {b \in Requests : Active(b) /\ bookings[b].slot = s}

\* A booking on a slot, written or about to be, has the event and the start of the slot.
SlotsOK ==
    /\ \A s \in Slots : slots[s].start = InitialSlots[s].start
    /\ \A b \in Requests : Exists(b) /\ bookings[b].slot # Null =>
         /\ SlotEvent[bookings[b].slot] = bookings[b].event
         /\ slots[bookings[b].slot].start = bookings[b].start
    /\ \A r \in Requests : pc[r] \in InTransaction =>
         /\ Fixed(tx[r].event) => tx[r].slot # Null
         /\ tx[r].slot # Null => /\ SlotEvent[tx[r].slot] = tx[r].event
                                /\ slots[tx[r].slot].start = tx[r].start

\* The slot stays locked to the commit.
SlotLocked ==
    \A r \in Requests :
        pc[r] \in InTransaction \ {"locking"} /\ Fixed(tx[r].event)
            => SlotRow(tx[r].slot) \in held[r]

\* From the capacity check to the write a seat is left.
SeatReady ==
    \A r \in Requests :
        pc[r] \in {"student", "write"} /\ Fixed(tx[r].event) /\ SeatLimit(tx[r].slot) # Null
            => Cardinality(OnSlot(tx[r].slot)) < SeatLimit(tx[r].slot)

\* A limit is a number.
LEMMA SeatLimitType == \A s \in Slots : SeatLimit(s) # Null => SeatLimit(s) \in Nat
BY DataAssumption DEF SeatLimit, EventConfig

\* Sets of bookings are finite, and a larger one has no fewer members.
LEMMA Smaller ==
    ASSUME NEW S \in SUBSET Requests, NEW T \in SUBSET S
    PROVE  /\ IsFiniteSet(S) /\ IsFiniteSet(T)
           /\ Cardinality(S) \in Nat /\ Cardinality(T) \in Nat
           /\ Cardinality(T) <= Cardinality(S)
BY DataAssumption, FS_Subset, FS_CardinalityType

\* The active bookings of a slot are among those countActiveParticipantsForTime counts.
LEMMA SlotCount ==
    ASSUME SlotsOK, NEW s \in Slots
    PROVE  Cardinality(OnSlot(s)) <= ParticipantsAt(SlotEvent[s], slots[s].start)
<1> DEFINE all == {b \in Requests : /\ Counted(b) /\ bookings[b].event = SlotEvent[s]
                                   /\ bookings[b].start = slots[s].start}
<1>1. OnSlot(s) \subseteq all
      BY NullAssumption DEF OnSlot, SlotsOK, Active, ActiveStatuses, Counted, Exists
<1> QED BY <1>1, Smaller DEF ParticipantsAt

\* No step moves a slot.
LEMMA SlotsStay ==
    ASSUME TypeOK, [Next]_vars, NEW s \in Slots
    PROVE  slots'[s].start = slots[s].start
<1>1. CASE UNCHANGED slots
      BY <1>1
<1>2. ASSUME NEW r \in Requests, WriteSlotCancellation(r)
      PROVE  slots'[s].start = slots[s].start
      BY <1>2 DEF WriteSlotCancellation, TypeOK, Slot
<1>3. UNCHANGED slots \/ \E r \in Requests : WriteSlotCancellation(r)
      BY DEF Next, Receive, Serve, vars, rowVars, Tick, CreateBooking, RescheduleBooking,
             BookFollowUp, CancelBooking, PatchStatus, CancelSlot, DeactivateUser, SelectCoach,
             AdvanceRouting, LockCoach, CheckSeats, LockStudent, WriteBooking,
             WriteCancellation, GiveUp
<1> QED BY <1>1, <1>2, <1>3

\* The slot a booking transaction starts with.
LEMMA EnterSlot ==
    ASSUME WellFormed, NEW r \in Requests,
           CreateBooking(r) \/ RescheduleBooking(r) \/ BookFollowUp(r)
    PROVE  /\ tx'[r].slot = MatchingSlot(tx'[r].event, tx'[r].start)
           /\ Fixed(tx'[r].event) => tx'[r].slot # Null
           /\ UNCHANGED slots
<1> USE DEF WellFormed, BookingOps
<1>1. CASE CreateBooking(r)
  <2>1. PICK c \in Asked("create") :
           /\ Bookable(c.event, c.start)
           /\ Begin(r, "locking", BookingTx("create", c.event, c.start, c.student, c.preferred, r))
        BY <1>1 DEF CreateBooking
  <2> DEFINE t == BookingTx("create", c.event, c.start, c.student, c.preferred, r)
  <2>2. /\ c.event \in Events /\ c.start \in Starts /\ c.student \in Students
        /\ c.preferred \in Coaches \cup {Null}
        BY CallTypes
  <2>3. t.event = c.event /\ t.start = c.start /\ t.slot = MatchingSlot(c.event, c.start)
        BY <2>2, BookingTxType
  <2>4. tx'[r] = t /\ UNCHANGED slots
        BY <1>1, <2>1 DEF CreateBooking, Begin, TypeOK, rowVars
  <2> HIDE DEF t
  <2> QED BY <2>1, <2>3, <2>4 DEF Bookable
<1>2. CASE RescheduleBooking(r)
  <2>1. PICK c \in Asked("reschedule") :
           LET old == bookings[c.booking] IN
           /\ Exists(c.booking)
           /\ Bookable(old.event, c.start)
           /\ Begin(r, "locking",
                    [BookingTx("reschedule", old.event, c.start, old.student, old.coach, c.booking)
                       EXCEPT !.token = c.token])
        BY <1>2 DEF RescheduleBooking
  <2> DEFINE old == bookings[c.booking]
             t == BookingTx("reschedule", old.event, c.start, old.student, old.coach, c.booking)
  <2>2. c.booking \in Requests /\ c.start \in Starts
        BY CallTypes
  <2>3. old.event \in Events /\ old.student \in Students /\ old.coach \in Coaches \cup {Null}
        BY <2>1, <2>2 DEF RowsOK, TypeOK, Booking
  <2>4. /\ t \in Local /\ t.event = old.event /\ t.start = c.start
        /\ t.slot = MatchingSlot(old.event, c.start)
        BY <2>2, <2>3, BookingTxType
  <2>5. tx'[r] = [t EXCEPT !.token = c.token] /\ UNCHANGED slots
        BY <1>2, <2>1 DEF Begin, RescheduleBooking, rowVars, TypeOK
  <2> HIDE DEF t
  <2>6. tx'[r].event = old.event /\ tx'[r].start = c.start /\ tx'[r].slot = t.slot
        BY <2>4, <2>5 DEF Local
  <2> QED BY <2>1, <2>4, <2>5, <2>6 DEF Bookable
<1>3. CASE BookFollowUp(r)
  <2>1. PICK c \in Asked("followUp") :
           LET old == bookings[c.booking] IN
           /\ old.status = "COMPLETED"
           /\ Bookable(old.event, c.start)
           /\ Begin(r, "locking",
                    BookingTx("followUp", old.event, c.start, old.student, old.coach, r))
        BY <1>3 DEF BookFollowUp
  <2> DEFINE old == bookings[c.booking]
             t == BookingTx("followUp", old.event, c.start, old.student, old.coach, r)
  <2>2. c.booking \in Requests /\ c.start \in Starts
        BY CallTypes
  <2>3. old.event \in Events /\ old.student \in Students /\ old.coach \in Coaches \cup {Null}
        BY <2>1, <2>2 DEF RowsOK, TypeOK, Booking, Exists
  <2>4. /\ t.event = old.event /\ t.start = c.start
        /\ t.slot = MatchingSlot(old.event, c.start)
        BY <2>2, <2>3, BookingTxType
  <2>5. tx'[r] = t /\ UNCHANGED slots
        BY <1>3, <2>1 DEF BookFollowUp, Begin, TypeOK, rowVars
  <2> HIDE DEF t
  <2> QED BY <2>1, <2>4, <2>5 DEF Bookable
<1> QED BY <1>1, <1>2, <1>3

\* The transaction keeps its slot and its locks; the first row it takes is the slot's.
LEMMA StayOnSlot ==
    ASSUME WellFormed, NEW r \in Requests, pc'[r] # "done",
           \/ SelectCoach(r) \/ AdvanceRouting(r) \/ LockCoach(r) \/ CheckSeats(r)
           \/ LockStudent(r)
    PROVE  /\ tx'[r].slot = IF tx[r].slot = Null /\ CheckSeats(r)
                           THEN MatchingSlot(tx[r].event, tx[r].start) ELSE tx[r].slot
           /\ held[r] \subseteq held'[r]
           /\ pc[r] = "locking" => FirstRow(tx[r]) \in held'[r]
           /\ UNCHANGED slots
<1> USE DEF WellFormed, rowVars, TypeOK
<1>1. tx[r] \in Local /\ ~Finish(r)
      BY DEF Finish
<1>2. CASE SelectCoach(r)
  <2> DEFINE t == tx[r]
             choices == Selections(t.event, t.start, t.slot, t.preferred, Excluded(t))
  <2>1. PICK x \in choices :
          /\ Acquire(r, FirstRow(t))
          /\ Goto(r, IF x.cursor # Null THEN "routing" ELSE "coach",
                  [t EXCEPT !.coach = x.coach, !.coHosts = x.coHosts, !.cursor = x.cursor])
        BY <1>1, <1>2 DEF SelectCoach
  <2>2. tx'[r] = [t EXCEPT !.coach = x.coach, !.coHosts = x.coHosts, !.cursor = x.cursor]
        BY <2>1 DEF Goto
  <2>3. tx'[r].slot = t.slot
        BY <1>1, <2>2 DEF Local
  <2>4. held[r] \subseteq held'[r] /\ FirstRow(t) \in held'[r]
        BY <2>1 DEF Acquire
  <2>5. ~CheckSeats(r) /\ UNCHANGED slots
        BY <1>2 DEF SelectCoach, CheckSeats
  <2> QED BY <2>3, <2>4, <2>5
<1>3. CASE AdvanceRouting(r)
      BY <1>3 DEF AdvanceRouting, Acquire, Goto, CheckSeats
<1>4. CASE LockCoach(r)
      BY <1>1, <1>4 DEF LockCoach, Goto, CheckSeats
<1>5. CASE CheckSeats(r)
  <2> DEFINE s == IF tx[r].slot # Null THEN tx[r].slot ELSE MatchingSlot(tx[r].event, tx[r].start)
  <2>1. tx'[r] = [tx[r] EXCEPT !.slot = s] /\ UNCHANGED held
        BY <1>1, <1>5 DEF CheckSeats, Goto
  <2>2. tx'[r].slot = s
        BY <1>1, <2>1 DEF Local
  <2>3. pc[r] # "locking" /\ UNCHANGED slots
        BY <1>5 DEF CheckSeats
  <2> QED BY <1>5, <2>1, <2>2, <2>3
<1>6. CASE LockStudent(r)
      BY <1>1, <1>6 DEF LockStudent, Acquire, Goto, CheckSeats
<1> QED BY <1>2, <1>3, <1>4, <1>5, <1>6

\* Every step keeps bookings and handlers in line with their slots.
LEMMA SlotsStep ==
    ASSUME WellFormed, SlotsOK, [Next]_vars
    PROVE  SlotsOK'
<1> USE DEF WellFormed
<1>1. ASSUME NEW s \in Slots PROVE slots'[s].start = InitialSlots[s].start
      BY SlotsStay DEF SlotsOK
<1>2. ASSUME NEW b \in Requests, Exists(b)', bookings'[b].slot # Null
      PROVE  /\ SlotEvent[bookings'[b].slot] = bookings'[b].event
             /\ slots'[bookings'[b].slot].start = bookings'[b].start
  <2>1. bookings'[b].slot \in Slots
        BY <1>2, TypeStep DEF TypeOK, Booking
  <2>2. SUFFICES /\ SlotEvent[bookings'[b].slot] = bookings'[b].event
                 /\ slots[bookings'[b].slot].start = bookings'[b].start
        BY <2>1, SlotsStay
  <2>3. CASE UNCHANGED bookings
        BY <1>2, <2>3 DEF SlotsOK, Exists
  <2>4. ASSUME NEW r \in Requests, WriteBooking(r)
        PROVE  /\ SlotEvent[bookings'[b].slot] = bookings'[b].event
               /\ slots[bookings'[b].slot].start = bookings'[b].start
    <3>1. pc[r] \in InTransaction
          BY <2>4 DEF WriteBooking, InTransaction
    <3> QED BY <1>2, <2>4, <3>1, Written DEF SlotsOK, Exists
  <2>5. ASSUME NEW r \in Requests,
               WriteCancellation(r) \/ PatchStatus(r) \/ WriteSlotCancellation(r)
        PROVE  /\ SlotEvent[bookings'[b].slot] = bookings'[b].event
               /\ slots[bookings'[b].slot].start = bookings'[b].start
        BY <1>2, <2>5, StatusOnly DEF SlotsOK, Exists
  <2> QED BY <2>3, <2>4, <2>5, Writers
<1>3. ASSUME NEW r \in Requests, pc'[r] \in InTransaction
      PROVE  /\ Fixed(tx'[r].event) => tx'[r].slot # Null
             /\ tx'[r].slot # Null => /\ SlotEvent[tx'[r].slot] = tx'[r].event
                                     /\ slots'[tx'[r].slot].start = tx'[r].start
  <2>1. tx'[r].slot # Null => tx'[r].slot \in Slots
        BY TypeStep DEF TypeOK, Local
  <2>2. SUFFICES /\ Fixed(tx'[r].event) => tx'[r].slot # Null
                 /\ tx'[r].slot # Null => /\ SlotEvent[tx'[r].slot] = tx'[r].event
                                         /\ slots[tx'[r].slot].start = tx'[r].start
        BY <2>1, SlotsStay
  <2>3. CASE pc'[r] = pc[r] /\ tx'[r] = tx[r]
        BY <1>3, <2>3 DEF SlotsOK
  <2>4. CASE CreateBooking(r) \/ RescheduleBooking(r) \/ BookFollowUp(r)
        BY <2>4, EnterSlot, MatchingSlotType
  <2>5. CASE \/ SelectCoach(r) \/ AdvanceRouting(r) \/ LockCoach(r) \/ CheckSeats(r)
             \/ LockStudent(r)
    <3>1. /\ pc'[r] # "done" /\ pc[r] \in InTransaction
          /\ tx'[r].event = tx[r].event /\ tx'[r].start = tx[r].start
          BY <1>3, <2>5, StayInTx DEF InTransaction
    <3>2. tx'[r].slot \in {tx[r].slot, MatchingSlot(tx[r].event, tx[r].start)}
          BY <2>5, <3>1, StayOnSlot
    <3>3. Fixed(tx[r].event) => tx'[r].slot = tx[r].slot
          BY <2>5, <3>1, StayOnSlot DEF SlotsOK
    <3> QED BY <3>1, <3>2, <3>3, MatchingSlotType DEF SlotsOK
  <2>6. CASE \/ WriteBooking(r) \/ WriteCancellation(r) \/ WriteSlotCancellation(r)
             \/ PatchStatus(r) \/ DeactivateUser(r) \/ GiveUp(r)
        BY <1>3, <2>6, LastStep DEF InTransaction
  <2>7. CASE CancelBooking(r) \/ CancelSlot(r)
        BY <1>3, <2>7, EnterCancellation DEF InTransaction
  <2> QED BY <2>3, <2>4, <2>5, <2>6, <2>7, OneHandler DEF Receive, Serve
<1> QED BY <1>1, <1>2, <1>3 DEF SlotsOK

\* Every step of a transaction past the first keeps its slot locked.
LEMMA SlotLockedStep ==
    ASSUME WellFormed, SlotsOK, SlotLocked, [Next]_vars
    PROVE  SlotLocked'
<1> USE DEF WellFormed
<1> SUFFICES ASSUME NEW r \in Requests, pc'[r] \in InTransaction \ {"locking"},
                    Fixed(tx'[r].event)
             PROVE  SlotRow(tx'[r].slot) \in held'[r]
    BY DEF SlotLocked, Fixed
<1>1. CASE pc'[r] = pc[r] /\ tx'[r] = tx[r] /\ held'[r] = held[r]
      BY <1>1 DEF SlotLocked
<1>2. CASE \/ SelectCoach(r) \/ AdvanceRouting(r) \/ LockCoach(r) \/ CheckSeats(r)
           \/ LockStudent(r)
  <2>1. /\ pc'[r] # "done" /\ pc[r] \in InTransaction /\ tx'[r].event = tx[r].event
        BY <1>2, StayInTx DEF InTransaction
  <2>2. tx'[r].slot = tx[r].slot /\ tx[r].slot # Null
        BY <1>2, <2>1, StayOnSlot DEF SlotsOK
  <2> QED BY <1>2, <2>1, <2>2, StayOnSlot DEF SlotLocked, FirstRow
<1>3. CASE CreateBooking(r) \/ RescheduleBooking(r) \/ BookFollowUp(r)
      BY <1>3, EnterTx
<1>4. CASE CancelBooking(r) \/ CancelSlot(r)
      BY <1>4, EnterCancellation DEF InTransaction
<1>5. CASE \/ WriteBooking(r) \/ WriteCancellation(r) \/ WriteSlotCancellation(r)
           \/ PatchStatus(r) \/ DeactivateUser(r) \/ GiveUp(r)
      BY <1>5, LastStep DEF InTransaction
<1> QED BY <1>1, <1>2, <1>3, <1>4, <1>5, OneHandler DEF Receive, Serve

\* Only who holds the slot's lock adds a booking to a slot with limited seats.
LEMMA OnSlotStep ==
    ASSUME NoReinstating, WellFormed, SlotsOK, [Next]_vars,
           NEW s \in Slots, Fixed(SlotEvent[s])
    PROVE  \/ OnSlot(s)' \subseteq OnSlot(s)
           \/ \E r \in Requests : /\ WriteBooking(r) /\ tx[r].slot = s
                                 /\ OnSlot(s)' \subseteq OnSlot(s) \cup {tx[r].target}
<1> USE DEF WellFormed
<1>1. CASE UNCHANGED bookings
      BY <1>1 DEF OnSlot, Active
<1>2. ASSUME NEW r \in Requests, WriteBooking(r)
      PROVE  \/ OnSlot(s)' \subseteq OnSlot(s)
             \/ tx[r].slot = s /\ OnSlot(s)' \subseteq OnSlot(s) \cup {tx[r].target}
      BY <1>2, Written DEF OnSlot, Active
<1>3. ASSUME NEW r \in Requests,
             WriteCancellation(r) \/ PatchStatus(r) \/ WriteSlotCancellation(r)
      PROVE  OnSlot(s)' \subseteq OnSlot(s)
      BY <1>3, NoNewActive DEF OnSlot
<1> QED BY <1>1, <1>2, <1>3, Writers

\* Whoever else writes, a seat that was found free stays free until the write.
LEMMA SeatReadyStep ==
    ASSUME NoReinstating, WellFormed, LocksOK, SlotsOK, SlotLocked, SeatReady, [Next]_vars
    PROVE  SeatReady'
<1> USE DEF WellFormed
<1> SUFFICES ASSUME NEW q \in Requests, pc'[q] \in {"student", "write"}, Fixed(tx'[q].event),
                    NEW s, s = tx'[q].slot, SeatLimit(s) # Null
             PROVE  Cardinality(OnSlot(s)') < SeatLimit(s)
    BY DEF SeatReady, Fixed, SeatLimit, Group, OnSlot
<1>1. s \in Slots /\ Fixed(SlotEvent[s])
      BY SlotsStep, TypeStep DEF SlotsOK, InTransaction, TypeOK, Local
<1>2. SeatLimit(s) \in Nat
      BY <1>1, SeatLimitType
<1>3. ASSUME OnSlot(s)' \subseteq OnSlot(s), Cardinality(OnSlot(s)) < SeatLimit(s)
      PROVE  Cardinality(OnSlot(s)') < SeatLimit(s)
  <2>1. OnSlot(s) \in SUBSET Requests
        BY DEF OnSlot
  <2> QED BY <1>2, <1>3, <2>1, Smaller
<1>4. CASE pc'[q] = pc[q] /\ tx'[q] = tx[q] /\ held'[q] = held[q]
  <2>1. Cardinality(OnSlot(s)) < SeatLimit(s)
        BY <1>4 DEF SeatReady
  <2>2. ASSUME NEW r \in Requests, WriteBooking(r), tx[r].slot = s PROVE FALSE
    <3>1. r # q /\ pc[r] = "write"
          BY <1>4, <2>2, LastStep DEF WriteBooking
    <3>2. Fixed(tx[r].event)
          BY <1>1, <2>2, <3>1, NullAssumption DEF SlotsOK, InTransaction
    <3>3. SlotRow(s) \in held[r] /\ SlotRow(s) \in held[q]
          BY <1>4, <2>2, <3>1, <3>2 DEF SlotLocked, InTransaction
    <3> QED BY <3>1, <3>3 DEF LocksOK
  <2> QED BY <1>1, <1>3, <2>1, <2>2, OnSlotStep
<1>5. CASE CheckSeats(q)
  <2>1. s = tx[q].slot /\ tx'[q].event = tx[q].event
    <3>1. tx[q].slot # Null
          BY <1>5, StayInTx DEF SlotsOK
    <3> QED BY <1>5, <3>1, StayInTx, StayOnSlot
  <2>2. pc[q] = "seats" /\ UNCHANGED bookings /\ SeatAvailable(tx[q].event, tx[q].start, s)
        BY <1>1, <1>5, <2>1, NullAssumption DEF CheckSeats, rowVars, Finish, TypeOK
  <2>3. SlotEvent[s] = tx[q].event /\ slots[s].start = tx[q].start
        BY <1>1, <2>1, <2>2, NullAssumption DEF SlotsOK, InTransaction
  <2>4. ParticipantsAt(SlotEvent[s], slots[s].start) < SeatLimit(s)
        BY <2>2, <2>3 DEF SeatAvailable
  <2>5. Cardinality(OnSlot(s)) <= ParticipantsAt(SlotEvent[s], slots[s].start)
        BY <1>1, SlotCount
  <2>6. Cardinality(OnSlot(s)) \in Nat /\ ParticipantsAt(SlotEvent[s], slots[s].start) \in Nat
        BY Smaller DEF OnSlot, ParticipantsAt
  <2>7. OnSlot(s)' = OnSlot(s)
        BY <2>2 DEF OnSlot, Active
  <2> QED BY <1>2, <2>4, <2>5, <2>6, <2>7
<1>6. CASE LockStudent(q)
  <2>1. pc[q] = "student" /\ UNCHANGED bookings /\ tx'[q] = tx[q]
        BY <1>6 DEF LockStudent, rowVars, Finish, Goto, TypeOK
  <2>2. OnSlot(s)' = OnSlot(s)
        BY <2>1 DEF OnSlot, Active
  <2> QED BY <2>1, <2>2 DEF SeatReady
<1>7. CASE SelectCoach(q) \/ AdvanceRouting(q) \/ LockCoach(q)
      BY <1>7 DEF SelectCoach, AdvanceRouting, LockCoach, Goto, Finish, TypeOK
<1>8. CASE \/ CreateBooking(q) \/ RescheduleBooking(q) \/ BookFollowUp(q)
           \/ CancelBooking(q) \/ CancelSlot(q)
      BY <1>8, EnterTx, EnterCancellation
<1>9. CASE \/ WriteBooking(q) \/ WriteCancellation(q) \/ WriteSlotCancellation(q)
           \/ PatchStatus(q) \/ DeactivateUser(q) \/ GiveUp(q)
      BY <1>9, LastStep
<1> QED BY <1>4, <1>5, <1>6, <1>7, <1>8, <1>9, OneHandler DEF Receive, Serve

\* One booking is added to a slot, and a seat was left for it.
LEMMA SeatsStep ==
    ASSUME NoReinstating, WellFormed, SlotsOK, SeatReady, SeatsNeverOversold, [Next]_vars
    PROVE  SeatsNeverOversold'
<1> SUFFICES ASSUME NEW s \in Slots, Fixed(SlotEvent[s]), SeatLimit(s) # Null
             PROVE  Cardinality(OnSlot(s)') <= SeatLimit(s)
    BY DEF SeatsNeverOversold, OnSlot, Fixed, SeatLimit, Group
<1>1. OnSlot(s) \in SUBSET Requests /\ SeatLimit(s) \in Nat
      BY SeatLimitType DEF OnSlot
<1>2. Cardinality(OnSlot(s)) <= SeatLimit(s)
      BY DEF SeatsNeverOversold, OnSlot
<1>3. CASE OnSlot(s)' \subseteq OnSlot(s)
      BY <1>1, <1>2, <1>3, Smaller
<1>4. ASSUME NEW r \in Requests, WriteBooking(r), tx[r].slot = s,
             OnSlot(s)' \subseteq OnSlot(s) \cup {tx[r].target}
      PROVE  Cardinality(OnSlot(s)') <= SeatLimit(s)
  <2>1. pc[r] = "write" /\ Fixed(tx[r].event) /\ tx[r].target \in Requests
        BY <1>4, NullAssumption, Written DEF WriteBooking, SlotsOK, InTransaction, WellFormed
  <2>2. Cardinality(OnSlot(s)) < SeatLimit(s)
        BY <1>4, <2>1 DEF SeatReady
  <2> DEFINE T == OnSlot(s) \cup {tx[r].target}
  <2>3. T \in SUBSET Requests
        BY <1>1, <2>1
  <2>4. Cardinality(T) <= Cardinality(OnSlot(s)) + 1
    <3>1. IsFiniteSet(OnSlot(s)) /\ Cardinality(OnSlot(s)) \in Nat
          BY <1>1, Smaller
    <3> QED BY <3>1, FS_AddElement
  <2>5. Cardinality(OnSlot(s)') <= Cardinality(T)
        BY <1>4, <2>3, Smaller
  <2>6. Cardinality(OnSlot(s)) \in Nat /\ Cardinality(T) \in Nat /\ Cardinality(OnSlot(s)') \in Nat
        BY <1>1, <1>4, <2>3, Smaller
  <2> HIDE DEF T
  <2> QED BY <1>1, <2>2, <2>4, <2>5, <2>6
<1> QED BY <1>3, <1>4, OnSlotStep

\* A slot never has more active bookings than seats, however the transactions interleave.
THEOREM SeatSafety == ASSUME NoReinstating PROVE Spec => []SeatsNeverOversold
<1> DEFINE Inv == LocksOK /\ SlotsOK /\ SlotLocked /\ SeatReady /\ SeatsNeverOversold
<1>1. Init => Inv
  <2> SUFFICES ASSUME Init PROVE Inv
      OBVIOUS
  <2>1. \A b \in Requests : ~Active(b) /\ ~Exists(b)
        BY DEF Init, Active, Exists, VacantBooking, ActiveStatuses
  <2>2. SeatsNeverOversold
    <3>1. \A s \in Slots : {b \in Requests : Active(b) /\ bookings[b].slot = s} = {}
          BY <2>1
    <3> QED BY <3>1, FS_EmptySet, SeatLimitType DEF SeatsNeverOversold
  <2> QED BY <2>1, <2>2 DEF Init, LocksOK, SlotsOK, SlotLocked, SeatReady, InTransaction
<1>2. WellFormed /\ Inv /\ [Next]_vars => Inv'
      BY LocksStep, SlotsStep, SlotLockedStep, SeatReadyStep, SeatsStep DEF WellFormed
<1> QED BY <1>1, <1>2, WellFormedInvariant, PTL DEF Spec

-----------------------------------------------------------------------------
(* Refinement of BookingLedger *)

\* An active booking is an entry, and the others are none.
LEMMA EntryType ==
    ASSUME WellFormed, NEW b \in Requests
    PROVE  /\ Active(b) => EntryOf(b) \in Entries /\ EntryOf(b) # Null
           /\ ~Active(b) => EntryOf(b) = Null
<1>1. ~Active(b) => EntryOf(b) = Null
      BY DEF EntryOf
<1>2. ASSUME Active(b) PROVE EntryOf(b) \in Entries
      BY <1>2 DEF EntryOf, Entries, WellFormed, TypeOK, RowsOK, Booking, Exists, Active,
                  ActiveStatuses
<1> QED BY <1>1, <1>2, EntriesAssumption

\* No booking, no entry.
LEMMA LedgerInit == Init => Ledger!Init
<1> SUFFICES ASSUME Init PROVE Ledger!Init
    OBVIOUS
<1>1. \A b \in Requests : ~Active(b)
      BY DEF Init, Active, VacantBooking, ActiveStatuses
<1> QED BY <1>1 DEF Ledger!Init, EntryOf

\* The ledger before and after a step.
Places == [b \in Requests |-> EntryOf(b)]

\* A booking transaction that writes takes one place, which is free at that moment.
LEMMA WriteTakes ==
    ASSUME WellFormed, StudentReady, SlotsOK, SeatReady, [Next]_vars,
           NEW r \in Requests, WriteBooking(r)
    PROVE  Ledger!Next
<1> USE DEF WellFormed
<1>0. PICK w \in Requests : w = tx[r].target
      BY Written
<1> DEFINE x == EntryOf(w)'
<1>1. /\ pc[r] = "write" /\ TxOK(r) /\ tx[r].target = w
      /\ \A b \in Requests \ {w} : bookings'[b] = bookings[b]
      /\ bookings'[w].status = "CONFIRMED"
      /\ bookings'[w].event = tx[r].event /\ bookings'[w].start = tx[r].start
      /\ bookings'[w].student = tx[r].student /\ bookings'[w].slot = tx[r].slot
      BY <1>0, Written DEF WriteBooking
<1>3. x = [event |-> tx[r].event, start |-> tx[r].start, student |-> tx[r].student,
           slot |-> tx[r].slot]
      BY <1>1 DEF EntryOf, Active, ActiveStatuses
<1>4. x \in Entries
      BY <1>1, <1>3 DEF Entries, TxOK, TypeOK, Local
<1>5. Places' = [Places EXCEPT ![w] = x]
  <2>1. \A b \in Requests \ {w} : EntryOf(b)' = EntryOf(b)
        BY <1>1 DEF EntryOf, Active
  <2> HIDE DEF x
  <2>2. EntryOf(w)' = x
        BY DEF x
  <2> QED BY <1>1, <2>1, <2>2 DEF Places
<1>6. \A a \in Requests : /\ Active(a) <=> Places[a] # Null
                          /\ Active(a) => /\ Places[a].event = bookings[a].event
                                         /\ Places[a].start = bookings[a].start
                                         /\ Places[a].student = bookings[a].student
                                         /\ Places[a].slot = bookings[a].slot
      BY EntryType DEF Places, EntryOf
<1>7. ASSUME NEW a \in Requests \ {w}, Places[a] # Null, Places[a].student = x.student
      PROVE  ~Meeting(Places[a], x)
  <2>1. Active(a) /\ bookings[a].student = tx[r].student
        BY <1>3, <1>6, <1>7
  <2>2. ~OverlapsBooking(a, tx[r].event, tx[r].start)
        BY <1>1, <1>7, <2>1, NullAssumption DEF StudentReady, StudentFree, Excluded
  <2> QED BY <1>3, <1>6, <2>1, <2>2 DEF Meeting, OverlapsBooking, Overlap
<1>8. ASSUME x.slot # Null, SeatsOf(x.slot) # Null
      PROVE  Cardinality({a \in Requests \ {w} : Places[a] # Null /\ Places[a].slot = x.slot})
               < SeatsOf(x.slot)
  <2> DEFINE s == tx[r].slot
             others == {a \in Requests \ {w} : Places[a] # Null /\ Places[a].slot = s}
  <2>1. x.slot = s /\ s \in Slots
        BY <1>3, <1>8 DEF TypeOK, Local
  <2>2. Fixed(SlotEvent[s]) /\ SeatsOf(s) = SeatLimit(s) /\ SeatLimit(s) # Null
        BY <1>8, <2>1 DEF SeatsOf
  <2>3. SlotEvent[s] = tx[r].event
        BY <1>1, <1>8, <2>1 DEF SlotsOK, InTransaction
  <2>4. Cardinality(OnSlot(s)) < SeatLimit(s)
        BY <1>1, <2>2, <2>3 DEF SeatReady
  <2>5. others \subseteq OnSlot(s)
        BY <1>6 DEF OnSlot
  <2>6. OnSlot(s) \in SUBSET Requests /\ SeatLimit(s) \in Nat
        BY <2>1, <2>2, SeatLimitType DEF OnSlot
  <2>7. /\ Cardinality(others) <= Cardinality(OnSlot(s))
        /\ Cardinality(others) \in Nat /\ Cardinality(OnSlot(s)) \in Nat
        BY <2>5, <2>6, Smaller
  <2> HIDE DEF others
  <2>8. Cardinality(others) < SeatsOf(s)
        BY <2>2, <2>4, <2>6, <2>7
  <2> QED BY <2>1, <2>8 DEF others
<1> HIDE DEF x
<1>9. \A S : Ledger!Cardinality(S) = Cardinality(S)
      BY DEF Ledger!Cardinality, Cardinality
<1>10. Ledger!StudentFree(w, x)
      BY <1>7 DEF Ledger!StudentFree, Ledger!Taken, Places
<1>11. Ledger!SeatLeft(w, x)
      BY <1>8, <1>9 DEF Ledger!SeatLeft, Ledger!Taken, Places
<1>12. Ledger!Take(w)
      BY <1>4, <1>5, <1>10, <1>11 DEF Ledger!Take, Places
<1> QED BY <1>12 DEF Ledger!Next

\* Whatever only writes statuses gives places back.
LEMMA StatusReleases ==
    ASSUME NoReinstating, WellFormed, NEW r \in Requests,
           WriteCancellation(r) \/ PatchStatus(r) \/ WriteSlotCancellation(r)
    PROVE  Ledger!Next
<1> DEFINE B == {b \in Requests : ~Active(b)'}
<1>1. ASSUME NEW b \in Requests
      PROVE  EntryOf(b)' = IF b \in B THEN Null ELSE EntryOf(b)
  <2>1. CASE ~Active(b)'
        BY <2>1 DEF EntryOf
  <2>2. CASE Active(b)'
        BY <2>2, NoNewActive DEF EntryOf, WellFormed
  <2> QED BY <2>1, <2>2
<1>2. Places' = [b \in Requests |-> IF b \in B THEN Null ELSE Places[b]]
      BY <1>1 DEF Places
<1>3. B \in SUBSET Requests
      OBVIOUS
<1> HIDE DEF B
<1> QED BY <1>2, <1>3 DEF Ledger!Next, Ledger!Release, Places

\* The transactions implement BookingLedger: however they interleave, each booking is as if it
\* were checked and made in one step.
THEOREM ImplementsLedger == ASSUME NoReinstating PROVE Spec => KeepsLedger
<1> DEFINE Inv == LocksOK /\ StudentReady /\ SlotsOK /\ SlotLocked /\ SeatReady
<1>1. Init => Inv
  <2> SUFFICES ASSUME Init PROVE Inv
      OBVIOUS
  <2>1. \A b \in Requests : ~Exists(b)
        BY DEF Init, Exists, VacantBooking
  <2> QED BY <2>1 DEF Init, LocksOK, StudentReady, SlotsOK, SlotLocked, SeatReady, InTransaction
<1>2. WellFormed /\ Inv /\ [Next]_vars => Inv'
      BY LocksStep, StudentReadyStep, SlotsStep, SlotLockedStep, SeatReadyStep DEF WellFormed
<1>3. WellFormed /\ Inv /\ [Next]_vars => [Ledger!Next]_Places
  <2>1. UNCHANGED bookings => UNCHANGED Places
        BY DEF Places, EntryOf, Active
  <2> QED BY <2>1, WriteTakes, StatusReleases, Writers
<1>4. [Ledger!Next]_Places => [Ledger!Next]_([b \in Requests |-> EntryOf(b)])
      BY DEF Places
<1> QED BY <1>1, <1>2, <1>3, <1>4, LedgerInit, WellFormedInvariant, PTL
        DEF Spec, KeepsLedger, Ledger!Spec

=============================================================================
