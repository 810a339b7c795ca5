---------------------------- MODULE SlotAdminProofs ----------------------------
(***************************************************************************)
(* The safety properties of SlotAdmin, for every number of requests,       *)
(* slots, coaches and bookings, and every calendar that does not end.      *)
(*                                                                         *)
(* WellFormed is what the handlers rely on of what they have read; with it *)
(* alone, attendance agrees with the status and a revealed coach leads     *)
(* his bookings.  Typed adds the types, for which the dates of a series    *)
(* have to be numbers.  Regular and Grouped say how the slots of a series  *)
(* and the replenishments under way lead from one day to the next.         *)
(***************************************************************************)
EXTENDS SlotAdmin, InductionLemmas, TLAPS, FunctionTheorems, FiniteSetTheorems

USE DEF history

\* The fields of a slot, of a booking and of what a handler keeps
Shaped(s) ==
    DOMAIN s = {"start", "coach", "capacity", "active", "cancelled", "overridden", "revealed",
                "inSeries", "logged"}

BookingShaped(r) == DOMAIN r = {"status", "slot", "start", "coach", "attendance"}

Local(t) ==
    DOMAIN t = {"slot", "start", "coach", "capacity", "phase", "until", "active", "cancelled", "fields",
                "coachChanged", "cascaded", "booking", "noted", "present", "open"}

\* A slot that is revealed has a coach, unless an update has taken him away since.
Revealable(s, excepted) == s.revealed \in BOOLEAN /\ (s.revealed => Deferred /\ (s.coach # Null \/ excepted))

SlotRows ==
    /\ slots = [i \in Ids |-> slots[i]]
    /\ created \in Nat
    /\ \A i \in Ids : slots[i] # Null =>
         /\ i <= created
         /\ Shaped(slots[i])
         /\ Revealable(slots[i], i \in reassigned)

\* A booking that is cancelled was cancelled by somebody, and logs leave none waiting or cancelled.
Booked(b) ==
    /\ BookingShaped(bookings[b])
    /\ bookings[b].status = "CANCELLED" => b \in withdrawn
    /\ bookings[b].status \in {"PENDING", "CANCELLED"} => b \in restated

BookingRows ==
    /\ bookings = [b \in Bookings |-> bookings[b]]
    /\ \A b \in Bookings : bookings[b] # Null => Booked(b)

Handlers ==
    /\ pc = [c \in Calls |-> pc[c]]
    /\ tx = [c \in Calls |-> tx[c]]
    /\ \A c \in Calls : Local(tx[c])
    /\ locks \in [Ids -> Calls \cup {Null}]

OnSlot == {"update", "cascade", "delete", "cancel", "reveal", "log", "seat", "book"}

\* What a handler has read: a slot whose identifier is in use, a coach; the status of whoever it will
\* not complete is not the work of a log; a booking transaction holds the slot whose coach it takes
\* over; a cascade of a coach follows a change of the coach after the reveal, if coaches are revealed.
HandlerOK(c) ==
    LET t == tx[c]
        i == t.slot
    IN  /\ pc[c] \in OnSlot => i \in Ids /\ i <= created
        /\ pc[c] = "reveal" => Deferred /\ t.coach # Null
        /\ pc[c] = "update" /\ "coach" \in t.cascaded /\ Deferred =>
             t.coachChanged /\ (Exists(i) => slots[i].revealed)
        /\ pc[c] = "cascade" /\ "coach" \in t.cascaded /\ Deferred /\ Exists(i) => i \in reassigned
        /\ pc[c] = "log" => \A b \in t.noted :
             /\ b \in Bookings
             /\ b \notin t.open => b \in restated
        /\ pc[c] \in {"seat", "book"} => t.booking \in Bookings
        /\ pc[c] = "book" =>
             /\ locks[i] = c
             /\ Exists(i) /\ slots[i].coach # Null => t.coach = slots[i].coach

WellFormed ==
    /\ SlotRows /\ BookingRows /\ Handlers
    /\ \A c \in Calls : HandlerOK(c)

-----------------------------------------------------------------------------
(* The initial states *)

LEMMA InitWellFormed == Init => WellFormed
<1> SUFFICES ASSUME Init PROVE WellFormed
    OBVIOUS
<1> USE SlotAdminAssumption, InitialAssumption
<1>1. PICK s \in Initial : /\ slots = s.slots /\ bookings = s.bookings
                           /\ created = Cardinality({x \in Ids : s.slots[x] # Null})
      BY DEF Init
<1>2. /\ slots \in [Ids -> Slot \cup {Null}] /\ bookings \in [Bookings -> BookingRow \cup {Null}]
      BY <1>1
<1>3. created \in Nat
  <2>1. IsFiniteSet(Ids)
        BY FS_Interval DEF Ids
  <2> QED BY <1>1, <2>1, FS_Subset, FS_CardinalityType
<1>4. SlotRows
  <2>1. ASSUME NEW i \in Ids, slots[i] # Null
        PROVE  i <= created /\ slots[i] \in Slot /\ ~slots[i].revealed
        BY <1>1, <1>2, <2>1
  <2>2. \A r \in Slot : Shaped(r) /\ r.revealed \in BOOLEAN
        BY DEF Slot, Shaped
  <2> QED BY <1>2, <1>3, <2>1, <2>2 DEF SlotRows, Revealable
<1>5. BookingRows
  <2>1. ASSUME NEW b \in Bookings, bookings[b] # Null
        PROVE  /\ bookings[b] \in BookingRow
               /\ bookings[b].status = "CONFIRMED"
        BY <1>1, <1>2, <2>1
  <2>2. \A r \in BookingRow : BookingShaped(r)
        BY DEF BookingRow, BookingShaped
  <2> QED BY <1>2, <2>1, <2>2 DEF BookingRows, Booked
<1>6. Handlers /\ \A c \in Calls : pc[c] = "idle"
  <2>1. Local(NoTx)
        BY DEF Local, NoTx
  <2>2. /\ pc = [c \in Calls |-> "idle"] /\ tx = [c \in Calls |-> NoTx]
        /\ locks = [i \in Ids |-> Null]
        BY DEF Init
  <2>3. /\ tx = [c \in Calls |-> tx[c]] /\ pc = [c \in Calls |-> pc[c]]
        /\ \A c \in Calls : tx[c] = NoTx
        BY <2>2
  <2>4. locks \in [Ids -> Calls \cup {Null}] /\ \A c \in Calls : Local(tx[c])
        BY <2>1, <2>2, <2>3
  <2>5. \A c \in Calls : pc[c] = "idle"
        BY <2>2
  <2> QED BY <2>3, <2>4, <2>5 DEF Handlers
<1> QED BY <1>4, <1>5, <1>6 DEF WellFormed, HandlerOK, OnSlot

-----------------------------------------------------------------------------
(* New slots: their identifiers have not been in use. *)

LEMMA InsertKeepsRows ==
    ASSUME SlotRows, NEW days, IsFiniteSet(days), NEW row, Insert(days, row), Shaped(row),
           row.revealed = FALSE, reassigned' = reassigned
    PROVE  /\ SlotRows'
           /\ created <= created'
           /\ \A i \in Ids : i <= created => slots'[i] = slots[i]
           /\ \A i \in Ids : i > created => (slots'[i] # Null => slots'[i].revealed = FALSE)
<1> DEFINE new == {d \in days : SlotsAt(d) = {}}
           earlier(d) == {x \in new \ {d} : x < d}
           idOf(d) == created + 1 + Cardinality(earlier(d))
<1>1. IsFiniteSet(new) /\ Cardinality(new) \in Nat
      BY FS_Subset, FS_CardinalityType
<1>2. ASSUME NEW d \in new
      PROVE  idOf(d) \in Nat /\ created < idOf(d) /\ idOf(d) <= created + Cardinality(new)
  <2>1. IsFiniteSet(new \ {d}) /\ Cardinality(new \ {d}) = Cardinality(new) - 1
        BY <1>1, FS_RemoveElement
  <2>2. earlier(d) \in SUBSET (new \ {d})
        OBVIOUS
  <2> HIDE DEF earlier
  <2>3. Cardinality(earlier(d)) \in Nat /\ Cardinality(earlier(d)) <= Cardinality(new \ {d})
        BY <2>1, <2>2, FS_Subset, FS_CardinalityType
  <2> QED BY <1>1, <2>1, <2>3 DEF SlotRows
<1>3. /\ created' = created + Cardinality(new)
      /\ slots' = [i \in Ids |-> IF \E d \in new : i = idOf(d)
                               THEN [row EXCEPT !.start = CHOOSE d \in new : i = idOf(d)]
                               ELSE slots[i]]
      BY DEF Insert
<1>4. ASSUME NEW x
      PROVE  LET n == [row EXCEPT !.start = x]
             IN  Shaped(n) /\ n.revealed = FALSE
      BY DEF Shaped
<1> HIDE DEF idOf, new
<1>5. ASSUME NEW i \in Ids, \E d \in new : i = idOf(d)
      PROVE  /\ created < i /\ i <= created'
             /\ Shaped(slots'[i])
             /\ slots'[i].revealed = FALSE
  <2>1. slots'[i] = [row EXCEPT !.start = CHOOSE d \in new : i = idOf(d)]
        BY <1>3, <1>5
  <2>2. created < i /\ i <= created'
        BY <1>2, <1>3, <1>5
  <2>3. /\ Shaped(slots'[i])
        /\ slots'[i].revealed = FALSE
        BY <1>4, <2>1
  <2> QED BY <2>2, <2>3
<1>6. ASSUME NEW i \in Ids, ~\E d \in new : i = idOf(d)
      PROVE  slots'[i] = slots[i]
      BY <1>3, <1>6
<1>7. created' \in Nat /\ created <= created' /\ slots' = [i \in Ids |-> slots'[i]]
      BY <1>1, <1>3 DEF SlotRows
<1>8. ASSUME NEW i \in Ids, slots'[i] # Null
      PROVE  /\ i <= created'
             /\ Shaped(slots'[i])
             /\ Revealable(slots'[i], i \in reassigned')
  <2>1. CASE \E d \in new : i = idOf(d)
        BY <1>5, <2>1 DEF Revealable
  <2>2. CASE ~\E d \in new : i = idOf(d)
    <3>1. slots'[i] = slots[i] /\ slots[i] # Null
          BY <1>6, <1>8, <2>2
    <3> QED BY <1>7, <3>1 DEF SlotRows, Ids, Revealable
  <2> QED BY <2>1, <2>2
<1>9. SlotRows'
      BY <1>7, <1>8 DEF SlotRows
<1>10. ASSUME NEW i \in Ids
       PROVE  /\ i <= created => slots'[i] = slots[i]
              /\ i > created => (slots'[i] # Null => slots'[i].revealed = FALSE)
  <2>0. i \in Nat /\ created \in Nat
        BY SlotAdminAssumption DEF SlotRows, Ids
  <2>1. CASE \E d \in new : i = idOf(d)
    <3>1. created < i /\ slots'[i].revealed = FALSE
          BY <1>5, <2>1
    <3> QED BY <2>0, <3>1
  <2>2. CASE ~\E d \in new : i = idOf(d)
        BY <1>6, <2>2 DEF SlotRows, Ids
  <2> QED BY <2>1, <2>2
<1> QED BY <1>7, <1>9, <1>10

-----------------------------------------------------------------------------
(* What a step of one handler leaves to the others *)

LeftAlone(d) ==
    /\ created <= created' /\ restated \subseteq restated' /\ reassigned \subseteq reassigned'
    /\ \A i \in Ids : i <= created /\ slots'[i] # Null =>
         slots[i] # Null /\ (slots[i].revealed => slots'[i].revealed)
    /\ \A i \in Ids : i <= created /\ locks[i] = d =>
         locks'[i] = d /\ (slots'[i] # Null => slots'[i].coach = slots[i].coach)

LEMMA IdsAreNumbers == \A i \in Ids : i \in Nat /\ i # Null
BY SlotAdminAssumption DEF Ids

LEMMA OthersKeep ==
    ASSUME SlotRows, SlotRows', NEW d \in Calls, HandlerOK(d), pc'[d] = pc[d], tx'[d] = tx[d],
           LeftAlone(d)
    PROVE  HandlerOK(d)'
<1> DEFINE t == tx[d]
           i == tx[d].slot
<1>0. created \in Nat /\ created' \in Nat /\ \A k \in Ids : k \in Nat /\ k # Null
      BY IdsAreNumbers DEF SlotRows
<1>1. pc[d] \in OnSlot => i \in Ids /\ i <= created'
      BY <1>0 DEF HandlerOK, LeftAlone
<1>2. /\ pc[d] = "update" /\ "coach" \in t.cascaded /\ Deferred =>
            t.coachChanged /\ (Exists(i)' => slots'[i].revealed)
      /\ pc[d] = "cascade" /\ "coach" \in t.cascaded /\ Deferred /\ Exists(i)' => i \in reassigned'
      BY <1>0 DEF HandlerOK, LeftAlone, OnSlot, Exists
<1>3. pc[d] = "log" => \A b \in t.noted :
        /\ b \in Bookings
        /\ b \notin t.open => b \in restated'
      BY DEF HandlerOK, LeftAlone
<1>4. pc[d] = "book" =>
        /\ locks'[i] = d
        /\ Exists(i)' /\ slots'[i].coach # Null => t.coach = slots'[i].coach
      BY <1>0 DEF HandlerOK, LeftAlone, OnSlot, Exists
<1>5. /\ pc[d] = "reveal" => Deferred /\ t.coach # Null
      /\ pc[d] \in {"seat", "book"} => t.booking \in Bookings
      BY DEF HandlerOK
<1> QED BY <1>1, <1>2, <1>3, <1>4, <1>5 DEF HandlerOK, Exists

LEMMA Assemble ==
    ASSUME WellFormed, NEW c \in Calls, NEW next, NEW t, Goto(c, next, t), Local(t),
           SlotRows', BookingRows', locks' \in [Ids -> Calls \cup {Null}],
           next \in OnSlot => HandlerOK(c)',
           \A d \in Calls \ {c} : LeftAlone(d)
    PROVE  WellFormed'
<1>1. /\ pc'[c] = next /\ tx'[c] = t
      /\ \A d \in Calls \ {c} : pc'[d] = pc[d] /\ tx'[d] = tx[d]
      /\ pc' = [d \in Calls |-> pc'[d]] /\ tx' = [d \in Calls |-> tx'[d]]
      BY DEF Goto, WellFormed, Handlers
<1>2. Handlers'
  <2>1. \A d \in Calls : Local(tx'[d])
        BY <1>1 DEF WellFormed, Handlers
  <2> QED BY <1>1, <2>1 DEF Handlers, Local
<1>3. HandlerOK(c)'
  <2>1. CASE next \notin OnSlot
        BY <1>1, <2>1 DEF HandlerOK, OnSlot
  <2> QED BY <2>1
<1>4. ASSUME NEW d \in Calls \ {c} PROVE HandlerOK(d)'
      BY <1>1, OthersKeep DEF WellFormed
<1> QED BY <1>2, <1>3, <1>4 DEF WellFormed

\* A step that only reads
LEMMA QuietStep ==
    ASSUME WellFormed, NEW c \in Calls, NEW next, NEW t, Goto(c, next, t), Local(t),
           UNCHANGED <<slots, created, bookings, locks, history>>,
           next \in OnSlot => HandlerOK(c)'
    PROVE  WellFormed'
<1>1. SlotRows' /\ BookingRows' /\ locks' \in [Ids -> Calls \cup {Null}]
      BY DEF WellFormed, SlotRows, BookingRows, Booked, Handlers, Shaped, BookingShaped, Revealable
<1>2. ASSUME NEW d \in Calls PROVE LeftAlone(d)
      BY DEF LeftAlone, WellFormed, SlotRows
<1> QED BY <1>1, <1>2, Assemble

LEMMA BookingsChanged ==
    ASSUME BookingRows, NEW S, withdrawn \ S \subseteq withdrawn', restated \subseteq restated',
           bookings' = [b \in Bookings |-> bookings'[b]],
           \A b \in Bookings \ S : bookings'[b] = bookings[b],
           \A b \in Bookings \cap S : /\ BookingShaped(bookings'[b])
                                      /\ bookings'[b].status = "CANCELLED" => b \in withdrawn'
                                      /\ bookings'[b].status \in {"PENDING", "CANCELLED"} => b \in restated'
    PROVE  BookingRows'
BY DEF BookingRows, Booked, BookingShaped

-----------------------------------------------------------------------------
(* Requests *)

LEMMA AskTypes ==
    ASSUME NEW c \in Calls, NEW a \in Asks[c]
    PROVE  /\ a.op \in {"update", "delete", "cancel", "reveal", "log"} => a.slot \in Ids
           /\ a.op = "log" => a.noted \subseteq Bookings
           /\ a.op \in {"book", "status"} => a.booking \in Bookings
BY SlotAdminAssumption DEF Ask

LEMMA NoTxLocal == Local(NoTx)
BY DEF Local, NoTx

LEMMA ExistingInUse == ASSUME SlotRows, NEW i \in Ids, Exists(i) PROVE i <= created
BY DEF SlotRows, Exists

\* What the first statement of a request reads is what its handler relies on.
LEMMA ReceiveKeeps ==
    ASSUME WellFormed, NEW c \in Calls, Receive(c)
    PROVE  WellFormed'
<1>0. SlotRows /\ BookingRows
      BY DEF WellFormed
<1> USE NoTxLocal
<1>1. CASE CreateSlot(c)
  <2>1. PICK a \in Asks[c] : Goto(c, "insert", [NoTx EXCEPT !.start = a.start,
                                  !.coach = DefaultCoach(a.coach), !.capacity = a.capacity])
        BY <1>1 DEF CreateSlot, Begin, Asked
  <2>2. Local([NoTx EXCEPT !.start = a.start, !.coach = DefaultCoach(a.coach), !.capacity = a.capacity])
        BY DEF Local, NoTx
  <2> QED BY <1>1, <2>1, <2>2, QuietStep DEF CreateSlot, slotVars, OnSlot
<1>2. CASE CreateSeries(c)
  <2>1. PICK a \in Asks[c] : Goto(c, "insertSeries", [NoTx EXCEPT !.start = a.start,
                                  !.coach = DefaultCoach(a.coach), !.capacity = a.capacity])
        BY <1>2 DEF CreateSeries, Begin, Asked
  <2>2. Local([NoTx EXCEPT !.start = a.start, !.coach = DefaultCoach(a.coach), !.capacity = a.capacity])
        BY DEF Local, NoTx
  <2> QED BY <1>2, <2>1, <2>2, QuietStep DEF CreateSeries, slotVars, OnSlot
<1>3. CASE ListSlots(c) \/ StopSeries(c) \/ ResumeSeries(c)
  <2>1. PICK next \in {"readSeries", "done"} : Goto(c, next, NoTx)
        BY <1>3 DEF ListSlots, StopSeries, ResumeSeries, Begin
  <2>2. UNCHANGED <<slots, created, bookings, locks, history>>
        BY <1>3 DEF ListSlots, StopSeries, ResumeSeries, SwitchSeries, slotVars
  <2> QED BY <2>1, <2>2, QuietStep DEF OnSlot
<1>4. CASE ReadSlotToUpdate(c)
  <2> DEFINE row(a, changed, cascaded) ==
               [NoTx EXCEPT !.slot = a.slot, !.fields = a.fields, !.start = a.start, !.coach = a.coach,
                            !.capacity = a.capacity, !.active = a.active, !.cancelled = a.cancelled,
                            !.coachChanged = changed, !.cascaded = cascaded]
  <2>1. PICK a \in Asks[c] : /\ a.op = "update" /\ Exists(a.slot)
                             /\ \E changed, cascaded :
                                  /\ "coach" \in cascaded => changed /\ (Deferred => slots[a.slot].revealed)
                                  /\ Goto(c, "update", row(a, changed, cascaded))
    <3>1. PICK a \in Asks[c] :
            LET timeChanged == "start" \in a.fields /\ a.start # slots[a.slot].start
                coachChanged == "coach" \in a.fields /\ a.coach # slots[a.slot].coach
                follow == Seated(a.slot) # {}
            IN  /\ a.op = "update" /\ Exists(a.slot)
                /\ Goto(c, "update", row(a, coachChanged,
                          (IF timeChanged /\ follow THEN {"start"} ELSE {})
                          \cup (IF coachChanged /\ follow /\ (Deferred => slots[a.slot].revealed)
                                THEN {"coach"} ELSE {})))
          BY <1>4 DEF ReadSlotToUpdate, Begin, Asked
    <3> DEFINE changed == "coach" \in a.fields /\ a.coach # slots[a.slot].coach
               cascaded == (IF /\ "start" \in a.fields /\ a.start # slots[a.slot].start
                               /\ Seated(a.slot) # {} THEN {"start"} ELSE {})
                           \cup (IF changed /\ Seated(a.slot) # {} /\ (Deferred => slots[a.slot].revealed)
                                 THEN {"coach"} ELSE {})
    <3>2. "coach" \in cascaded => changed /\ (Deferred => slots[a.slot].revealed)
          OBVIOUS
    <3>3. Goto(c, "update", row(a, changed, cascaded))
          BY <3>1
    <3> HIDE DEF changed, cascaded, row
    <3> QED BY <3>1, <3>2, <3>3
  <2>7. PICK changed, cascaded : /\ "coach" \in cascaded => changed /\ (Deferred => slots[a.slot].revealed)
                                 /\ Goto(c, "update", row(a, changed, cascaded))
        BY <2>1
  <2> DEFINE t == row(a, changed, cascaded)
  <2>2. Local(t) /\ t.slot = a.slot /\ t.coachChanged = changed /\ t.cascaded = cascaded
        BY DEF Local, NoTx
  <2>5. pc'[c] = "update" /\ tx'[c] = t
        BY <2>7 DEF Goto, WellFormed, Handlers
  <2> HIDE DEF t
  <2>3. a.slot \in Ids /\ a.slot <= created
        BY <1>0, <2>1, AskTypes, ExistingInUse
  <2>4. UNCHANGED <<slots, created, bookings, locks, history>>
        BY <1>4 DEF ReadSlotToUpdate, slotVars
  <2>6. HandlerOK(c)'
        BY <2>2, <2>3, <2>4, <2>5, <2>7 DEF HandlerOK, OnSlot, Exists
  <2> QED BY <2>2, <2>4, <2>6, <2>7, QuietStep DEF t
<1>5. CASE CountBookings(c) \/ ReadSlotToCancel(c)
  <2>1. PICK a \in Asks[c], next \in {"delete", "cancel"} :
          /\ a.op = next /\ Exists(a.slot)
          /\ Goto(c, next, [NoTx EXCEPT !.slot = a.slot])
        BY <1>5 DEF CountBookings, ReadSlotToCancel, Begin, Asked
  <2> DEFINE t == [NoTx EXCEPT !.slot = a.slot]
  <2>2. Local(t) /\ t.slot = a.slot
        BY DEF Local, NoTx
  <2> HIDE DEF t
  <2>3. a.slot \in Ids /\ a.slot <= created
        BY <1>0, <2>1, AskTypes, ExistingInUse
  <2>4. UNCHANGED <<slots, created, bookings, locks, history>>
        BY <1>5 DEF CountBookings, ReadSlotToCancel, slotVars
  <2>5. pc'[c] = next /\ tx'[c] = t
        BY <2>1 DEF Goto, WellFormed, Handlers, t
  <2>6. HandlerOK(c)'
        BY <2>1, <2>2, <2>3, <2>4, <2>5 DEF HandlerOK, OnSlot
  <2> QED BY <2>1, <2>2, <2>4, <2>6, QuietStep DEF t
<1>6. CASE ReadSlotToReveal(c)
  <2>1. PICK a, coach :
          /\ a \in Asks[c]
          /\ Deferred /\ a.op = "reveal" /\ Exists(a.slot) /\ coach # Null
          /\ Goto(c, "reveal", [NoTx EXCEPT !.slot = a.slot, !.coach = coach])
        BY <1>6 DEF ReadSlotToReveal, Begin, Asked
  <2> DEFINE t == [NoTx EXCEPT !.slot = a.slot, !.coach = coach]
  <2>2. Local(t) /\ t.slot = a.slot /\ t.coach = coach
        BY DEF Local, NoTx
  <2> HIDE DEF t
  <2>3. a.slot \in Ids /\ a.slot <= created
        BY <1>0, <2>1, AskTypes, ExistingInUse
  <2>4. UNCHANGED <<slots, created, bookings, locks, history>>
        BY <1>6 DEF ReadSlotToReveal, slotVars
  <2>5. pc'[c] = "reveal" /\ tx'[c] = t
        BY <2>1 DEF Goto, WellFormed, Handlers, t
  <2>6. HandlerOK(c)'
        BY <2>1, <2>2, <2>3, <2>4, <2>5 DEF HandlerOK, OnSlot
  <2> QED BY <2>1, <2>2, <2>4, <2>6, QuietStep DEF t
<1>7. CASE ReadBookingsToLog(c)
  <2> DEFINE row(a) == [NoTx EXCEPT !.slot = a.slot, !.coach = a.coach, !.noted = a.noted, !.present = a.present,
                         !.open = {b \in Seated(a.slot) : bookings[b].status # "PENDING"}]
  <2>1. PICK a \in Asks[c] : /\ a.op = "log" /\ Exists(a.slot) /\ Goto(c, "log", row(a))
                             /\ \A b \in a.noted : bookings[b] # Null /\ bookings[b].slot = a.slot
        BY <1>7 DEF ReadBookingsToLog, Begin, Asked
  <2> DEFINE t == row(a)
  <2>2. /\ Local(t) /\ t.slot = a.slot /\ t.noted = a.noted
        /\ t.open = {b \in Seated(a.slot) : bookings[b].status # "PENDING"}
        BY DEF Local, NoTx
  <2>5. pc'[c] = "log" /\ tx'[c] = t
        BY <2>1 DEF Goto, WellFormed, Handlers
  <2> HIDE DEF t
  <2>3. a.slot \in Ids /\ a.slot <= created /\ a.noted \subseteq Bookings
        BY <1>0, <2>1, AskTypes, ExistingInUse
  <2>4. UNCHANGED <<slots, created, bookings, locks, history>>
        BY <1>7 DEF ReadBookingsToLog, slotVars
  <2>6. ASSUME NEW b \in t.noted
        PROVE  /\ b \in Bookings
               /\ b \notin t.open => b \in restated
        BY <1>0, <2>1, <2>2, <2>3, <2>6 DEF BookingRows, Booked, Seated, Counted
  <2>7. HandlerOK(c)'
        BY <2>2, <2>3, <2>4, <2>5, <2>6 DEF HandlerOK, OnSlot
  <2> QED BY <2>1, <2>2, <2>4, <2>7, QuietStep DEF t
<1>8. CASE MatchSlot(c)
  <2>1. PICK a \in Asks[c], i \in Ids :
          /\ a.op = "book" /\ Exists(i)
          /\ Goto(c, "seat", [NoTx EXCEPT !.slot = i, !.start = a.start, !.booking = a.booking,
                                          !.capacity = slots[i].capacity])
        BY <1>8 DEF MatchSlot, SlotsAt, Begin, Asked
  <2> DEFINE t == [NoTx EXCEPT !.slot = i, !.start = a.start, !.booking = a.booking,
                               !.capacity = slots[i].capacity]
  <2>2. Local(t) /\ t.slot = i /\ t.booking = a.booking
        BY DEF Local, NoTx
  <2>5. pc'[c] = "seat" /\ tx'[c] = t
        BY <2>1 DEF Goto, WellFormed, Handlers
  <2> HIDE DEF t
  <2>3. i <= created /\ a.booking \in Bookings
        BY <1>0, <2>1, AskTypes, ExistingInUse
  <2>4. UNCHANGED <<slots, created, bookings, locks, history>>
        BY <1>8 DEF MatchSlot, slotVars
  <2>6. HandlerOK(c)'
        BY <2>1, <2>2, <2>3, <2>4, <2>5 DEF HandlerOK, OnSlot
  <2> QED BY <2>1, <2>2, <2>4, <2>6, QuietStep DEF t
<1>9. CASE SetStatus(c)
  <2>1. PICK a \in Asks[c] :
          /\ a.op = "status" /\ bookings[a.booking] # Null
          /\ bookings' = [bookings EXCEPT ![a.booking].status = a.status]
          /\ withdrawn' = IF a.status = "CANCELLED" THEN withdrawn \cup {a.booking} ELSE withdrawn
          /\ restated' = restated \cup {a.booking}
        BY <1>9 DEF SetStatus, Asked
  <2>2. a.booking \in Bookings
        BY <2>1, AskTypes
  <2>3. UNCHANGED <<slots, created, locks, reassigned>> /\ Goto(c, "done", NoTx)
        BY <1>9 DEF SetStatus, slotVars, Begin
  <2>4. BookingShaped(bookings[a.booking])
        BY <1>0, <2>1, <2>2 DEF BookingRows, Booked
  <2>5. bookings' = [b \in Bookings |-> IF b = a.booking
                                       THEN [bookings[b] EXCEPT !.status = a.status]
                                       ELSE bookings[b]]
        BY <1>0, <2>1, <2>2 DEF BookingRows
  <2>6. PICK S : S = {a.booking}
        OBVIOUS
  <2>7. BookingRows'
    <3>1. \A b \in Bookings \cap S : /\ BookingShaped(bookings'[b])
                                     /\ bookings'[b].status = "CANCELLED" => b \in withdrawn'
                                     /\ b \in restated'
          BY <2>1, <2>4, <2>5, <2>6 DEF BookingShaped
    <3>2. /\ \A b \in Bookings \ S : bookings'[b] = bookings[b]
          /\ bookings' = [b \in Bookings |-> bookings'[b]]
          /\ withdrawn \subseteq withdrawn' /\ restated \subseteq restated'
          BY <2>1, <2>5, <2>6
    <3> QED BY <1>0, <3>1, <3>2, BookingsChanged
  <2>8. ASSUME NEW d \in Calls PROVE LeftAlone(d)
        BY <1>0, <2>1, <2>3 DEF LeftAlone, SlotRows
  <2>9. SlotRows' /\ locks' \in [Ids -> Calls \cup {Null}]
        BY <1>0, <2>3 DEF SlotRows, Shaped, Revealable, WellFormed, Handlers
  <2> QED BY <2>3, <2>7, <2>8, <2>9, Assemble DEF OnSlot
<1> QED BY <1>1, <1>2, <1>3, <1>4, <1>5, <1>6, <1>7, <1>8, <1>9 DEF Receive

-----------------------------------------------------------------------------
(* Slots are inserted *)

LEMMA DatesFinite ==
    ASSUME NEW first \in Int, NEW last \in Int, NEW Dates, NEW f,
           f = [n \in first..last |-> f[n]], Dates = {f[n] : n \in first..last}
    PROVE  IsFiniteSet(Dates)
<1>1. f \in Surjection(first..last, Dates)
      BY DEF Surjection
<1> QED BY <1>1, FS_Interval, FS_Surjection

LEMMA SeriesDaysFinite ==
    ASSUME NEW start
    PROVE  IsFiniteSet({Occurrence(start, frequency, 0, n) : n \in 0..Occurrences - 1})
<1> DEFINE f == [n \in 0..Occurrences - 1 |-> Occurrence(start, frequency, 0, n)]
           days == {Occurrence(start, frequency, 0, n) : n \in 0..Occurrences - 1}
<1>1. f = [n \in 0..Occurrences - 1 |-> f[n]] /\ days = {f[n] : n \in 0..Occurrences - 1}
      OBVIOUS
<1> HIDE DEF f, days
<1>2. 0 \in Int /\ Occurrences - 1 \in Int
      BY SlotAdminAssumption
<1>3. IsFiniteSet(days)
      BY <1>1, <1>2, DatesFinite
<1> QED BY <1>3 DEF days

LEMMA UpcomingFinite ==
    ASSUME NEW start, NEW phase, NEW until
    PROVE  IsFiniteSet(Upcoming(start, frequency, phase, until))
<1> DEFINE f == [n \in 1..MaxIterations |-> Occurrence(start, frequency, phase, n)]
           all == {Occurrence(start, frequency, phase, n) : n \in 1..MaxIterations}
           days == Upcoming(start, frequency, phase, until)
<1>1. /\ f = [n \in 1..MaxIterations |-> f[n]] /\ all = {f[n] : n \in 1..MaxIterations}
      /\ days \in SUBSET all
      BY DEF Upcoming
<1> HIDE DEF f, all, days
<1>2. 1 \in Int /\ MaxIterations \in Int
      BY RecurrenceAssumption
<1>3. IsFiniteSet(all)
      BY <1>1, <1>2, DatesFinite
<1>4. IsFiniteSet(days)
      BY <1>1, <1>3, FS_Subset
<1> QED BY <1>4 DEF days

LEMMA InsertStep ==
    ASSUME WellFormed, NEW c \in Calls, Goto(c, "done", NoTx),
           NEW days, IsFiniteSet(days), NEW row, Insert(days, row), Shaped(row), row.revealed = FALSE,
           UNCHANGED <<bookings, locks, history>>
    PROVE  WellFormed'
<1>1. /\ SlotRows' /\ created <= created'
      /\ \A i \in Ids : i <= created => slots'[i] = slots[i]
      BY InsertKeepsRows DEF WellFormed
<1>2. BookingRows' /\ locks' \in [Ids -> Calls \cup {Null}]
      BY DEF WellFormed, BookingRows, Booked, Handlers, BookingShaped
<1>3. ASSUME NEW d \in Calls PROVE LeftAlone(d)
      BY <1>1 DEF LeftAlone
<1> QED BY <1>1, <1>2, <1>3, NoTxLocal, Assemble DEF OnSlot

LEMMA NewSlotShape ==
    ASSUME NEW start, NEW coach, NEW capacity, NEW inSeries, NEW active
    PROVE  /\ LET n == NewSlot(start, coach, capacity, inSeries)
              IN  Shaped(n) /\ n.revealed = FALSE
           /\ LET n == [NewSlot(start, coach, capacity, inSeries) EXCEPT !.active = active]
              IN  Shaped(n) /\ n.revealed = FALSE
BY DEF NewSlot, Shaped

\* createEventScheduleSlot and replenishContinuousSlots
LEMMA InsertionsKeep ==
    ASSUME WellFormed, NEW c \in Calls, InsertSlot(c) \/ InsertSeries(c) \/ Replenish(c)
    PROVE  WellFormed'
<1> DEFINE t == tx[c]
<1>0. Goto(c, "done", NoTx) /\ UNCHANGED <<bookings, locks, history>>
      BY DEF InsertSlot, InsertSeries, Replenish, Answer
<1>1. CASE UNCHANGED <<slots, created>>
      BY <1>0, <1>1, NoTxLocal, QuietStep DEF OnSlot
<1>2. CASE InsertSlot(c) /\ ~UNCHANGED <<slots, created>>
  <2>1. Insert({t.start}, NewSlot(t.start, t.coach, t.capacity, FALSE))
        BY <1>2 DEF InsertSlot
  <2> QED BY <1>0, <2>1, FS_Singleton, NewSlotShape, InsertStep
<1>3. CASE InsertSeries(c)
  <2> DEFINE days == {Occurrence(t.start, frequency, 0, n) : n \in 0..Occurrences - 1}
  <2>1. Insert(days, NewSlot(0, t.coach, t.capacity, TRUE))
        BY <1>3 DEF InsertSeries
  <2>2. IsFiniteSet(days)
        BY SeriesDaysFinite
  <2> HIDE DEF days
  <2> QED BY <1>0, <2>1, <2>2, NewSlotShape, InsertStep
<1>4. CASE Replenish(c) /\ ~UNCHANGED <<slots, created>>
  <2> DEFINE days == Upcoming(t.start, frequency, t.phase, t.until)
  <2>1. Insert(days, [NewSlot(0, t.coach, t.capacity, TRUE) EXCEPT !.active = t.active])
        BY <1>4 DEF Replenish
  <2>2. IsFiniteSet(days)
        BY UpcomingFinite
  <2> HIDE DEF days
  <2> QED BY <1>0, <2>1, <2>2, NewSlotShape, InsertStep
<1> QED BY <1>1, <1>2, <1>3, <1>4

\* What only reads, and what changes the series alone
LEMMA ReadsKeep ==
    ASSUME WellFormed, NEW c \in Calls,
           ReadSeries(c) \/ Deactivate(c) \/ ReadAnchor(c) \/ CountSeries(c)
    PROVE  WellFormed'
<1>1. UNCHANGED <<slots, created, bookings, locks, history>>
      BY DEF ReadSeries, Deactivate, ReadAnchor, CountSeries, slotVars
<1>2. Local(tx[c]) /\ Local(NoTx)
      BY NoTxLocal DEF WellFormed, Handlers
<1>3. ASSUME NEW phase PROVE Local([tx[c] EXCEPT !.phase = phase])
      BY <1>2 DEF Local
<1>4. \E next, t : Goto(c, next, t) /\ next \notin OnSlot /\ Local(t)
  <2>1. CASE ReadSeries(c)
    <3> DEFINE latest == CHOOSE i \in SeriesSlots : \A x \in SeriesSlots : slots[x].start <= slots[i].start
               t == [NoTx EXCEPT !.start = slots[latest].start, !.capacity = slots[latest].capacity,
                                 !.active = slots[latest].active, !.until = now + Ahead,
                                 !.coach = IF FixedLead # Null THEN FixedLead ELSE slots[latest].coach]
    <3> HIDE DEF latest
    <3>1. Local(t)
          BY DEF Local, NoTx
    <3> HIDE DEF t
    <3>2. \/ Goto(c, "done", NoTx) \/ Goto(c, "deactivate", NoTx)
          \/ Goto(c, "readAnchor", t) \/ Goto(c, "replenish", t)
          BY <2>1 DEF ReadSeries, Answer, t, latest
    <3> QED BY <1>2, <3>1, <3>2 DEF OnSlot
  <2>2. CASE ReadAnchor(c)
    <3>1. PICK phase : Goto(c, "replenish", [tx[c] EXCEPT !.phase = phase])
          BY <2>2 DEF ReadAnchor
    <3> QED BY <1>3, <3>1 DEF OnSlot
  <2>3. CASE Deactivate(c) \/ CountSeries(c)
        BY <1>2, <2>3 DEF Deactivate, CountSeries, Answer, OnSlot
  <2> QED BY <2>1, <2>2, <2>3
<1> QED BY <1>1, <1>4, QuietStep

-----------------------------------------------------------------------------
(* Slots and bookings are changed *)

LEMMA SlotChanged ==
    ASSUME SlotRows, NEW i \in Ids, Exists(i), NEW n, slots' = [slots EXCEPT ![i] = n],
           UNCHANGED created, Shaped(n), Revealable(n, i \in reassigned'), reassigned \subseteq reassigned'
    PROVE  /\ SlotRows'
           /\ slots'[i] = n
           /\ \A k \in Ids \ {i} : slots'[k] = slots[k]
<1>1. /\ slots' = [k \in Ids |-> slots'[k]]
      /\ slots'[i] = n /\ \A k \in Ids \ {i} : slots'[k] = slots[k]
      BY DEF SlotRows
<1>2. i <= created
      BY ExistingInUse
<1>3. ASSUME NEW k \in Ids, slots'[k] # Null
      PROVE  /\ k <= created'
             /\ Shaped(slots'[k])
             /\ Revealable(slots'[k], k \in reassigned')
  <2>1. CASE k = i
        BY <1>1, <1>2, <2>1 DEF Revealable
  <2>2. CASE k # i
        BY <1>1, <1>3, <2>2 DEF SlotRows, Revealable
  <2> QED BY <2>1, <2>2
<1> QED BY <1>1, <1>3 DEF SlotRows, Shaped

LEMMA SeatedRows ==
    ASSUME BookingRows, NEW i, NEW b \in Seated(i)
    PROVE  b \in Bookings /\ Booked(b) /\ bookings[b] # Null /\ bookings[b].status # "CANCELLED"
BY DEF BookingRows, Seated, Counted

LEMMA UpdatedSlot ==
    ASSUME NEW r, Shaped(r), NEW t
    PROVE  LET n == Updated(r, t)
           IN  Shaped(n) /\ n.revealed = r.revealed
BY DEF Shaped, Updated

LEMMA UpdateKeeps == ASSUME WellFormed, NEW c \in Calls, UpdateSlot(c) PROVE WellFormed'
<1> DEFINE t == tx[c]
           i == tx[c].slot
           n == Updated(slots[i], t)
           possible == Exists(i) /\ ("start" \in t.fields => SlotsAt(t.start) \subseteq {i})
<1>0. /\ SlotRows /\ BookingRows /\ HandlerOK(c) /\ Local(t) /\ Local(NoTx)
      /\ pc[c] = "update" /\ locks[i] = Null /\ UNCHANGED <<created, bookings, locks, withdrawn, restated>>
      BY NoTxLocal DEF WellFormed, Handlers, UpdateSlot
<1>1. i \in Ids /\ ("coach" \in t.cascaded /\ Deferred => t.coachChanged /\ (Exists(i) => slots[i].revealed))
      BY <1>0 DEF HandlerOK, OnSlot
<1>2. CASE ~possible
  <2>1. UNCHANGED <<slots, reassigned>> /\ Goto(c, "done", NoTx)
        BY <1>2 DEF UpdateSlot, Answer
  <2> QED BY <1>0, <2>1, QuietStep DEF OnSlot
<1>3. CASE possible
  <2>1. /\ Exists(i) /\ slots' = [slots EXCEPT ![i] = n]
        /\ reassigned' = IF slots[i].revealed /\ (t.coachChanged \/ slots[i].coach # slots'[i].coach)
                         THEN reassigned \cup {i} ELSE reassigned
        BY <1>3 DEF UpdateSlot
  <2>2. Shaped(slots[i]) /\ Revealable(slots[i], i \in reassigned)
        BY <1>0, <1>1, <2>1 DEF SlotRows, Exists
  <2>3. Shaped(n) /\ n.revealed = slots[i].revealed
        BY <2>2, UpdatedSlot
  <2> HIDE DEF n
  <2>10. slots'[i] = n
        BY <1>0, <1>1, <2>1 DEF SlotRows
  <2>11. Revealable(n, i \in reassigned') /\ reassigned \subseteq reassigned'
        BY <2>1, <2>2, <2>3, <2>10 DEF Revealable
  <2>4. /\ SlotRows' /\ \A k \in Ids \ {i} : slots'[k] = slots[k]
        BY <1>0, <1>1, <2>1, <2>3, <2>11, SlotChanged
  <2>5. PICK next \in {"cascade", "done"} :
          \/ next = "cascade" /\ Goto(c, "cascade", t)
          \/ next = "done" /\ Goto(c, "done", NoTx)
        BY <1>3 DEF UpdateSlot, Answer
  <2>6. BookingRows' /\ locks' \in [Ids -> Calls \cup {Null}]
        BY <1>0 DEF WellFormed, BookingRows, Booked, Handlers, BookingShaped
  <2>7. ASSUME NEW d \in Calls PROVE LeftAlone(d)
    <3>1. d # Null
          BY SlotAdminAssumption
    <3>2. /\ created <= created' /\ restated \subseteq restated' /\ reassigned \subseteq reassigned'
          BY <1>0, <2>11 DEF SlotRows
    <3>3. \A k \in Ids : slots'[k] # Null => slots[k] # Null /\ (slots[k].revealed => slots'[k].revealed)
          BY <2>1, <2>3, <2>4, <2>10 DEF Exists
    <3>4. \A k \in Ids : locks[k] = d => locks'[k] = d /\ slots'[k] = slots[k]
          BY <1>0, <2>4, <3>1
    <3> QED BY <3>2, <3>3, <3>4 DEF LeftAlone
  <2>8. CASE next = "cascade"
    <3>1. pc'[c] = "cascade" /\ tx'[c] = t
          BY <2>5, <2>8 DEF Goto, WellFormed, Handlers
    <3>3. "coach" \in t.cascaded /\ Deferred => i \in reassigned'
          BY <1>1, <2>1
    <3>2. HandlerOK(c)'
          BY <1>0, <1>1, <3>1, <3>3 DEF HandlerOK, OnSlot
    <3> QED BY <1>0, <2>4, <2>5, <2>6, <2>7, <2>8, <3>2, Assemble
  <2>9. CASE next = "done"
        BY <1>0, <2>4, <2>5, <2>6, <2>7, <2>9, Assemble DEF OnSlot
  <2> QED BY <2>5, <2>8, <2>9
<1> QED BY <1>2, <1>3

LEMMA CascadeKeeps == ASSUME WellFormed, NEW c \in Calls, Cascade(c) PROVE WellFormed'
<1> DEFINE t == tx[c]
<1>0. /\ SlotRows /\ BookingRows /\ UNCHANGED <<slots, created, locks, history>>
      /\ Goto(c, "done", NoTx) /\ Local(NoTx)
      BY NoTxLocal DEF WellFormed, Cascade, slotVars, Answer
<1>1. /\ bookings' = [b \in Bookings |-> bookings'[b]]
      /\ \A b \in Bookings \ Seated(t.slot) : bookings'[b] = bookings[b]
      BY DEF Cascade
<1>2. ASSUME NEW b \in Bookings \cap Seated(t.slot)
      PROVE  BookingShaped(bookings'[b]) /\ bookings'[b].status = bookings[b].status
  <2>1. PICK start, coach : bookings'[b] = [bookings[b] EXCEPT !.start = start, !.coach = coach]
        BY DEF Cascade
  <2>2. BookingShaped(bookings[b])
        BY <1>0, SeatedRows DEF Booked
  <2> QED BY <2>1, <2>2 DEF BookingShaped
<1>3. BookingRows'
  <2>1. \A b \in Seated(t.slot) : Booked(b)
        BY <1>0, SeatedRows
  <2>2. PICK S : S = Seated(t.slot)
        OBVIOUS
  <2> QED BY <1>0, <1>1, <1>2, <2>1, <2>2, BookingsChanged DEF Booked
<1>4. ASSUME NEW d \in Calls PROVE LeftAlone(d)
      BY <1>0 DEF LeftAlone, SlotRows
<1>5. SlotRows' /\ locks' \in [Ids -> Calls \cup {Null}]
      BY <1>0 DEF WellFormed, SlotRows, Shaped, Revealable, Handlers
<1> QED BY <1>0, <1>3, <1>4, <1>5, Assemble DEF OnSlot

LEMMA DeletionKeeps == ASSUME WellFormed, NEW c \in Calls, DeleteSlot(c) \/ DeleteSeries(c) PROVE WellFormed'
<1> DEFINE t == tx[c]
           i == tx[c].slot
<1>0. /\ SlotRows /\ BookingRows /\ HandlerOK(c) /\ Local(t) /\ Local(NoTx)
      /\ UNCHANGED <<created, locks, history>> /\ locks \in [Ids -> Calls \cup {Null}]
      BY NoTxLocal DEF WellFormed, Handlers, DeleteSlot, DeleteSeries
<1>1. PICK next, u : next \in {"countSeries", "done"} /\ Goto(c, next, u) /\ Local(u)
      BY <1>0 DEF DeleteSlot, DeleteSeries, Answer
<1>2. CASE UNCHANGED <<slots, bookings>>
      BY <1>0, <1>1, <1>2, QuietStep DEF OnSlot
<1>3. CASE DeleteSlot(c) /\ Exists(i)
  <2>1. i \in Ids /\ locks[i] = Null
        BY <1>0, <1>3 DEF HandlerOK, OnSlot, DeleteSlot
  <2>2. slots' = [slots EXCEPT ![i] = Null] /\ bookings' = Orphaned(i)
        BY <1>3 DEF DeleteSlot
  <2>3. /\ slots' = [k \in Ids |-> slots'[k]]
        /\ slots'[i] = Null /\ \A k \in Ids \ {i} : slots'[k] = slots[k]
        BY <1>0, <2>1, <2>2 DEF SlotRows
  <2>4. SlotRows'
        BY <1>0, <2>3 DEF SlotRows, Shaped, Revealable
  <2> DEFINE S == {b \in Bookings : bookings[b] # Null}
  <2>5. /\ bookings' = [b \in Bookings |-> bookings'[b]]
        /\ \A b \in Bookings \ S : bookings'[b] = bookings[b]
        BY <2>2 DEF Orphaned
  <2>6. ASSUME NEW b \in Bookings \cap S
        PROVE  /\ BookingShaped(bookings'[b])
               /\ bookings'[b].status = "CANCELLED" => b \in withdrawn'
               /\ bookings'[b].status \in {"PENDING", "CANCELLED"} => b \in restated'
    <3>1. PICK slot, attendance : bookings'[b] = [bookings[b] EXCEPT !.slot = slot, !.attendance = attendance]
          BY <2>2 DEF Orphaned
    <3>2. Booked(b)
          BY <1>0 DEF BookingRows
    <3> QED BY <1>0, <3>1, <3>2 DEF Booked, BookingShaped
  <2> HIDE DEF S
  <2>7. BookingRows'
        BY <1>0, <2>5, <2>6, BookingsChanged
  <2>8. ASSUME NEW d \in Calls PROVE LeftAlone(d)
    <3>1. d # Null
          BY SlotAdminAssumption
    <3> QED BY <1>0, <2>1, <2>3, <3>1 DEF LeftAlone, SlotRows
  <2> QED BY <1>0, <1>1, <2>4, <2>7, <2>8, Assemble DEF OnSlot
<1>4. CASE DeleteSeries(c)
  <2>1. /\ slots' = [k \in Ids |-> slots'[k]] /\ UNCHANGED bookings
        /\ \A k \in Ids : \/ slots'[k] = slots[k]
                          \/ Exists(k) /\ slots'[k] = [slots[k] EXCEPT !.inSeries = FALSE]
        BY <1>4 DEF DeleteSeries, SeriesSlots
  <2>2. ASSUME NEW k \in Ids, slots[k] # Null
        PROVE  Shaped(slots[k])
        BY <1>0, <2>2 DEF SlotRows
  <2>3. ASSUME NEW k \in Ids, slots'[k] # Null
        PROVE  /\ slots[k] # Null /\ Shaped(slots'[k]) /\ slots'[k].revealed = slots[k].revealed
               /\ slots'[k].coach = slots[k].coach
    <3>1. CASE slots'[k] = slots[k]
          BY <2>2, <2>3, <3>1
    <3>2. CASE Exists(k) /\ slots'[k] = [slots[k] EXCEPT !.inSeries = FALSE]
          BY <2>2, <3>2 DEF Shaped, Exists
    <3> QED BY <2>1, <3>1, <3>2
  <2>4. SlotRows'
        BY <1>0, <2>1, <2>3 DEF SlotRows, Shaped, Revealable
  <2>5. BookingRows'
        BY <1>0, <2>1 DEF BookingRows, Booked, BookingShaped
  <2>6. ASSUME NEW d \in Calls PROVE LeftAlone(d)
        BY <1>0, <2>1, <2>3 DEF LeftAlone, SlotRows
  <2> QED BY <1>0, <1>1, <2>4, <2>5, <2>6, Assemble DEF OnSlot
<1> QED BY <1>2, <1>3, <1>4 DEF DeleteSlot

\* cancelEventScheduleSlot, revealCoachForSlot and upsertSessionLog write the row of the slot and
\* its bookings in one transaction.
LEMMA SlotTransaction ==
    ASSUME WellFormed, NEW c \in Calls, Goto(c, "done", NoTx), UNCHANGED <<created, locks, reassigned>>,
           NEW i \in Ids, Exists(i), NEW n, slots' = [slots EXCEPT ![i] = n],
           Shaped(n), Revealable(n, i \in reassigned), slots[i].revealed => n.revealed,
           locks[i] = Null \/ n.coach = slots[i].coach,
           BookingRows', restated \subseteq restated'
    PROVE  WellFormed'
<1>0. SlotRows /\ locks' \in [Ids -> Calls \cup {Null}] /\ Local(NoTx)
      BY NoTxLocal DEF WellFormed, Handlers
<1>1. SlotRows' /\ slots'[i] = n /\ \A k \in Ids \ {i} : slots'[k] = slots[k]
      BY <1>0, SlotChanged
<1>2. ASSUME NEW d \in Calls PROVE LeftAlone(d)
  <2>1. d # Null
        BY SlotAdminAssumption
  <2> QED BY <1>0, <1>1, <2>1 DEF LeftAlone, SlotRows, Exists
<1> QED BY <1>0, <1>1, <1>2, Assemble DEF OnSlot

LEMMA CancellationKeeps == ASSUME WellFormed, NEW c \in Calls, CancelSlot(c) PROVE WellFormed'
<1> DEFINE i == tx[c].slot
           n == [slots[i] EXCEPT !.cancelled = TRUE, !.active = FALSE]
           S == {b \in Seated(i) : bookings[b].status \in {"PENDING", "CONFIRMED"}}
<1>0. /\ SlotRows /\ BookingRows /\ HandlerOK(c) /\ Local(NoTx)
      /\ UNCHANGED <<created, locks, reassigned>> /\ Goto(c, "done", NoTx) /\ locks[i] = Null
      BY NoTxLocal DEF WellFormed, CancelSlot, Answer
<1>1. i \in Ids
      BY <1>0 DEF HandlerOK, OnSlot, CancelSlot
<1>2. CASE ~Exists(i)
  <2>1. UNCHANGED <<slots, bookings, withdrawn, restated>>
        BY <1>2 DEF CancelSlot
  <2> QED BY <1>0, <2>1, QuietStep DEF OnSlot
<1>3. CASE Exists(i)
  <2>1. /\ slots' = [slots EXCEPT ![i] = n]
        /\ withdrawn' = withdrawn \cup S /\ restated' = restated \cup S
        /\ bookings' = [b \in Bookings |-> IF b \in S THEN [bookings[b] EXCEPT !.status = "CANCELLED"]
                                         ELSE bookings[b]]
        BY <1>3 DEF CancelSlot
  <2>2. Shaped(slots[i]) /\ Revealable(slots[i], i \in reassigned)
        BY <1>0, <1>1, <1>3 DEF SlotRows, Exists
  <2>3. /\ Shaped(n) /\ n.revealed = slots[i].revealed /\ n.coach = slots[i].coach
        BY <2>2 DEF Shaped
  <2>4. ASSUME NEW b \in Bookings \cap S
        PROVE  BookingShaped(bookings'[b]) /\ b \in withdrawn' /\ b \in restated'
    <3>1. BookingShaped(bookings[b])
          BY <1>0, SeatedRows DEF Booked
    <3> QED BY <2>1, <3>1 DEF BookingShaped
  <2>5. /\ bookings' = [b \in Bookings |-> bookings'[b]]
        /\ \A b \in Bookings \ S : bookings'[b] = bookings[b]
        BY <2>1
  <2> HIDE DEF n, S
  <2>6. BookingRows'
        BY <1>0, <2>1, <2>4, <2>5, BookingsChanged
  <2>7. Revealable(n, i \in reassigned)
        BY <2>2, <2>3 DEF Revealable
  <2> QED BY <1>0, <1>1, <1>3, <2>1, <2>3, <2>6, <2>7, SlotTransaction
<1> QED BY <1>2, <1>3

\* Seated bookings of a slot get its coach.
LEMMA RevealedRows ==
    ASSUME BookingRows, NEW i, NEW coach, bookings' = Revealed(i, coach), UNCHANGED history
    PROVE  /\ BookingRows'
           /\ \A b \in Seated(i) : bookings'[b].coach = coach
           /\ \A b \in Bookings \ Seated(i) : bookings'[b] = bookings[b]
           /\ \A b \in Bookings : bookings[b] # Null =>
                /\ bookings'[b].status = bookings[b].status
                /\ bookings'[b].slot = bookings[b].slot
                /\ bookings'[b].attendance = bookings[b].attendance
<1>1. /\ bookings' = [b \in Bookings |-> bookings'[b]]
      /\ \A b \in Bookings \ Seated(i) : bookings'[b] = bookings[b]
      BY DEF Revealed
<1>2. ASSUME NEW b \in Bookings \cap Seated(i)
      PROVE  /\ BookingShaped(bookings'[b]) /\ bookings'[b].coach = coach
             /\ bookings'[b].status = bookings[b].status
             /\ bookings'[b].slot = bookings[b].slot
             /\ bookings'[b].attendance = bookings[b].attendance
  <2>1. bookings'[b] = [bookings[b] EXCEPT !.coach = coach]
        BY DEF Revealed
  <2>2. BookingShaped(bookings[b])
        BY SeatedRows DEF Booked
  <2> QED BY <2>1, <2>2 DEF BookingShaped
<1>3. \A b \in Seated(i) : b \in Bookings
      BY DEF Seated
<1>4. BookingRows'
  <2>1. \A b \in Seated(i) : Booked(b)
        BY SeatedRows
  <2>2. PICK S : S = Seated(i)
        OBVIOUS
  <2> QED BY <1>1, <1>2, <2>1, <2>2, BookingsChanged DEF Booked
<1> QED BY <1>1, <1>2, <1>3, <1>4

LEMMA RevealKeeps == ASSUME WellFormed, NEW c \in Calls, RevealCoach(c) PROVE WellFormed'
<1> DEFINE i == tx[c].slot
           n == [slots[i] EXCEPT !.coach = tx[c].coach, !.revealed = TRUE]
<1>0. /\ SlotRows /\ BookingRows /\ HandlerOK(c) /\ Local(NoTx)
      /\ UNCHANGED <<created, locks, history>> /\ Goto(c, "done", NoTx) /\ locks[i] = Null
      BY NoTxLocal DEF WellFormed, RevealCoach, Answer
<1>1. i \in Ids /\ tx[c].coach # Null /\ Deferred
      BY <1>0 DEF HandlerOK, OnSlot, RevealCoach
<1>2. CASE ~Exists(i)
  <2>1. UNCHANGED <<slots, bookings>>
        BY <1>2 DEF RevealCoach
  <2> QED BY <1>0, <2>1, QuietStep DEF OnSlot
<1>3. CASE Exists(i)
  <2>1. slots' = [slots EXCEPT ![i] = n] /\ bookings' = Revealed(i, tx[c].coach)
        BY <1>3 DEF RevealCoach
  <2>2. Shaped(slots[i])
        BY <1>0, <1>1, <1>3 DEF SlotRows, Exists
  <2>3. Shaped(n) /\ n.revealed = TRUE /\ n.coach = tx[c].coach
        BY <2>2 DEF Shaped
  <2> HIDE DEF n
  <2>4. BookingRows'
        BY <1>0, <2>1, RevealedRows
  <2>5. Revealable(n, i \in reassigned)
        BY <1>1, <2>3 DEF Revealable
  <2> QED BY <1>0, <1>1, <1>3, <2>1, <2>3, <2>4, <2>5, SlotTransaction
<1> QED BY <1>2, <1>3

\* Attendance is recorded for the bookings noted, and decides the status of those that could be
\* completed.
Recorded(t) == {b \in t.noted : bookings[b] # Null}

LEMMA AttendanceRows ==
    ASSUME WellFormed, NEW c \in Calls, LogSession(c), NEW t, t = tx[c],
           bookings' = [b \in Bookings |-> IF b \in t.noted /\ bookings[b] # Null
                                           THEN Attended(b, t) ELSE bookings[b]]
    PROVE  /\ BookingRows'
           /\ \A b \in Bookings \ Recorded(t) : bookings'[b] = bookings[b]
           /\ \A b \in Recorded(t) :
                /\ b \in Bookings
                /\ bookings'[b].coach = bookings[b].coach
                /\ bookings'[b].slot = bookings[b].slot
                /\ b \notin restated =>
                     bookings'[b].status = IF bookings'[b].attendance.attended THEN "COMPLETED" ELSE "NO_SHOW"
<1>0. BookingRows /\ HandlerOK(c) /\ pc[c] = "log" /\ UNCHANGED history
      BY DEF WellFormed, LogSession
<1>1. \A b \in Recorded(t) : /\ b \in Bookings /\ Booked(b)
                             /\ b \notin t.open => b \in restated
      BY <1>0 DEF HandlerOK, BookingRows, Recorded
<1>2. /\ bookings' = [b \in Bookings |-> bookings'[b]]
      /\ \A b \in Bookings \ Recorded(t) : bookings'[b] = bookings[b]
      BY DEF Recorded
<1>3. ASSUME NEW b \in Recorded(t)
      PROVE  /\ BookingShaped(bookings'[b])
             /\ bookings'[b].coach = bookings[b].coach /\ bookings'[b].slot = bookings[b].slot
             /\ bookings'[b].attendance.attended = (b \in t.present)
             /\ bookings'[b].status = IF b \notin t.open THEN bookings[b].status
                                      ELSE IF b \in t.present THEN "COMPLETED" ELSE "NO_SHOW"
  <2>1. bookings'[b] = Attended(b, t) /\ BookingShaped(bookings[b])
        BY <1>1 DEF Booked, Recorded
  <2> DEFINE status == IF b \notin t.open THEN bookings[b].status
                       ELSE IF b \in t.present THEN "COMPLETED" ELSE "NO_SHOW"
             row == [log |-> IF bookings[b].attendance = Null THEN t.slot ELSE bookings[b].attendance.log,
                     attended |-> b \in t.present]
  <2>2. bookings'[b] = [bookings[b] EXCEPT !.attendance = row, !.status = status]
        BY <2>1 DEF Attended
  <2>3. row.attended = (b \in t.present)
        OBVIOUS
  <2> HIDE DEF status, row
  <2>4. /\ BookingShaped(bookings'[b])
        /\ bookings'[b].coach = bookings[b].coach /\ bookings'[b].slot = bookings[b].slot
        /\ bookings'[b].attendance = row /\ bookings'[b].status = status
        BY <2>1, <2>2 DEF BookingShaped
  <2>5. bookings'[b].attendance.attended = (b \in t.present)
        BY <2>3, <2>4, Zenon
  <2> QED BY <2>4, <2>5 DEF status
<1>4. BookingRows'
  <2>1. ASSUME NEW b \in Bookings \cap Recorded(t)
        PROVE  /\ bookings'[b].status = "CANCELLED" => b \in withdrawn'
               /\ bookings'[b].status \in {"PENDING", "CANCELLED"} => b \in restated'
    <3>1. CASE b \in t.open
          BY <1>3, <3>1
    <3>2. CASE b \notin t.open
          BY <1>0, <1>1, <1>3, <3>2 DEF Booked
    <3> QED BY <3>1, <3>2
  <2>2. PICK S : S = Recorded(t)
        OBVIOUS
  <2> QED BY <1>0, <1>2, <1>3, <2>1, <2>2, BookingsChanged
<1> QED BY <1>1, <1>2, <1>3, <1>4

LEMMA LogKeeps == ASSUME WellFormed, NEW c \in Calls, LogSession(c) PROVE WellFormed'
<1> DEFINE t == tx[c]
           i == tx[c].slot
           n == [slots[i] EXCEPT !.logged = TRUE, !.coach = Given(t.coach, slots[i].coach)]
<1>0. /\ SlotRows /\ BookingRows /\ HandlerOK(c) /\ Local(NoTx) /\ pc[c] = "log"
      /\ UNCHANGED <<created, locks, history>> /\ Goto(c, "done", NoTx)
      BY NoTxLocal DEF WellFormed, LogSession, Answer
<1>1. i \in Ids
      BY <1>0 DEF HandlerOK, OnSlot
<1>2. CASE ~Exists(i)
  <2>1. UNCHANGED <<slots, bookings>>
        BY <1>2 DEF LogSession
  <2> QED BY <1>0, <2>1, QuietStep DEF OnSlot
<1>3. CASE Exists(i)
  <2>1. /\ slots' = [slots EXCEPT ![i] = n]
        /\ bookings' = IF t.coach # Null THEN Revealed(i, t.coach)
                       ELSE [b \in Bookings |-> IF b \in t.noted /\ bookings[b] # Null
                                                THEN Attended(b, t) ELSE bookings[b]]
        BY <1>3 DEF LogSession
  <2>6. locks[i] = Null \/ t.coach = Null
        BY DEF LogSession
  <2>2. Shaped(slots[i]) /\ Revealable(slots[i], i \in reassigned)
        BY <1>0, <1>1, <1>3 DEF SlotRows, Exists
  <2>3. /\ Shaped(n) /\ n.revealed = slots[i].revealed
        /\ n.coach = Given(t.coach, slots[i].coach)
        BY <2>2 DEF Shaped
  <2> HIDE DEF n
  <2>4. BookingRows'
    <3>1. CASE t.coach # Null
          BY <1>0, <2>1, <3>1, RevealedRows
    <3>2. CASE t.coach = Null
      <4>1. PICK u : u = t
            OBVIOUS
      <4>2. bookings' = [b \in Bookings |-> IF b \in u.noted /\ bookings[b] # Null
                                            THEN Attended(b, u) ELSE bookings[b]]
            BY <2>1, <3>2, <4>1
      <4> QED BY <4>1, <4>2, AttendanceRows
    <3> QED BY <3>1, <3>2
  <2>5. /\ Revealable(n, i \in reassigned)
        /\ locks[i] = Null \/ n.coach = slots[i].coach
        BY <2>2, <2>3, <2>6 DEF Given, Revealable
  <2> QED BY <1>0, <1>1, <1>3, <2>1, <2>3, <2>4, <2>5, SlotTransaction
<1> QED BY <1>2, <1>3

-----------------------------------------------------------------------------
(* Bookings are made, and handlers stop *)

LEMMA SeatKeeps == ASSUME WellFormed, NEW c \in Calls, TakeSeat(c) PROVE WellFormed'
<1> DEFINE t == tx[c]
           i == tx[c].slot
<1>0. /\ SlotRows /\ BookingRows /\ HandlerOK(c) /\ Local(t) /\ pc[c] = "seat"
      /\ UNCHANGED <<slots, created, bookings, history>> /\ locks[i] = Null
      /\ locks \in [Ids -> Calls \cup {Null}]
      BY DEF WellFormed, Handlers, TakeSeat, slotVars
<1>1. i \in Ids /\ i <= created /\ t.booking \in Bookings
      BY <1>0 DEF HandlerOK, OnSlot
<1>2. CASE Answer(c) /\ UNCHANGED locks
      BY <1>0, <1>2, NoTxLocal, QuietStep DEF OnSlot, Answer
<1>3. CASE ~(Answer(c) /\ UNCHANGED locks)
  <2>1. PICK coach : /\ slots[i].coach # Null => coach = slots[i].coach
                     /\ Goto(c, "book", [t EXCEPT !.coach = coach])
                     /\ locks' = [locks EXCEPT ![i] = c]
        BY <1>3 DEF TakeSeat
  <2> DEFINE u == [t EXCEPT !.coach = coach]
  <2>2. Local(u) /\ u.coach = coach /\ u.slot = i /\ u.booking = t.booking
        BY <1>0 DEF Local
  <2>3. pc'[c] = "book" /\ tx'[c] = u
        BY <2>1 DEF Goto, WellFormed, Handlers
  <2> HIDE DEF u
  <2>4. /\ locks' \in [Ids -> Calls \cup {Null}] /\ locks'[i] = c
        /\ \A k \in Ids \ {i} : locks'[k] = locks[k]
        BY <1>0, <1>1, <2>1
  <2>5. HandlerOK(c)'
        BY <1>0, <1>1, <2>1, <2>2, <2>3, <2>4 DEF HandlerOK, OnSlot
  <2>6. SlotRows' /\ BookingRows'
        BY <1>0 DEF SlotRows, Shaped, Revealable, BookingRows, Booked, BookingShaped
  <2>7. ASSUME NEW d \in Calls \ {c} PROVE LeftAlone(d)
    <3>1. d # Null
          BY SlotAdminAssumption
    <3> QED BY <1>0, <2>4, <3>1 DEF LeftAlone, SlotRows
  <2> QED BY <2>1, <2>2, <2>4, <2>5, <2>6, <2>7, Assemble DEF u
<1> QED BY <1>2, <1>3

LEMMA BookingKeeps == ASSUME WellFormed, NEW c \in Calls, BookSeat(c) PROVE WellFormed'
<1> DEFINE t == tx[c]
           i == tx[c].slot
           n == [status |-> "CONFIRMED", slot |-> t.slot, start |-> t.start,
                 coach |-> t.coach,
                 attendance |-> IF bookings[t.booking] = Null THEN Null ELSE bookings[t.booking].attendance]
<1>0. /\ SlotRows /\ BookingRows /\ HandlerOK(c) /\ Local(NoTx) /\ pc[c] = "book"
      /\ UNCHANGED <<slots, created, reassigned>> /\ Goto(c, "done", NoTx)
      /\ locks \in [Ids -> Calls \cup {Null}]
      BY NoTxLocal DEF WellFormed, Handlers, BookSeat, slotVars, Answer
<1>1. i \in Ids /\ t.booking \in Bookings /\ locks[i] = c
      BY <1>0 DEF HandlerOK, OnSlot
<1>2. /\ bookings' = [bookings EXCEPT ![t.booking] = n] /\ locks' = [locks EXCEPT ![i] = Null]
      /\ withdrawn' = withdrawn \ {t.booking} /\ restated \subseteq restated'
      BY DEF BookSeat
<1>3. BookingShaped(n) /\ n.status = "CONFIRMED"
      BY DEF BookingShaped
<1> HIDE DEF n
<1>4. /\ bookings' = [b \in Bookings |-> bookings'[b]]
      /\ bookings'[t.booking] = n /\ \A b \in Bookings \ {t.booking} : bookings'[b] = bookings[b]
      BY <1>0, <1>1, <1>2 DEF BookingRows
<1>5. BookingRows'
  <2>1. PICK S : S = {t.booking}
        OBVIOUS
  <2>2. /\ withdrawn \ S \subseteq withdrawn' /\ restated \subseteq restated'
        /\ \A b \in Bookings \ S : bookings'[b] = bookings[b]
        BY <1>2, <1>4, <2>1
  <2>3. \A b \in Bookings \cap S : BookingShaped(bookings'[b]) /\ bookings'[b].status = "CONFIRMED"
        BY <1>3, <1>4, <2>1
  <2> QED BY <1>0, <1>4, <2>2, <2>3, BookingsChanged
<1>6. /\ locks' \in [Ids -> Calls \cup {Null}]
      /\ \A k \in Ids \ {i} : locks'[k] = locks[k]
      BY <1>0, <1>1, <1>2
<1>7. SlotRows'
      BY <1>0 DEF SlotRows, Shaped, Revealable
<1>8. ASSUME NEW d \in Calls \ {c} PROVE LeftAlone(d)
      BY <1>0, <1>1, <1>2, <1>6 DEF LeftAlone, SlotRows
<1> QED BY <1>0, <1>5, <1>6, <1>7, <1>8, Assemble DEF OnSlot

LEMMA GiveUpKeeps == ASSUME WellFormed, NEW c \in Calls, GiveUp(c) PROVE WellFormed'
<1>0. /\ SlotRows /\ BookingRows /\ Goto(c, "done", NoTx) /\ Local(NoTx)
      /\ UNCHANGED <<slots, created, bookings, history>>
      /\ locks \in [Ids -> Calls \cup {Null}]
      /\ locks' = [i \in Ids |-> IF locks[i] = c THEN Null ELSE locks[i]]
      BY NoTxLocal DEF WellFormed, Handlers, GiveUp, slotVars, Answer
<1>1. SlotRows' /\ BookingRows'
      BY <1>0 DEF SlotRows, Shaped, Revealable, BookingRows, Booked, BookingShaped
<1>2. locks' \in [Ids -> Calls \cup {Null}]
      BY <1>0
<1>3. ASSUME NEW d \in Calls \ {c} PROVE LeftAlone(d)
      BY <1>0 DEF LeftAlone, SlotRows
<1> QED BY <1>0, <1>1, <1>2, <1>3, Assemble DEF OnSlot

LEMMA StutterKeeps ==
    ASSUME WellFormed, UNCHANGED <<slots, created, bookings, locks, pc, tx, history>>
    PROVE  WellFormed'
<1>1. SlotRows'
      BY DEF WellFormed, SlotRows, Shaped, Revealable
<1>2. BookingRows'
      BY DEF WellFormed, BookingRows, Booked, BookingShaped
<1>3. ASSUME NEW c \in Calls PROVE HandlerOK(c)'
      BY DEF WellFormed, Handlers, HandlerOK, Exists
<1>4. Handlers'
      BY <1>3 DEF WellFormed, Handlers, Local
<1> QED BY <1>1, <1>2, <1>3, <1>4 DEF WellFormed

LEMMA StepKeeps == ASSUME WellFormed, [Next]_vars PROVE WellFormed'
<1>1. CASE UNCHANGED vars \/ Tick
      BY <1>1, StutterKeeps DEF vars, slotVars, Tick
<1>2. CASE \E c \in Calls : Receive(c) \/ Serve(c) \/ GiveUp(c)
      BY <1>2, ReceiveKeeps, InsertionsKeep, ReadsKeep, UpdateKeeps, CascadeKeeps, DeletionKeeps,
         CancellationKeeps, RevealKeeps, LogKeeps, SeatKeeps, BookingKeeps, GiveUpKeeps DEF Serve
<1> QED BY <1>1, <1>2 DEF Next

\* The inductive invariant: what the rows are, and what each handler may still rely on when it
\* writes, after the statements of any other handlers.
THEOREM WellFormedInvariant == Spec => []WellFormed
<1>1. WellFormed /\ [Next]_vars => WellFormed'
      BY StepKeeps
<1> QED BY InitWellFormed, <1>1, PTL DEF Spec

-----------------------------------------------------------------------------
(* Attendance and status *)

\* What one step may do to a booking, as far as attendance goes
AttendanceKept(b) ==
    \/ b \in restated'
    \/ bookings'[b] = Null \/ bookings'[b].attendance = Null
    \/ bookings[b] # Null /\ bookings'[b].attendance = bookings[b].attendance
                          /\ bookings'[b].status = bookings[b].status
    \/ bookings'[b].status = IF bookings'[b].attendance.attended THEN "COMPLETED" ELSE "NO_SHOW"

LEMMA RowWritten ==
    ASSUME SlotRows, NEW i \in Ids, NEW n, slots' = [slots EXCEPT ![i] = n]
    PROVE  slots'[i] = n /\ \A k \in Ids \ {i} : slots'[k] = slots[k]
BY DEF SlotRows

LEMMA SameBookings ==
    ASSUME UNCHANGED bookings, NEW b PROVE AttendanceKept(b)
BY DEF AttendanceKept

LEMMA AttendanceStep == ASSUME WellFormed, Next, NEW b \in Bookings PROVE AttendanceKept(b)
<1>0. SlotRows /\ BookingRows
      BY DEF WellFormed
<1>1. CASE UNCHANGED bookings
      BY <1>1, SameBookings
<1>2. ASSUME NEW c \in Calls, SetStatus(c) PROVE AttendanceKept(b)
  <2>1. PICK k, status : bookings' = [bookings EXCEPT ![k].status = status] /\ k \in restated'
        BY <1>2 DEF SetStatus, Asked
  <2>2. b # k => bookings'[b] = bookings[b]
        BY <1>0, <2>1 DEF BookingRows
  <2> QED BY <2>1, <2>2 DEF AttendanceKept
<1>3. ASSUME NEW c \in Calls, Cascade(c) PROVE AttendanceKept(b)
  <2>1. \/ bookings'[b] = bookings[b]
        \/ b \in Seated(tx[c].slot)
           /\ \E start, coach : bookings'[b] = [bookings[b] EXCEPT !.start = start, !.coach = coach]
        BY <1>3 DEF Cascade
  <2>2. CASE bookings'[b] = bookings[b]
        BY <2>2 DEF AttendanceKept
  <2>3. CASE b \in Seated(tx[c].slot) /\ bookings'[b] # bookings[b]
    <3>1. PICK start, coach : bookings'[b] = [bookings[b] EXCEPT !.start = start, !.coach = coach]
          BY <2>1, <2>3
    <3>2. BookingShaped(bookings[b]) /\ bookings[b] # Null
          BY <1>0, <2>3, SeatedRows DEF Booked
    <3> QED BY <3>1, <3>2 DEF AttendanceKept, BookingShaped
  <2> QED BY <2>1, <2>2, <2>3
<1>4. ASSUME NEW c \in Calls, DeleteSlot(c), bookings' # bookings PROVE AttendanceKept(b)
  <2>1. bookings' = Orphaned(tx[c].slot)
        BY <1>4 DEF DeleteSlot
  <2>2. CASE bookings'[b] = bookings[b]
        BY <2>2 DEF AttendanceKept
  <2>3. CASE bookings'[b] # bookings[b]
    <3>1. /\ bookings[b] # Null
          /\ \E slot, attendance :
               /\ attendance \in {Null, bookings[b].attendance}
               /\ bookings'[b] = [bookings[b] EXCEPT !.slot = slot, !.attendance = attendance]
          BY <2>1, <2>3 DEF Orphaned
    <3>2. BookingShaped(bookings[b])
          BY <1>0, <3>1 DEF BookingRows, Booked
    <3> QED BY <3>1, <3>2 DEF AttendanceKept, BookingShaped
  <2> QED BY <2>2, <2>3
<1>5. ASSUME NEW c \in Calls, CancelSlot(c), bookings' # bookings PROVE AttendanceKept(b)
      BY <1>5 DEF CancelSlot, AttendanceKept
<1>6. ASSUME NEW i, NEW coach, bookings' = Revealed(i, coach), UNCHANGED history PROVE AttendanceKept(b)
  <2>1. CASE bookings[b] # Null
        BY <1>0, <1>6, <2>1, RevealedRows DEF AttendanceKept
  <2>2. CASE bookings[b] = Null
        BY <1>6, <2>2 DEF Revealed, Seated, Counted, AttendanceKept
  <2> QED BY <2>1, <2>2
<1>7. ASSUME NEW c \in Calls, RevealCoach(c), bookings' # bookings PROVE AttendanceKept(b)
      BY <1>6, <1>7 DEF RevealCoach
<1>8. ASSUME NEW c \in Calls, LogSession(c), bookings' # bookings PROVE AttendanceKept(b)
  <2>0. UNCHANGED history
        BY <1>8 DEF LogSession
  <2>1. CASE tx[c].coach # Null
        BY <1>6, <1>8, <2>0, <2>1 DEF LogSession
  <2>2. CASE tx[c].coach = Null
    <3>1. PICK u : u = tx[c]
          OBVIOUS
    <3>2. bookings' = [x \in Bookings |-> IF x \in u.noted /\ bookings[x] # Null
                                          THEN Attended(x, u) ELSE bookings[x]]
          BY <1>8, <2>2, <3>1 DEF LogSession
    <3>3. CASE b \in Recorded(u)
          BY <1>8, <2>0, <3>1, <3>2, <3>3, AttendanceRows DEF AttendanceKept
    <3>4. CASE b \notin Recorded(u)
          BY <3>2, <3>4 DEF AttendanceKept, Recorded
    <3> QED BY <3>3, <3>4
  <2> QED BY <2>1, <2>2
<1>9. ASSUME NEW c \in Calls, BookSeat(c) PROVE AttendanceKept(b)
  <2> DEFINE k == tx[c].booking
  <2>1. PICK status, slot, start, coach :
          bookings' = [bookings EXCEPT ![k] =
                         [status |-> status, slot |-> slot, start |-> start, coach |-> coach,
                          attendance |-> IF bookings[k] = Null THEN Null ELSE bookings[k].attendance]]
        BY <1>9 DEF BookSeat
  <2>2. bookings[k] # Null => k \in restated'
        BY <1>9 DEF BookSeat
  <2>3. \/ b = k /\ (bookings[k] = Null => bookings'[b].attendance = Null)
        \/ bookings'[b] = bookings[b]
        BY <1>0, <2>1 DEF BookingRows
  <2> QED BY <2>2, <2>3 DEF AttendanceKept
<1>10. ASSUME NEW c \in Calls, Receive(c) \/ Serve(c) \/ GiveUp(c), bookings' # bookings
       PROVE  \/ SetStatus(c) \/ Cascade(c) \/ DeleteSlot(c) \/ CancelSlot(c) \/ RevealCoach(c)
              \/ LogSession(c) \/ BookSeat(c)
       BY <1>10 DEF Receive, Serve, GiveUp, CreateSlot, CreateSeries, ListSlots, StopSeries, ResumeSeries,
          SwitchSeries, ReadSlotToUpdate, CountBookings, ReadSlotToCancel, ReadSlotToReveal,
          ReadBookingsToLog, MatchSlot, InsertSlot, InsertSeries, ReadSeries, Deactivate, ReadAnchor,
          Replenish, UpdateSlot, CountSeries, DeleteSeries, TakeSeat
<1> QED BY <1>1, <1>2, <1>3, <1>4, <1>5, <1>7, <1>8, <1>9, <1>10 DEF Next, Tick

LEMMA HistoryGrows ==
    ASSUME [Next]_vars
    PROVE  /\ restated \subseteq restated' /\ reassigned \subseteq reassigned'
           /\ \A b \in withdrawn \ withdrawn' : \E c \in Calls : BookSeat(c) /\ tx[c].booking = b
<1>1. CASE UNCHANGED vars \/ Tick
      BY <1>1 DEF vars, Tick
<1>2. ASSUME NEW c \in Calls, UpdateSlot(c) \/ CancelSlot(c) \/ SetStatus(c)
      PROVE  restated \subseteq restated' /\ reassigned \subseteq reassigned' /\ withdrawn \subseteq withdrawn'
      BY <1>2 DEF UpdateSlot, CancelSlot, SetStatus
<1>3. ASSUME NEW c \in Calls, Receive(c) \/ GiveUp(c), ~SetStatus(c) PROVE UNCHANGED history
      BY <1>3 DEF Receive, GiveUp, CreateSlot, CreateSeries, ListSlots, StopSeries, ResumeSeries, SwitchSeries,
         ReadSlotToUpdate, CountBookings, ReadSlotToCancel, ReadSlotToReveal, ReadBookingsToLog, MatchSlot
<1>4. ASSUME NEW c \in Calls, Serve(c), ~UpdateSlot(c), ~CancelSlot(c), ~BookSeat(c)
      PROVE  UNCHANGED history
      BY <1>4 DEF Serve, InsertSlot, InsertSeries, ReadSeries, Deactivate, ReadAnchor, Replenish, Cascade,
         DeleteSlot, CountSeries, DeleteSeries, RevealCoach, LogSession, TakeSeat
<1>5. ASSUME NEW c \in Calls, BookSeat(c)
      PROVE  /\ restated \subseteq restated' /\ reassigned \subseteq reassigned'
             /\ withdrawn' = withdrawn \ {tx[c].booking}
      BY <1>5 DEF BookSeat
<1>6. CASE \E c \in Calls : BookSeat(c)
      BY <1>5, <1>6
<1>7. CASE ~\E c \in Calls : BookSeat(c)
      BY <1>1, <1>2, <1>3, <1>4, <1>7 DEF Next
<1> QED BY <1>6, <1>7

\* Attendance and status of a booking are the work of the same log (upsertSessionLog), whichever of
\* any number of concurrent logs, full or partial, comes last, unless a cancellation, a PATCH or a
\* reschedule has written the status.
THEOREM AttendanceSafety == Spec => []AttendanceMatchesStatus
<1>1. Init => AttendanceMatchesStatus
  <2> SUFFICES ASSUME Init, NEW b \in Bookings, bookings[b] # Null PROVE bookings[b].attendance = Null
      BY DEF AttendanceMatchesStatus
  <2> QED BY InitialAssumption DEF Init
<1>2. WellFormed /\ AttendanceMatchesStatus /\ [Next]_vars => AttendanceMatchesStatus'
  <2> SUFFICES ASSUME WellFormed, AttendanceMatchesStatus, [Next]_vars,
                      NEW b \in Bookings \ restated', bookings'[b] # Null, bookings'[b].attendance # Null
               PROVE  bookings'[b].status = IF bookings'[b].attendance.attended THEN "COMPLETED" ELSE "NO_SHOW"
      BY DEF AttendanceMatchesStatus
  <2>1. b \notin restated
        BY HistoryGrows
  <2>2. AttendanceKept(b)
    <3>1. CASE Next
          BY <3>1, AttendanceStep
    <3>2. CASE UNCHANGED vars
          BY <3>2, SameBookings DEF vars
    <3> QED BY <3>1, <3>2
  <2> QED BY <2>1, <2>2 DEF AttendanceKept, AttendanceMatchesStatus
<1> QED BY <1>1, <1>2, WellFormedInvariant, PTL DEF Spec

-----------------------------------------------------------------------------
(* The coach of a revealed slot *)

\* What one step may do to a slot that is revealed, and to a booking of it: the booking gets the
\* coach of the slot, or neither changes.
Led(i, b) ==
    Exists(i)' /\ slots'[i].revealed /\ (b \in Seated(i))' =>
        \/ bookings'[b].coach = slots'[i].coach
        \/ /\ Exists(i) /\ slots[i].revealed
           /\ slots'[i].coach = slots[i].coach
           /\ b \in Seated(i) \ withdrawn /\ bookings'[b].coach = bookings[b].coach

LEMMA SlotUntouched ==
    ASSUME NEW i \in Ids, NEW b \in Bookings \ withdrawn, UNCHANGED bookings,
           slots'[i] # Null =>
             /\ slots[i] # Null /\ slots'[i].revealed = slots[i].revealed
             /\ slots'[i].coach = slots[i].coach
    PROVE  Led(i, b)
BY DEF Led, Exists, Seated, Counted

\* A slot inserted is not revealed.
LEMMA InsertionLeads ==
    ASSUME WellFormed, NEW c \in Calls, InsertSlot(c) \/ InsertSeries(c) \/ Replenish(c),
           NEW i \in Ids, NEW b \in Bookings \ withdrawn
    PROVE  Led(i, b)
<1> DEFINE t == tx[c]
<1>0. UNCHANGED <<bookings, reassigned>> /\ SlotRows
      BY DEF WellFormed, InsertSlot, InsertSeries, Replenish
<1>1. CASE slots'[i] = slots[i]
      BY <1>0, <1>1, SlotUntouched
<1>2. CASE slots'[i] # slots[i]
  <2>1. PICK days, row : /\ Insert(days, row) /\ IsFiniteSet(days) /\ Shaped(row)
                         /\ row.revealed = FALSE
    <3>1. CASE InsertSlot(c)
      <4> DEFINE row == NewSlot(t.start, t.coach, t.capacity, FALSE)
      <4>1. Insert({t.start}, row)
            BY <1>2, <3>1 DEF InsertSlot
      <4>2. IsFiniteSet({t.start})
            BY FS_Singleton
      <4>3. Shaped(row) /\ row.revealed = FALSE
            BY DEF NewSlot, Shaped
      <4> HIDE DEF row
      <4> QED BY <4>1, <4>2, <4>3
    <3>2. CASE InsertSeries(c)
      <4> DEFINE row == NewSlot(0, t.coach, t.capacity, TRUE)
                 days == {Occurrence(t.start, frequency, 0, n) : n \in 0..Occurrences - 1}
      <4>1. Insert(days, row)
            BY <3>2 DEF InsertSeries
      <4>2. IsFiniteSet(days)
            BY SeriesDaysFinite
      <4>3. Shaped(row) /\ row.revealed = FALSE
            BY DEF NewSlot, Shaped
      <4> HIDE DEF row, days
      <4> QED BY <4>1, <4>2, <4>3
    <3>3. CASE Replenish(c)
      <4> DEFINE row == [NewSlot(0, t.coach, t.capacity, TRUE) EXCEPT !.active = t.active]
                 days == Upcoming(t.start, frequency, t.phase, t.until)
      <4>1. Insert(days, row)
            BY <1>2, <3>3 DEF Replenish
      <4>2. IsFiniteSet(days)
            BY UpcomingFinite
      <4>3. Shaped(row) /\ row.revealed = FALSE
            BY DEF NewSlot, Shaped
      <4> HIDE DEF row, days
      <4> QED BY <4>1, <4>2, <4>3
    <3> QED BY <3>1, <3>2, <3>3
  <2>2. /\ i <= created => slots'[i] = slots[i]
        /\ i > created => (slots'[i] # Null => slots'[i].revealed = FALSE)
        BY <1>0, <2>1, InsertKeepsRows
  <2>3. i \in Nat /\ created \in Nat
        BY <1>0, IdsAreNumbers DEF SlotRows
  <2> QED BY <1>2, <2>2, <2>3 DEF Led, Exists
<1> QED BY <1>1, <1>2

\* An update that changes the coach of a revealed slot reassigns it.
LEMMA UpdateLeads ==
    ASSUME WellFormed, NEW c \in Calls, UpdateSlot(c), NEW i \in Ids \ reassigned',
           NEW b \in Bookings \ withdrawn
    PROVE  Led(i, b)
<1> DEFINE t == tx[c]
           k == tx[c].slot
           n == Updated(slots[k], t)
<1>0. /\ SlotRows /\ HandlerOK(c) /\ pc[c] = "update" /\ UNCHANGED bookings
      BY DEF WellFormed, UpdateSlot
<1>1. k \in Ids
      BY <1>0 DEF HandlerOK, OnSlot
<1>2. CASE slots'[i] = slots[i]
      BY <1>0, <1>2, SlotUntouched
<1>3. CASE slots'[i] # slots[i]
  <2>1. /\ Exists(k) /\ slots' = [slots EXCEPT ![k] = n]
        /\ slots[k].revealed /\ slots[k].coach # slots'[k].coach => k \in reassigned'
        BY <1>3 DEF UpdateSlot
  <2>2. Shaped(slots[k])
        BY <1>0, <1>1, <2>1 DEF SlotRows, Exists
  <2>3. n.revealed = slots[k].revealed
        BY <2>2, UpdatedSlot
  <2> HIDE DEF n
  <2>4. slots'[k] = n /\ \A x \in Ids \ {k} : slots'[x] = slots[x]
        BY <1>0, <1>1, <2>1, RowWritten
  <2>5. i = k
        BY <1>3, <2>4
  <2> QED BY <1>0, <2>1, <2>3, <2>4, <2>5 DEF Led, Exists, Seated, Counted
<1> QED BY <1>2, <1>3

\* A coach is cascaded only if his slot has been reassigned, or coaches are not revealed.
LEMMA CascadeLeads ==
    ASSUME WellFormed, NEW c \in Calls, Cascade(c), NEW i \in Ids \ reassigned,
           NEW b \in Bookings \ withdrawn
    PROVE  Led(i, b)
<1> DEFINE t == tx[c]
<1>0. /\ SlotRows /\ BookingRows /\ HandlerOK(c) /\ pc[c] = "cascade" /\ UNCHANGED slots
      BY DEF WellFormed, Cascade, slotVars
<1>1. CASE bookings'[b] = bookings[b]
      BY <1>0, <1>1 DEF Led, Exists, Seated, Counted
<1>2. CASE bookings'[b] # bookings[b]
  <2>1. PICK start : /\ b \in Seated(t.slot)
                     /\ bookings'[b] = [bookings[b] EXCEPT !.start = start,
                                          !.coach = IF "coach" \in t.cascaded THEN t.coach ELSE @]
        BY <1>2 DEF Cascade
  <2>2. BookingShaped(bookings[b]) /\ bookings[b].slot = t.slot /\ Counted(b)
        BY <1>0, <2>1, SeatedRows DEF Booked, Seated
  <2>3. CASE "coach" \in t.cascaded
    <3>1. bookings'[b] = [bookings[b] EXCEPT !.start = start, !.coach = t.coach]
          BY <2>1, <2>3
    <3>2. bookings'[b].slot = t.slot
          BY <2>2, <3>1 DEF BookingShaped
    <3>3. slots[i] # Null /\ slots[i].revealed => Deferred
          BY <1>0 DEF SlotRows, Revealable
    <3> QED BY <1>0, <2>3, <3>2, <3>3 DEF HandlerOK, Led, Exists, Seated
  <2>4. CASE "coach" \notin t.cascaded
    <3>1. bookings'[b] = [bookings[b] EXCEPT !.start = start, !.coach = bookings[b].coach]
          BY <2>1, <2>4
    <3>2. bookings'[b].slot = bookings[b].slot /\ bookings'[b].coach = bookings[b].coach
          BY <2>2, <3>1 DEF BookingShaped
    <3> QED BY <1>0, <2>2, <3>2 DEF Led, Exists, Seated
  <2> QED BY <2>3, <2>4
<1> QED BY <1>1, <1>2

LEMMA DeletionLeads ==
    ASSUME WellFormed, NEW c \in Calls, DeleteSlot(c) \/ DeleteSeries(c), NEW i \in Ids,
           NEW b \in Bookings \ withdrawn
    PROVE  Led(i, b)
<1> DEFINE k == tx[c].slot
<1>0. /\ SlotRows /\ BookingRows /\ HandlerOK(c)
      /\ i # Null
      BY IdsAreNumbers DEF WellFormed
<1>1. CASE DeleteSlot(c) /\ Exists(k)
  <2>1. k \in Ids /\ slots' = [slots EXCEPT ![k] = Null] /\ bookings' = Orphaned(k)
        BY <1>0, <1>1 DEF HandlerOK, OnSlot, DeleteSlot
  <2>2. slots'[k] = Null /\ \A x \in Ids \ {k} : slots'[x] = slots[x]
        BY <1>0, <2>1 DEF SlotRows
  <2>3. CASE bookings'[b] = bookings[b]
        BY <2>2, <2>3 DEF Led, Exists, Seated, Counted
  <2>4. CASE bookings'[b] # bookings[b]
    <3>1. /\ bookings[b] # Null
          /\ \E slot, attendance :
               /\ slot \in {Null, bookings[b].slot} /\ (bookings[b].slot = k => slot = Null)
               /\ bookings'[b] = [bookings[b] EXCEPT !.slot = slot, !.attendance = attendance]
          BY <2>1, <2>4 DEF Orphaned
    <3>2. BookingShaped(bookings[b])
          BY <1>0, <3>1 DEF BookingRows, Booked
    <3>3. /\ bookings'[b].slot \in {Null, bookings[b].slot} /\ bookings'[b].slot # k
          /\ bookings'[b].coach = bookings[b].coach /\ bookings'[b].status = bookings[b].status
          BY <1>0, <2>1, <3>1, <3>2, IdsAreNumbers DEF BookingShaped
    <3> QED BY <1>0, <2>2, <3>1, <3>3 DEF Led, Exists, Seated, Counted
  <2> QED BY <2>3, <2>4
<1>2. CASE DeleteSlot(c) /\ ~Exists(k)
      BY <1>2, SlotUntouched DEF DeleteSlot
<1>3. CASE DeleteSeries(c)
  <2>1. UNCHANGED bookings
        BY <1>3 DEF DeleteSeries
  <2>2. \/ slots'[i] = slots[i]
        \/ slots[i] # Null /\ slots'[i] = [slots[i] EXCEPT !.inSeries = FALSE]
        BY <1>3 DEF DeleteSeries, SeriesSlots, Exists
  <2>3. CASE slots'[i] = slots[i]
        BY <2>1, <2>3, SlotUntouched
  <2>4. CASE slots[i] # Null /\ slots'[i] = [slots[i] EXCEPT !.inSeries = FALSE]
    <3>1. Shaped(slots[i])
          BY <1>0, <2>4 DEF SlotRows
    <3>2. /\ slots'[i].revealed = slots[i].revealed
          /\ slots'[i].coach = slots[i].coach
          BY <2>4, <3>1 DEF Shaped
    <3> QED BY <2>1, <2>4, <3>2, SlotUntouched
  <2> QED BY <2>2, <2>3, <2>4
<1> QED BY <1>1, <1>2, <1>3

\* A booking that loses its seat needs no coach, and one that is given another status keeps its own.
LEMMA CancellationLeads ==
    ASSUME WellFormed, NEW c \in Calls, CancelSlot(c), NEW i \in Ids, NEW b \in Bookings \ withdrawn'
    PROVE  Led(i, b)
<1> DEFINE k == tx[c].slot
<1>0. SlotRows /\ BookingRows /\ HandlerOK(c) /\ withdrawn \subseteq withdrawn'
      BY DEF WellFormed, CancelSlot
<1>1. bookings'[b] = bookings[b]
      BY DEF CancelSlot
<1>2. slots'[i] # Null =>
        /\ slots[i] # Null /\ slots'[i].revealed = slots[i].revealed
        /\ slots'[i].coach = slots[i].coach
  <2>1. CASE slots'[i] = slots[i]
        BY <2>1
  <2>2. CASE slots'[i] # slots[i]
    <3> DEFINE n == [slots[k] EXCEPT !.cancelled = TRUE, !.active = FALSE]
    <3>1. /\ Exists(k) /\ slots' = [slots EXCEPT ![k] = n] /\ pc[c] = "cancel"
          BY <2>2 DEF CancelSlot
    <3>2. k \in Ids
          BY <1>0, <3>1 DEF HandlerOK, OnSlot
    <3>3. Shaped(slots[k])
          BY <1>0, <3>1, <3>2 DEF SlotRows, Exists
    <3>4. n.revealed = slots[k].revealed /\ n.coach = slots[k].coach
          BY <3>3 DEF Shaped
    <3> HIDE DEF n
    <3>5. slots'[k] = n /\ i = k
          BY <1>0, <2>2, <3>1, <3>2, RowWritten
    <3> QED BY <3>1, <3>4, <3>5 DEF Exists
  <2> QED BY <2>1, <2>2
<1> QED BY <1>0, <1>1, <1>2 DEF Led, Exists, Seated, Counted

LEMMA StatusLeads ==
    ASSUME WellFormed, NEW c \in Calls, SetStatus(c), NEW i \in Ids, NEW b \in Bookings \ withdrawn'
    PROVE  Led(i, b)
<1>0. BookingRows /\ UNCHANGED slots /\ b \notin withdrawn
      BY DEF WellFormed, SetStatus, slotVars
<1>1. PICK k, status : /\ k \in Bookings /\ bookings[k] # Null
                       /\ bookings' = [bookings EXCEPT ![k].status = status]
      BY AskTypes DEF SetStatus, Asked
<1>2. CASE b # k
  <2>1. bookings'[b] = bookings[b]
        BY <1>0, <1>1, <1>2 DEF BookingRows
  <2> QED BY <1>0, <2>1 DEF Led, Exists, Seated, Counted
<1>3. CASE b = k
  <2>1. Booked(b)
        BY <1>0, <1>1, <1>3 DEF BookingRows
  <2>2. bookings'[b].coach = bookings[b].coach /\ bookings'[b].slot = bookings[b].slot
        BY <1>0, <1>1, <1>3, <2>1 DEF BookingRows, Booked, BookingShaped
  <2> QED BY <1>0, <1>1, <1>3, <2>1, <2>2 DEF Booked, Led, Exists, Seated, Counted
<1> QED BY <1>2, <1>3

\* All bookings of the slot get the coach that its row gets.
LEMMA RevealLeads ==
    ASSUME WellFormed, UNCHANGED history, NEW k \in Ids, NEW coach, NEW n,
           slots' = [slots EXCEPT ![k] = n], n.coach = coach, bookings' = Revealed(k, coach),
           NEW i \in Ids, NEW b \in Bookings \ withdrawn
    PROVE  Led(i, b)
<1>0. SlotRows /\ BookingRows
      BY DEF WellFormed
<1>1. slots'[k] = n /\ \A x \in Ids \ {k} : slots'[x] = slots[x]
      BY <1>0, RowWritten
<1>2. /\ \A x \in Seated(k) : bookings'[x].coach = coach
      /\ \A x \in Bookings \ Seated(k) : bookings'[x] = bookings[x]
      /\ bookings[b] # Null => bookings'[b].slot = bookings[b].slot
      BY <1>0, RevealedRows
<1>3. CASE b \in Seated(k)
      BY <1>1, <1>2, <1>3 DEF Led, Seated, Counted
<1>4. CASE b \notin Seated(k)
      BY <1>1, <1>2, <1>4 DEF Led, Seated, Counted, Exists
<1> QED BY <1>3, <1>4

LEMMA RevealCoachLeads ==
    ASSUME WellFormed, NEW c \in Calls, RevealCoach(c), NEW i \in Ids,
           NEW b \in Bookings \ withdrawn
    PROVE  Led(i, b)
<1> DEFINE k == tx[c].slot
           n == [slots[k] EXCEPT !.coach = tx[c].coach, !.revealed = TRUE]
<1>0. SlotRows /\ HandlerOK(c) /\ pc[c] = "reveal" /\ UNCHANGED history
      BY DEF WellFormed, RevealCoach
<1>1. k \in Ids
      BY <1>0 DEF HandlerOK, OnSlot
<1>2. CASE ~Exists(k)
      BY <1>2, SlotUntouched DEF RevealCoach
<1>3. CASE Exists(k)
  <2>1. slots' = [slots EXCEPT ![k] = n] /\ bookings' = Revealed(k, tx[c].coach)
        BY <1>3 DEF RevealCoach
  <2>2. Shaped(slots[k])
        BY <1>0, <1>1, <1>3 DEF SlotRows, Exists
  <2>3. n.coach = tx[c].coach
        BY <2>2 DEF Shaped
  <2> HIDE DEF n
  <2> QED BY <1>0, <1>1, <2>1, <2>3, RevealLeads
<1> QED BY <1>2, <1>3

LEMMA LogLeads ==
    ASSUME WellFormed, NEW c \in Calls, LogSession(c), NEW i \in Ids, NEW b \in Bookings \ withdrawn
    PROVE  Led(i, b)
<1> DEFINE t == tx[c]
           k == tx[c].slot
           n == [slots[k] EXCEPT !.logged = TRUE, !.coach = Given(t.coach, slots[k].coach)]
<1>0. SlotRows /\ BookingRows /\ HandlerOK(c) /\ pc[c] = "log" /\ UNCHANGED history
      BY DEF WellFormed, LogSession
<1>1. k \in Ids
      BY <1>0 DEF HandlerOK, OnSlot
<1>2. CASE ~Exists(k)
      BY <1>2, SlotUntouched DEF LogSession
<1>3. CASE Exists(k)
  <2>1. /\ slots' = [slots EXCEPT ![k] = n]
        /\ bookings' = IF t.coach # Null THEN Revealed(k, t.coach)
                       ELSE [x \in Bookings |-> IF x \in t.noted /\ bookings[x] # Null
                                                THEN Attended(x, t) ELSE bookings[x]]
        BY <1>3 DEF LogSession
  <2>2. Shaped(slots[k])
        BY <1>0, <1>1, <1>3 DEF SlotRows, Exists
  <2>3. /\ n.coach = Given(t.coach, slots[k].coach) /\ n.revealed = slots[k].revealed
        BY <2>2 DEF Shaped
  <2> HIDE DEF n
  <2>4. CASE t.coach # Null
        BY <1>0, <1>1, <2>1, <2>3, <2>4, RevealLeads DEF Given
  <2>5. CASE t.coach = Null
    <3>1. slots'[k] = n /\ \A x \in Ids \ {k} : slots'[x] = slots[x]
          BY <1>0, <1>1, <2>1, RowWritten
    <3>2. n.coach = slots[k].coach
          BY <2>3, <2>5 DEF Given
    <3>3. slots'[i] # Null =>
            /\ slots[i] # Null /\ slots'[i].revealed = slots[i].revealed
            /\ slots'[i].coach = slots[i].coach
          BY <1>3, <2>3, <3>1, <3>2 DEF Exists
    <3>4. PICK u : u = t
          OBVIOUS
    <3>5. bookings' = [x \in Bookings |-> IF x \in u.noted /\ bookings[x] # Null
                                          THEN Attended(x, u) ELSE bookings[x]]
          BY <2>1, <2>5, <3>4
    <3>6. CASE b \notin Recorded(u)
          BY <3>3, <3>5, <3>6 DEF Recorded, Led, Exists, Seated, Counted
    <3>7. CASE b \in Recorded(u)
      <4>1. bookings'[b].coach = bookings[b].coach /\ bookings'[b].slot = bookings[b].slot
            BY <1>0, <3>4, <3>5, <3>7, AttendanceRows
      <4>2. Booked(b) /\ bookings[b].status # "CANCELLED"
            BY <1>0, <3>4, <3>7 DEF BookingRows, Booked, Recorded
      <4>3. bookings[b] # Null
            BY <3>7 DEF Recorded
      <4> QED BY <3>3, <4>1, <4>2, <4>3 DEF Led, Exists, Seated, Counted
    <3> QED BY <3>6, <3>7
  <2> QED BY <2>4, <2>5
<1> QED BY <1>2, <1>3

\* The lock that a booking transaction holds keeps the coach of its slot.
LEMMA BookingLeads ==
    ASSUME WellFormed, NEW c \in Calls, BookSeat(c), NEW i \in Ids \ reassigned,
           NEW b \in Bookings \ withdrawn'
    PROVE  Led(i, b)
<1> DEFINE t == tx[c]
           n == [status |-> "CONFIRMED", slot |-> t.slot, start |-> t.start,
                 coach |-> t.coach,
                 attendance |-> IF bookings[t.booking] = Null THEN Null ELSE bookings[t.booking].attendance]
<1>0. /\ SlotRows /\ BookingRows /\ HandlerOK(c) /\ pc[c] = "book" /\ UNCHANGED slots
      /\ bookings' = [bookings EXCEPT ![t.booking] = n] /\ withdrawn' = withdrawn \ {t.booking}
      BY DEF WellFormed, BookSeat, slotVars
<1>1. t.booking \in Bookings
      BY <1>0 DEF HandlerOK
<1>2. CASE b # t.booking
  <2>1. bookings'[b] = bookings[b]
        BY <1>0, <1>2 DEF BookingRows
  <2> QED BY <1>0, <1>2, <2>1 DEF Led, Exists, Seated, Counted
<1>3. CASE b = t.booking
  <2>1. bookings'[b].slot = t.slot /\ bookings'[b].coach = t.coach
        BY <1>0, <1>1, <1>3 DEF BookingRows
  <2>2. slots[i] # Null /\ slots[i].revealed => slots[i].coach # Null
        BY <1>0 DEF SlotRows, Revealable
  <2> QED BY <1>0, <2>1, <2>2 DEF Led, Exists, Seated, HandlerOK
<1> QED BY <1>2, <1>3

LEMMA RevealStep ==
    ASSUME WellFormed, Next, NEW i \in Ids \ reassigned', NEW b \in Bookings \ withdrawn'
    PROVE  Led(i, b)
<1>0. /\ i \notin reassigned
      /\ b \notin withdrawn \/ \E c \in Calls : BookSeat(c)
      BY HistoryGrows
<1>4. CASE \E c \in Calls : BookSeat(c)
      BY <1>0, <1>4, BookingLeads
<1>1. CASE UNCHANGED <<slots, bookings>> /\ ~\E c \in Calls : BookSeat(c)
      BY <1>0, <1>1, SlotUntouched
<1>2. ASSUME NEW c \in Calls, Receive(c) \/ Serve(c) \/ GiveUp(c), ~UNCHANGED <<slots, bookings>>
      PROVE  \/ InsertSlot(c) \/ InsertSeries(c) \/ Replenish(c) \/ UpdateSlot(c) \/ Cascade(c)
             \/ DeleteSlot(c) \/ DeleteSeries(c) \/ CancelSlot(c) \/ SetStatus(c)
             \/ RevealCoach(c) \/ LogSession(c) \/ BookSeat(c)
      BY <1>2 DEF Receive, Serve, GiveUp, CreateSlot, CreateSeries, ListSlots, StopSeries, ResumeSeries,
         SwitchSeries, ReadSlotToUpdate, CountBookings, ReadSlotToCancel, ReadSlotToReveal,
         ReadBookingsToLog, MatchSlot, ReadSeries, Deactivate, ReadAnchor, CountSeries, TakeSeat, slotVars
<1>3. ASSUME NEW c \in Calls, Receive(c) \/ Serve(c) \/ GiveUp(c), ~UNCHANGED <<slots, bookings>>,
             ~\E d \in Calls : BookSeat(d)
      PROVE  Led(i, b)
      BY <1>0, <1>2, <1>3, InsertionLeads, UpdateLeads, CascadeLeads, DeletionLeads,
         CancellationLeads, StatusLeads, RevealCoachLeads, LogLeads
<1> QED BY <1>1, <1>3, <1>4 DEF Next, Tick, slotVars

\* From its reveal on, a slot leads the bookings it has (revealCoachForSlot, upsertSessionLog,
\* createBooking, rescheduleBooking), whatever any number of requests do to it, until an update puts in
\* another coach or takes him away (updateEventScheduleSlot).
THEOREM RevealSafety == Spec => []RevealedCoachLeads
<1>1. Init => RevealedCoachLeads
  <2> SUFFICES ASSUME Init, NEW i \in Ids, slots[i] # Null PROVE ~slots[i].revealed
      BY DEF RevealedCoachLeads, Exists
  <2> QED BY InitialAssumption DEF Init
<1>2. WellFormed /\ RevealedCoachLeads /\ [Next]_vars => RevealedCoachLeads'
  <2> SUFFICES ASSUME WellFormed, RevealedCoachLeads, [Next]_vars,
                      NEW i \in Ids \ reassigned', Exists(i)', slots'[i].revealed,
                      NEW b \in Seated(i)', b \notin withdrawn'
               PROVE  bookings'[b].coach = slots'[i].coach
      BY DEF RevealedCoachLeads
  <2>1. i \notin reassigned /\ b \in Bookings
        BY HistoryGrows DEF Seated
  <2>2. Led(i, b)
    <3>1. CASE Next
          BY <2>1, <3>1, RevealStep
    <3>2. CASE UNCHANGED vars
          BY <2>1, <3>2, SlotUntouched DEF vars, slotVars
    <3> QED BY <3>1, <3>2
  <2> QED BY <2>1, <2>2 DEF Led, RevealedCoachLeads
<1> QED BY <1>1, <1>2, WellFormedInvariant, PTL DEF Spec

-----------------------------------------------------------------------------
(* The dates of a series *)

\* After every month there is another one.
EndlessCalendar == \A day \in Nat : \E m \in MonthStarts : day < m

LEMMA GreatestBelow ==
    ASSUME NEW T, T \subseteq Nat, T # {}, NEW day \in Nat, \A n \in T : n <= day
    PROVE  Max(T) \in T /\ \A n \in T : n <= Max(T)
<1> DEFINE D == {day - n : n \in T}
<1>1. D \subseteq Nat /\ D # {}
  <2>1. ASSUME NEW n \in T PROVE day - n \in Nat
        OBVIOUS
  <2>2. D \subseteq Nat
        BY <2>1
  <2> QED BY <2>2
<1> HIDE DEF D
<1>2. PICK d \in D : \A e \in D : d <= e
      BY <1>1, LeastNatural
<1>3. PICK n \in T : d = day - n
      BY DEF D
<1>4. \A m \in T : day - n <= day - m
      BY <1>2, <1>3 DEF D
<1>5. \A m \in T : n >= m
      BY <1>4
<1> QED BY <1>5 DEF Max

LEMMA LeastOf ==
    ASSUME NEW T, T \subseteq Nat, T # {}
    PROVE  Min(T) \in T /\ \A n \in T : Min(T) <= n
<1>1. \E x \in T : \A y \in T : x =< y
      BY LeastNatural
<1> QED BY <1>1 DEF Min

LEMMA LesserOf ==
    ASSUME NEW a \in Nat, NEW b \in Nat
    PROVE  /\ Min({a, b}) \in Nat /\ Min({a, b}) <= a /\ Min({a, b}) <= b
           /\ Min({a, b}) = IF a <= b THEN a ELSE b
<1>1. Min({a, b}) \in {a, b} /\ \A n \in {a, b} : Min({a, b}) <= n
      BY LeastOf
<1> QED BY <1>1

\* A day lies in one month, and another one follows.
LEMMA MonthBounds ==
    ASSUME EndlessCalendar, NEW day \in Nat
    PROVE  /\ MonthOf(day) \in MonthStarts /\ MonthOf(day) \in Nat /\ MonthOf(day) <= day
           /\ \A m \in MonthStarts : m <= day => m <= MonthOf(day)
           /\ MonthAfter(day) \in MonthStarts /\ MonthAfter(day) \in Nat /\ day < MonthAfter(day)
           /\ \A m \in MonthStarts : day < m => MonthAfter(day) <= m
<1> DEFINE past == {m \in MonthStarts : m <= day}
           next == {m \in MonthStarts : m > day}
<1>1. /\ MonthStarts \subseteq Nat /\ 0 \in past
      /\ past \subseteq Nat /\ next \subseteq Nat /\ next # {} /\ \A n \in past : n <= day
  <2>0. MonthStarts \subseteq Nat /\ 0 \in MonthStarts /\ 0 <= day
        BY RecurrenceAssumption
  <2>1. MonthStarts \subseteq Nat /\ 0 \in past /\ past \subseteq Nat /\ next \subseteq Nat
        BY <2>0
  <2>2. PICK m \in MonthStarts : day < m
        BY DEF EndlessCalendar
  <2>3. m \in next
        BY <2>1, <2>2
  <2> QED BY <2>1, <2>3
<1>2. /\ MonthOf(day) = Max(past) /\ MonthAfter(day) = Min(next)
      /\ \A m \in MonthStarts : m <= day => m \in past
      /\ \A m \in MonthStarts : day < m => m \in next
      /\ \A m \in past : m \in MonthStarts /\ m <= day
      /\ \A m \in next : m \in MonthStarts /\ day < m
      BY <1>1 DEF MonthOf, MonthAfter
<1> HIDE DEF past, next
<1>3. Max(past) \in past /\ \A n \in past : n <= Max(past)
      BY <1>1, GreatestBelow
<1>4. Min(next) \in next /\ \A n \in next : Min(next) <= n
      BY <1>1, LeastOf
<1> QED BY <1>1, <1>2, <1>3, <1>4

\* The next date is in the next month, and the last of that month at the latest.
LEMMA NextMonth ==
    ASSUME EndlessCalendar, NEW day \in Nat
    PROVE  LET next == MonthAfter(day)
           IN  /\ SameDayNextMonth(day) \in Nat
               /\ next <= SameDayNextMonth(day) /\ SameDayNextMonth(day) < MonthAfter(next)
               /\ SameDayNextMonth(day) - next
                    = IF day - MonthOf(day) <= MonthAfter(next) - 1 - next
                      THEN day - MonthOf(day) ELSE MonthAfter(next) - 1 - next
<1> DEFINE next == MonthAfter(day)
           after == MonthAfter(next)
           first == MonthOf(day)
<1>1. /\ first \in Nat /\ first <= day /\ next \in Nat /\ day < next
      /\ after \in Nat /\ next < after
      BY MonthBounds
<1>2. SameDayNextMonth(day) = Min({next + (day - first), after - 1})
      BY DEF SameDayNextMonth
<1> HIDE DEF next, after, first
<1>3. next + (day - first) \in Nat /\ after - 1 \in Nat
      BY <1>1
<1>4. /\ SameDayNextMonth(day) \in Nat
      /\ SameDayNextMonth(day) = IF next + (day - first) <= after - 1 THEN next + (day - first) ELSE after - 1
      BY <1>2, <1>3, LesserOf
<1>5. /\ next <= SameDayNextMonth(day) /\ SameDayNextMonth(day) < after
      /\ SameDayNextMonth(day) - next
           = IF day - first <= after - 1 - next THEN day - first ELSE after - 1 - next
      BY <1>1, <1>4
<1> QED BY <1>4, <1>5 DEF next, after, first

LEMMA AdvanceForward ==
    ASSUME EndlessCalendar, NEW day \in Nat, NEW f \in Frequencies, NEW index \in Nat
    PROVE  Advance(day, f, index) \in Nat /\ day < Advance(day, f, index)
<1>1. MonthAfter(day) \in Nat /\ day < MonthAfter(day)
      BY MonthBounds
<1>2. SameDayNextMonth(day) \in Nat /\ MonthAfter(day) <= SameDayNextMonth(day)
      BY NextMonth
<1>3. CASE f = "MONTHLY"
      BY <1>1, <1>2, <1>3 DEF Advance
<1>4. CASE f \in {"WEEKLY", "BI_WEEKLY", "TWICE_A_MONTH", "THRICE_A_WEEK"}
      BY <1>4 DEF Advance
<1> QED BY <1>3, <1>4 DEF Frequencies

\* f holds the first dates from start on.
IsDates(f, start, frq, phase, n) ==
    f = [i \in 0..n |-> IF i = 0 THEN start ELSE Advance(f[i - 1], frq, phase + i - 1)]

LEMMA DatesExist ==
    ASSUME NEW start, NEW frq, NEW phase
    PROVE  \A n \in Nat : \E f : IsDates(f, start, frq, phase, n)
<1> DEFINE S == {n \in Nat : \E f : IsDates(f, start, frq, phase, n)}
<1>1. 0 \in S
  <2> DEFINE f == [i \in 0..0 |-> start]
  <2>1. IsDates(f, start, frq, phase, 0)
        BY DEF IsDates
  <2> QED BY <2>1
<1>2. ASSUME NEW n \in Nat, n \in S PROVE n + 1 \in S
  <2>1. PICK f : IsDates(f, start, frq, phase, n)
        BY <1>2
  <2> DEFINE g == [i \in 0..n + 1 |-> IF i = n + 1 THEN Advance(f[n], frq, phase + n) ELSE f[i]]
  <2>2. ASSUME NEW i \in 0..n + 1
        PROVE  g[i] = IF i = 0 THEN start ELSE Advance(g[i - 1], frq, phase + i - 1)
    <3>1. CASE i = n + 1
      <4>1. phase + i - 1 = phase + n \/ phase \notin Int
            BY <3>1
      <4> QED BY <3>1
    <3>2. CASE i # n + 1
          BY <2>1, <3>2 DEF IsDates
    <3> QED BY <3>1, <3>2
  <2>3. g = [i \in 0..n + 1 |-> g[i]]
        OBVIOUS
  <2> HIDE DEF g
  <2>4. IsDates(g, start, frq, phase, n + 1)
        BY <2>2, <2>3 DEF IsDates
  <2> QED BY <2>4
<1> HIDE DEF S
<1>3. Nat \subseteq S
      BY <1>1, <1>2, NatSetInduction
<1> QED BY <1>3 DEF S

\* There is only one sequence of dates, however long it is made.
LEMMA DatesAgree ==
    ASSUME NEW start, NEW frq, NEW phase, NEW n \in Nat, NEW m \in Nat, NEW f, NEW g,
           IsDates(f, start, frq, phase, n), IsDates(g, start, frq, phase, m)
    PROVE  \A i \in Nat : i <= n /\ i <= m => f[i] = g[i]
<1> DEFINE S == {i \in Nat : i <= n /\ i <= m => f[i] = g[i]}
<1>1. 0 \in S
      BY DEF IsDates
<1>2. ASSUME NEW i \in Nat, i \in S PROVE i + 1 \in S
  <2>1. SUFFICES ASSUME i + 1 <= n, i + 1 <= m PROVE f[i + 1] = g[i + 1]
        OBVIOUS
  <2>2. f[i] = g[i]
        BY <1>2, <2>1
  <2>3. i + 1 \in 0..n /\ i + 1 \in 0..m /\ i + 1 # 0 /\ (i + 1) - 1 = i
        BY <2>1
  <2>4. /\ f[i + 1] = Advance(f[i], frq, phase + (i + 1) - 1)
        /\ g[i + 1] = Advance(g[i], frq, phase + (i + 1) - 1)
        BY <2>3 DEF IsDates
  <2> QED BY <2>2, <2>4
<1> HIDE DEF S
<1>3. Nat \subseteq S
      BY <1>1, <1>2, NatSetInduction
<1> QED BY <1>3 DEF S

\* What the recursive function of Occurrence computes, step by step
LEMMA OccurrenceSteps ==
    ASSUME NEW start, NEW frq, NEW phase \in Nat, NEW n \in Nat
    PROVE  /\ Occurrence(start, frq, phase, 0) = start
           /\ Occurrence(start, frq, phase, n + 1)
                = Advance(Occurrence(start, frq, phase, n), frq, phase + n)
<1> DEFINE dates(k) == CHOOSE g : IsDates(g, start, frq, phase, k)
<1>1. ASSUME NEW k \in Nat
      PROVE  IsDates(dates(k), start, frq, phase, k) /\ Occurrence(start, frq, phase, k) = dates(k)[k]
  <2>1. IsDates(dates(k), start, frq, phase, k)
        BY DatesExist
  <2>2. Occurrence(start, frq, phase, k) = dates(k)[k]
        BY DEF Occurrence, IsDates
  <2> QED BY <2>1, <2>2
<1> HIDE DEF dates
<1>2. dates(0)[0] = start
      BY <1>1 DEF IsDates
<1>3. n + 1 \in Nat /\ n + 1 # 0 /\ (n + 1) - 1 = n /\ phase + (n + 1) - 1 = phase + n /\ n <= n + 1
      OBVIOUS
<1>4. dates(n + 1)[n + 1] = Advance(dates(n + 1)[n], frq, phase + n)
  <2> DEFINE f == dates(n + 1)
  <2>1. f = [i \in 0..n + 1 |-> IF i = 0 THEN start ELSE Advance(f[i - 1], frq, phase + i - 1)]
        BY <1>1, <1>3 DEF IsDates
  <2> HIDE DEF f
  <2>2. f[n + 1] = Advance(f[(n + 1) - 1], frq, phase + (n + 1) - 1)
        BY <2>1, <1>3
  <2> QED BY <1>3, <2>2 DEF f
<1>5. dates(n + 1)[n] = dates(n)[n]
  <2>1. IsDates(dates(n + 1), start, frq, phase, n + 1) /\ IsDates(dates(n), start, frq, phase, n)
        BY <1>1, <1>3
  <2> QED BY <1>3, <2>1, DatesAgree
<1> QED BY <1>1, <1>2, <1>3, <1>4, <1>5

\* A series goes forward.
LEMMA DatesForward ==
    ASSUME EndlessCalendar, NEW start \in Nat, NEW frq \in Frequencies, NEW phase \in Nat
    PROVE  /\ \A n \in Nat : Occurrence(start, frq, phase, n) \in Nat
           /\ \A n \in Nat : \A m \in 0..n : Occurrence(start, frq, phase, m) <= Occurrence(start, frq, phase, n)
           /\ \A n \in Nat \ {0} : start < Occurrence(start, frq, phase, n)
<1> DEFINE date(n) == Occurrence(start, frq, phase, n)
           S == {n \in Nat : \A m \in 0..n : date(m) \in Nat /\ date(m) <= date(n)}
<1>1. date(0) = start /\ \A n \in Nat : date(n + 1) = Advance(date(n), frq, phase + n)
      BY OccurrenceSteps
<1>2. ASSUME NEW n \in Nat, date(n) \in Nat PROVE date(n + 1) \in Nat /\ date(n) < date(n + 1)
      BY <1>1, <1>2, AdvanceForward
<1> HIDE DEF date
<1>3. Nat \subseteq S
  <2>1. 0 \in S
        BY <1>1
  <2>2. ASSUME NEW n \in Nat, n \in S PROVE n + 1 \in S
    <3>1. date(n) \in Nat /\ date(n + 1) \in Nat /\ date(n) < date(n + 1)
          BY <1>2, <2>2
    <3>2. ASSUME NEW m \in 0..n + 1 PROVE date(m) \in Nat /\ date(m) <= date(n + 1)
      <4>1. CASE m = n + 1
            BY <3>1, <4>1
      <4>2. CASE m # n + 1
        <5>1. m \in 0..n /\ m \in Nat
              BY <4>2
        <5>2. date(m) <= date(n) /\ date(m) \in Nat
              BY <2>2, <5>1
        <5> QED BY <3>1, <5>2
      <4> QED BY <4>1, <4>2
    <3> QED BY <3>1, <3>2
  <2> HIDE DEF S
  <2> QED BY <2>1, <2>2, NatSetInduction
<1>4. \A n \in Nat : date(n) \in Nat /\ \A m \in 0..n : date(m) <= date(n)
  <2>1. ASSUME NEW n \in Nat PROVE n \in 0..n /\ \A m \in 0..n : date(m) \in Nat /\ date(m) <= date(n)
        BY <1>3
  <2> QED BY <2>1
<1>5. ASSUME NEW n \in Nat \ {0} PROVE start < date(n)
  <2>1. n - 1 \in Nat /\ (n - 1) + 1 = n /\ 0 \in 0..n - 1
        OBVIOUS
  <2>2. date(0) <= date(n - 1) /\ date(n - 1) < date(n) /\ date(n - 1) \in Nat /\ date(n) \in Nat
        BY <1>2, <1>4, <2>1
  <2> QED BY <1>1, <1>4, <2>2
<1> QED BY <1>4, <1>5 DEF date

-----------------------------------------------------------------------------
(* Types *)

\* The slots that a booking, and its attendance, refer to
SlotsOf(r) == ({r.slot} \cup (IF r.attendance = Null THEN {} ELSE {r.attendance.log})) \ {Null}

\* The tables
Tables ==
    /\ slots \in [Ids -> Slot \cup {Null}]
    /\ created <= MaxSlots
    /\ series \in SeriesStates
    /\ frequency \in Frequencies \cup {Null}
    /\ series # "none" => frequency \in Frequencies
    /\ \A i \in Ids : slots[i] # Null /\ slots[i].inSeries => series # "none"
    /\ bookings \in [Bookings -> BookingRow \cup {Null}]
    /\ \A b \in Bookings : bookings[b] # Null => \A i \in SlotsOf(bookings[b]) : slots[i] # Null
    /\ now \in Nat

OnDay == {"insert", "insertSeries", "readAnchor", "replenish", "update", "cascade", "seat", "book"}
OnSeriesGroup == {"insertSeries", "deactivate", "readAnchor", "replenish", "countSeries", "deleteSeries"}

\* What a handler has read has its type, and the slot that it holds exists.
TypedAt(c) ==
    LET t == tx[c]
    IN  /\ t \in LocalType
        /\ pc[c] \in OnDay => t.start \in Nat
        /\ pc[c] \in OnSeriesGroup => series # "none"
        /\ pc[c] = "book" => Exists(t.slot)

Typed == Tables /\ \A c \in Calls : TypedAt(c)

\* What a handler goes on with has its type.
Fits(next, t) ==
    /\ t \in LocalType
    /\ next \in OnDay => t.start \in Nat
    /\ next \in OnSeriesGroup => series' # "none"
    /\ next = "book" => t.slot # Null /\ slots'[t.slot] # Null

LEMMA NullApart ==
    /\ Null \notin Slot /\ Null \notin BookingRow /\ Null \notin Ids
    /\ Null \notin Nat /\ Null \notin Coaches /\ Null \notin Calls
<1>1. Null \notin Slot /\ Null \notin BookingRow /\ Null \notin Nat /\ Null \notin Coaches /\ Null \notin Calls
      BY SlotAdminAssumption
<1> QED BY <1>1, IdsAreNumbers

LEMMA TypedStep ==
    ASSUME WellFormed, Typed, NEW c \in Calls, NEW next, NEW t, Goto(c, next, t), Fits(next, t),
           Tables', series # "none" => series' # "none",
           \A d \in Calls \ {c} : pc[d] = "book" => Exists(tx[d].slot)'
    PROVE  Typed'
<1>1. /\ pc'[c] = next /\ tx'[c] = t
      /\ \A d \in Calls \ {c} : pc'[d] = pc[d] /\ tx'[d] = tx[d]
      BY DEF Goto, WellFormed, Handlers
<1>2. TypedAt(c)'
      BY <1>1 DEF TypedAt, Fits, Exists
<1>3. ASSUME NEW d \in Calls \ {c} PROVE TypedAt(d)'
  <2>1. pc[d] = "book" => tx'[d].slot # Null /\ slots'[tx'[d].slot] # Null
        BY <1>1 DEF Exists
  <2> QED BY <1>1, <2>1 DEF TypedAt, Typed, Exists
<1> QED BY <1>2, <1>3 DEF Typed

\* A step that writes no table
LEMMA ReadingTyped ==
    ASSUME WellFormed, Typed, NEW c \in Calls, NEW next, NEW t, Goto(c, next, t), Fits(next, t),
           UNCHANGED <<slots, created, series, frequency, bookings, now>>
    PROVE  Typed'
<1>1. Tables'
      BY DEF Typed, Tables, Exists
<1>2. \A d \in Calls \ {c} : pc[d] = "book" => Exists(tx[d].slot)'
  <2>1. ASSUME NEW d \in Calls \ {c}, pc[d] = "book" PROVE Exists(tx[d].slot)'
    <3>1. Exists(tx[d].slot) /\ tx'[d] = tx[d]
          BY <2>1 DEF Typed, TypedAt, Goto, WellFormed, Handlers
    <3> QED BY <3>1 DEF Exists
  <2> QED BY <2>1
<1> QED BY <1>1, <1>2, TypedStep

LEMMA NoTxTyped == NoTx \in LocalType
BY DEF NoTx, LocalType

LEMMA DoneFits == Fits("done", NoTx) /\ Fits("readSeries", NoTx)
BY NoTxTyped DEF Fits, OnDay, OnSeriesGroup

\* What the requests may carry
LEMMA AskFields ==
    ASSUME NEW c \in Calls, NEW a \in Asks[c]
    PROVE  /\ a.op = "create" => /\ a.start \in Nat /\ a.coach \in Coaches \cup {Null}
                                 /\ a.capacity \in Nat \cup {Null}
           /\ a.op = "createSeries" => /\ a.start \in Nat /\ a.coach \in Coaches \cup {Null}
                                       /\ a.capacity \in Nat \cup {Null} /\ a.frequency \in Frequencies
           /\ a.op = "update" => /\ a.slot \in Ids /\ a.fields \in SUBSET Fields /\ a.start \in Nat
                                 /\ a.coach \in Coaches \cup {Null} /\ a.capacity \in Nat \cup {Null}
                                 /\ a.active \in BOOLEAN /\ a.cancelled \in BOOLEAN
           /\ a.op \in {"delete", "cancel"} => a.slot \in Ids
           /\ a.op = "reveal" => a.slot \in Ids /\ a.coach \in Coaches \cup {Null}
           /\ a.op = "log" => /\ a.slot \in Ids /\ a.noted \in SUBSET Bookings /\ a.present \in SUBSET Bookings
                              /\ a.coach \in Coaches \cup {Null}
           /\ a.op = "book" => a.booking \in Bookings /\ a.start \in Nat
           /\ a.op = "status" => a.booking \in Bookings /\ a.status \in Statuses
<1>1. a \in Ask
      BY SlotAdminAssumption
<1>2. CASE a.op = "create"
      BY <1>1, <1>2 DEF Ask
<1>3. CASE a.op = "createSeries"
      BY <1>1, <1>3 DEF Ask
<1>4. CASE a.op = "update"
      BY <1>1, <1>4 DEF Ask
<1>5. CASE a.op \in {"delete", "cancel"}
      BY <1>1, <1>5 DEF Ask
<1>6. CASE a.op = "reveal"
      BY <1>1, <1>6 DEF Ask
<1>7. CASE a.op = "log"
      BY <1>1, <1>7 DEF Ask
<1>8. CASE a.op \in {"book", "status"}
      BY <1>1, <1>8 DEF Ask
<1> QED BY <1>2, <1>3, <1>4, <1>5, <1>6, <1>7, <1>8

LEMMA SlotFields ==
    ASSUME Tables, NEW i \in Ids, slots[i] # Null
    PROVE  /\ slots[i] \in Slot /\ slots[i].start \in Nat /\ slots[i].coach \in Coaches \cup {Null}
           /\ slots[i].capacity \in Nat \cup {Null} /\ slots[i].active \in BOOLEAN
<1>1. slots[i] \in Slot
      BY DEF Tables
<1> QED BY <1>1 DEF Slot

LEMMA BookingFields ==
    ASSUME Tables, NEW b \in Bookings, bookings[b] # Null
    PROVE  /\ bookings[b] \in BookingRow /\ bookings[b].coach \in Coaches \cup {Null}
           /\ SlotsOf(bookings[b]) \subseteq Ids
           /\ \A i \in SlotsOf(bookings[b]) : slots[i] # Null
<1>1. bookings[b] \in BookingRow /\ \A i \in SlotsOf(bookings[b]) : slots[i] # Null
      BY DEF Tables
<1>2. /\ bookings[b].slot \in Ids \cup {Null} /\ bookings[b].coach \in Coaches \cup {Null}
      /\ bookings[b].attendance \in AttendanceRow \cup {Null}
      BY <1>1 DEF BookingRow
<1>3. bookings[b].attendance # Null => bookings[b].attendance.log \in Ids
      BY <1>2 DEF AttendanceRow
<1>4. SlotsOf(bookings[b]) \subseteq Ids
      BY <1>2, <1>3 DEF SlotsOf
<1> QED BY <1>1, <1>2, <1>4

\* A row that keeps its slot and its attendance refers to the same slots.
LEMMA SameSlots ==
    ASSUME NEW r, NEW n, n.slot = r.slot, n.attendance = r.attendance
    PROVE  SlotsOf(n) = SlotsOf(r)
BY DEF SlotsOf

\* The first statement of a request
LEMMA ReceiveTyped ==
    ASSUME WellFormed, Typed, NEW c \in Calls, Receive(c)
    PROVE  Typed'
<1>0. Tables /\ NoTx \in LocalType
      BY NoTxTyped DEF Typed
<1> USE DEF Begin
<1>1. CASE CreateSlot(c)
  <2>1. PICK a \in Asks[c] : /\ a.op = "create"
                             /\ Goto(c, "insert", [NoTx EXCEPT !.start = a.start, !.coach = DefaultCoach(a.coach),
                                                               !.capacity = a.capacity])
        BY <1>1 DEF CreateSlot, Asked
  <2> DEFINE t == [NoTx EXCEPT !.start = a.start, !.coach = DefaultCoach(a.coach), !.capacity = a.capacity]
  <2>2. a.start \in Nat /\ DefaultCoach(a.coach) \in Coaches \cup {Null} /\ a.capacity \in Nat \cup {Null}
        BY <2>1, AskFields, SlotAdminAssumption DEF DefaultCoach
  <2>3. t \in LocalType /\ t.start \in Nat
        BY <1>0, <2>2 DEF LocalType
  <2> HIDE DEF t
  <2>4. Fits("insert", t)
        BY <2>3 DEF Fits, OnSeriesGroup
  <2> QED BY <1>1, <2>1, <2>4, ReadingTyped DEF CreateSlot, slotVars, t
<1>2. CASE CreateSeries(c)
  <2>1. PICK a \in Asks[c] : /\ a.op = "createSeries" /\ frequency' = a.frequency
                             /\ Goto(c, "insertSeries",
                                     [NoTx EXCEPT !.start = a.start, !.coach = DefaultCoach(a.coach),
                                                  !.capacity = a.capacity])
        BY <1>2 DEF CreateSeries, Asked
  <2> DEFINE t == [NoTx EXCEPT !.start = a.start, !.coach = DefaultCoach(a.coach), !.capacity = a.capacity]
  <2>2. /\ a.start \in Nat /\ DefaultCoach(a.coach) \in Coaches \cup {Null} /\ a.capacity \in Nat \cup {Null}
        /\ a.frequency \in Frequencies
        BY <2>1, AskFields, SlotAdminAssumption DEF DefaultCoach
  <2>3. t \in LocalType /\ t.start \in Nat
        BY <1>0, <2>2 DEF LocalType
  <2> HIDE DEF t
  <2>4. /\ series' = "active" /\ UNCHANGED <<slots, created, bookings, now>>
        BY <1>2 DEF CreateSeries
  <2>5. Fits("insertSeries", t)
        BY <2>3, <2>4 DEF Fits
  <2>6. Tables'
        BY <1>0, <2>1, <2>2, <2>4 DEF Tables, SeriesStates, Exists
  <2>7. ASSUME NEW d \in Calls \ {c}, pc[d] = "book" PROVE Exists(tx[d].slot)'
    <3>1. Exists(tx[d].slot) /\ tx'[d] = tx[d]
          BY <2>1, <2>7 DEF Typed, TypedAt, Goto, WellFormed, Handlers
    <3> QED BY <2>4, <3>1 DEF Exists
  <2> QED BY <2>1, <2>4, <2>5, <2>6, <2>7, TypedStep DEF t
<1>3. CASE ListSlots(c)
      BY <1>3, DoneFits, ReadingTyped DEF ListSlots, slotVars
<1>4. CASE StopSeries(c) \/ ResumeSeries(c)
  <2>1. PICK next \in {"done", "readSeries"} : Goto(c, next, NoTx)
        BY <1>4 DEF StopSeries, ResumeSeries
  <2>2. /\ series \in {"active", "stopped"} /\ series' \in {"active", "stopped"}
        /\ UNCHANGED <<slots, created, frequency, bookings, now>>
        BY <1>4 DEF StopSeries, ResumeSeries, SwitchSeries
  <2>3. Tables'
        BY <1>0, <2>2 DEF Tables, SeriesStates, Exists
  <2>4. ASSUME NEW d \in Calls \ {c}, pc[d] = "book" PROVE Exists(tx[d].slot)'
    <3>1. Exists(tx[d].slot) /\ tx'[d] = tx[d]
          BY <2>1, <2>4 DEF Typed, TypedAt, Goto, WellFormed, Handlers
    <3> QED BY <2>2, <3>1 DEF Exists
  <2> QED BY <2>1, <2>2, <2>3, <2>4, DoneFits, TypedStep
<1>5. CASE ReadSlotToUpdate(c)
  <2> DEFINE row(a, changed, cascaded) ==
               [NoTx EXCEPT !.slot = a.slot, !.fields = a.fields, !.start = a.start, !.coach = a.coach,
                            !.capacity = a.capacity, !.active = a.active, !.cancelled = a.cancelled,
                            !.coachChanged = changed, !.cascaded = cascaded]
  <2>1. PICK a \in Asks[c] :
          LET timeChanged == "start" \in a.fields /\ a.start # slots[a.slot].start
              coachChanged == "coach" \in a.fields /\ a.coach # slots[a.slot].coach
              follow == Seated(a.slot) # {}
          IN  /\ a.op = "update"
              /\ Goto(c, "update", row(a, coachChanged,
                        (IF timeChanged /\ follow THEN {"start"} ELSE {})
                        \cup (IF coachChanged /\ follow /\ (Deferred => slots[a.slot].revealed)
                              THEN {"coach"} ELSE {})))
        BY <1>5 DEF ReadSlotToUpdate, Asked
  <2> DEFINE changed == "coach" \in a.fields /\ a.coach # slots[a.slot].coach
             cascaded == (IF /\ "start" \in a.fields /\ a.start # slots[a.slot].start
                             /\ Seated(a.slot) # {} THEN {"start"} ELSE {})
                         \cup (IF changed /\ Seated(a.slot) # {} /\ (Deferred => slots[a.slot].revealed)
                               THEN {"coach"} ELSE {})
             t == row(a, changed, cascaded)
  <2>2. /\ a.slot \in Ids /\ a.fields \in SUBSET Fields /\ a.start \in Nat
        /\ a.coach \in Coaches \cup {Null} /\ a.capacity \in Nat \cup {Null}
        /\ a.active \in BOOLEAN /\ a.cancelled \in BOOLEAN
        BY <2>1, AskFields
  <2>3. Goto(c, "update", t)
        BY <2>1
  <2>4. changed \in BOOLEAN /\ cascaded \in SUBSET {"start", "coach"}
        OBVIOUS
  <2> HIDE DEF changed, cascaded
  <2>5. t \in LocalType /\ t.start \in Nat
        BY <1>0, <2>2, <2>4 DEF LocalType
  <2> HIDE DEF t, row
  <2>6. Fits("update", t)
        BY <2>5 DEF Fits, OnSeriesGroup
  <2> QED BY <1>5, <2>3, <2>6, ReadingTyped DEF ReadSlotToUpdate, slotVars
<1>6. CASE CountBookings(c) \/ ReadSlotToCancel(c)
  <2>1. PICK a \in Asks[c], next \in {"delete", "cancel"} :
          a.op \in {"delete", "cancel"} /\ Goto(c, next, [NoTx EXCEPT !.slot = a.slot])
        BY <1>6 DEF CountBookings, ReadSlotToCancel, Asked
  <2>2. a.slot \in Ids
        BY <2>1, AskFields
  <2>3. [NoTx EXCEPT !.slot = a.slot] \in LocalType
        BY <1>0, <2>2 DEF LocalType
  <2>4. Fits(next, [NoTx EXCEPT !.slot = a.slot])
        BY <2>3 DEF Fits, OnDay, OnSeriesGroup
  <2> QED BY <1>6, <2>1, <2>4, ReadingTyped DEF CountBookings, ReadSlotToCancel, slotVars
<1>7. CASE ReadSlotToReveal(c)
  <2>1. PICK a \in Asks[c] :
          /\ a.op = "reveal" /\ Exists(a.slot)
          /\ Goto(c, "reveal", [NoTx EXCEPT !.slot = a.slot, !.coach = Given(a.coach, slots[a.slot].coach)])
        BY <1>7 DEF ReadSlotToReveal, Asked
  <2> DEFINE t == [NoTx EXCEPT !.slot = a.slot, !.coach = Given(a.coach, slots[a.slot].coach)]
  <2>2. a.slot \in Ids /\ Given(a.coach, slots[a.slot].coach) \in Coaches \cup {Null}
        BY <1>0, <2>1, AskFields, SlotFields DEF Given, Exists
  <2>3. t \in LocalType
        BY <1>0, <2>2 DEF LocalType
  <2> HIDE DEF t
  <2>4. Fits("reveal", t)
        BY <2>3 DEF Fits, OnDay, OnSeriesGroup
  <2> QED BY <1>7, <2>1, <2>4, ReadingTyped DEF ReadSlotToReveal, slotVars, t
<1>8. CASE ReadBookingsToLog(c)
  <2>1. PICK a \in Asks[c], open \in SUBSET Bookings :
          /\ a.op = "log"
          /\ Goto(c, "log", [NoTx EXCEPT !.slot = a.slot, !.coach = a.coach, !.noted = a.noted,
                                         !.present = a.present, !.open = open])
        BY <1>8 DEF ReadBookingsToLog, Asked, Seated
  <2> DEFINE t == [NoTx EXCEPT !.slot = a.slot, !.coach = a.coach, !.noted = a.noted,
                               !.present = a.present, !.open = open]
  <2>2. a.slot \in Ids /\ a.noted \in SUBSET Bookings /\ a.present \in SUBSET Bookings /\ a.coach \in Coaches \cup {Null}
        BY <2>1, AskFields
  <2>3. t \in LocalType
        BY <1>0, <2>2 DEF LocalType
  <2> HIDE DEF t
  <2>4. Fits("log", t)
        BY <2>3 DEF Fits, OnDay, OnSeriesGroup
  <2> QED BY <1>8, <2>1, <2>4, ReadingTyped DEF ReadBookingsToLog, slotVars, t
<1>9. CASE MatchSlot(c)
  <2>1. PICK a \in Asks[c], i \in Ids :
          /\ a.op = "book" /\ Exists(i)
          /\ Goto(c, "seat", [NoTx EXCEPT !.slot = i, !.start = a.start, !.booking = a.booking,
                                          !.capacity = slots[i].capacity])
        BY <1>9 DEF MatchSlot, Asked, SlotsAt
  <2> DEFINE t == [NoTx EXCEPT !.slot = i, !.start = a.start, !.booking = a.booking,
                               !.capacity = slots[i].capacity]
  <2>2. a.booking \in Bookings /\ a.start \in Nat /\ slots[i].capacity \in Nat \cup {Null}
        BY <1>0, <2>1, AskFields, SlotFields DEF Exists
  <2>3. t \in LocalType /\ t.start \in Nat
        BY <1>0, <2>2 DEF LocalType
  <2> HIDE DEF t
  <2>4. Fits("seat", t)
        BY <2>3 DEF Fits, OnSeriesGroup
  <2> QED BY <1>9, <2>1, <2>4, ReadingTyped DEF MatchSlot, slotVars, t
<1>10. CASE SetStatus(c)
  <2>1. PICK a \in Asks[c] : /\ a.op = "status" /\ bookings[a.booking] # Null
                             /\ bookings' = [bookings EXCEPT ![a.booking].status = a.status]
        BY <1>10 DEF SetStatus, Asked
  <2>2. Goto(c, "done", NoTx) /\ UNCHANGED <<slots, created, series, frequency, now>>
        BY <1>10 DEF SetStatus, slotVars
  <2>3. a.booking \in Bookings /\ a.status \in Statuses
        BY <2>1, AskFields
  <2>4. bookings[a.booking] \in BookingRow
        BY <1>0, <2>1, <2>3 DEF Tables
  <2>5. /\ bookings'[a.booking] \in BookingRow /\ bookings'[a.booking].slot = bookings[a.booking].slot
        /\ bookings'[a.booking].attendance = bookings[a.booking].attendance
        BY <1>0, <2>1, <2>3, <2>4 DEF BookingRow, Tables
  <2>8. SlotsOf(bookings'[a.booking]) = SlotsOf(bookings[a.booking])
        BY <2>5, SameSlots
  <2>6. Tables'
        BY <1>0, <2>1, <2>2, <2>3, <2>5, <2>8 DEF Tables
  <2>7. ASSUME NEW d \in Calls \ {c}, pc[d] = "book" PROVE Exists(tx[d].slot)'
    <3>1. Exists(tx[d].slot) /\ tx'[d] = tx[d]
          BY <2>2, <2>7 DEF Typed, TypedAt, Goto, WellFormed, Handlers
    <3> QED BY <2>2, <3>1 DEF Exists
  <2> QED BY <2>2, <2>6, <2>7, DoneFits, TypedStep
<1> QED BY <1>1, <1>2, <1>3, <1>4, <1>5, <1>6, <1>7, <1>8, <1>9, <1>10 DEF Receive

\* Every day that has no slot yet gets one, and nothing else is written.
LEMMA Inserted ==
    ASSUME SlotRows, NEW days \in SUBSET Nat, IsFiniteSet(days), NEW row, Insert(days, row)
    PROVE  /\ created' <= MaxSlots /\ slots' = [i \in Ids |-> slots'[i]]
           /\ \A i \in Ids : \/ slots'[i] = slots[i]
                             \/ /\ slots[i] = Null
                                /\ \E d \in days : SlotsAt(d) = {} /\ slots'[i] = [row EXCEPT !.start = d]
           /\ \A d \in days : SlotsAt(d) = {} =>
                \E i \in Ids : slots[i] = Null /\ slots'[i] = [row EXCEPT !.start = d]
<1> DEFINE new == {d \in days : SlotsAt(d) = {}}
           earlier(d) == {x \in new \ {d} : x < d}
           idOf(d) == created + 1 + Cardinality(earlier(d))
<1>1. IsFiniteSet(new) /\ Cardinality(new) \in Nat /\ new \subseteq days /\ new \subseteq Nat
      BY FS_Subset, FS_CardinalityType
<1>2. /\ created \in Nat /\ created + Cardinality(new) <= MaxSlots
      /\ created' = created + Cardinality(new)
      /\ slots' = [i \in Ids |-> IF \E d \in new : i = idOf(d)
                               THEN [row EXCEPT !.start = CHOOSE d \in new : i = idOf(d)]
                               ELSE slots[i]]
      BY DEF Insert, SlotRows
<1>3. ASSUME NEW d \in new
      PROVE  /\ IsFiniteSet(earlier(d)) /\ Cardinality(earlier(d)) \in Nat
             /\ Cardinality(earlier(d)) <= Cardinality(new) - 1
  <2>1. IsFiniteSet(new \ {d}) /\ Cardinality(new \ {d}) = Cardinality(new) - 1
        BY <1>1, FS_RemoveElement
  <2>2. earlier(d) \in SUBSET (new \ {d})
        OBVIOUS
  <2> HIDE DEF earlier
  <2> QED BY <2>1, <2>2, FS_Subset, FS_CardinalityType
<1>4. ASSUME NEW d \in new
      PROVE  /\ idOf(d) \in Ids /\ created < idOf(d)
  <2>1. MaxSlots \in Nat
        BY SlotAdminAssumption
  <2> DEFINE e == Cardinality(earlier(d))
             n == Cardinality(new)
  <2>2. e \in Nat /\ n \in Nat /\ e <= n - 1 /\ created + n <= MaxSlots
        BY <1>1, <1>2, <1>3
  <2> HIDE DEF e, n
  <2>3. created + 1 + e \in 1..MaxSlots /\ created < created + 1 + e
        BY <1>2, <2>1, <2>2
  <2> QED BY <2>3 DEF e, Ids
<1>5. ASSUME NEW d \in new, NEW x \in new, x < d PROVE idOf(x) # idOf(d)
  <2>1. earlier(x) \in SUBSET (earlier(d) \ {x}) /\ x \in earlier(d)
        BY <1>1, <1>5
  <2>2. /\ IsFiniteSet(earlier(d)) /\ Cardinality(earlier(d)) \in Nat
        /\ IsFiniteSet(earlier(x)) /\ Cardinality(earlier(x)) \in Nat
        BY <1>3
  <2> HIDE DEF earlier
  <2>3. IsFiniteSet(earlier(d) \ {x}) /\ Cardinality(earlier(d) \ {x}) = Cardinality(earlier(d)) - 1
        BY <2>1, <2>2, FS_RemoveElement
  <2>4. Cardinality(earlier(x)) <= Cardinality(earlier(d) \ {x})
        BY <2>1, <2>3, FS_Subset
  <2> QED BY <1>2, <2>2, <2>3, <2>4
<1>6. ASSUME NEW d \in new, NEW x \in new, idOf(d) = idOf(x) PROVE d = x
  <2> HIDE DEF idOf
  <2>1. d \in Nat /\ x \in Nat
        BY <1>1
  <2>2. CASE d < x
        BY <1>5, <1>6, <2>2
  <2>3. CASE x < d
        BY <1>5, <1>6, <2>3
  <2> QED BY <2>1, <2>2, <2>3
<1> HIDE DEF idOf, new
<1>7. ASSUME NEW i \in Ids, i > created PROVE slots[i] = Null
  <2>1. i \in Nat
        BY IdsAreNumbers
  <2> QED BY <1>2, <1>7, <2>1 DEF SlotRows
<1>8. ASSUME NEW i \in Ids
      PROVE  \/ slots'[i] = slots[i]
             \/ /\ slots[i] = Null
                /\ \E d \in days : SlotsAt(d) = {} /\ slots'[i] = [row EXCEPT !.start = d]
  <2>1. CASE \E d \in new : i = idOf(d)
    <3>1. PICK d \in new : i = idOf(d) /\ d = CHOOSE x \in new : i = idOf(x)
          BY <2>1
    <3>2. slots'[i] = [row EXCEPT !.start = d]
          BY <1>2, <2>1, <3>1
    <3>3. slots[i] = Null
          BY <1>4, <1>7, <3>1, IdsAreNumbers
    <3>4. d \in days /\ SlotsAt(d) = {}
          BY DEF new
    <3> QED BY <3>2, <3>3, <3>4
  <2>2. CASE ~\E d \in new : i = idOf(d)
        BY <1>2, <2>2
  <2> QED BY <2>1, <2>2
<1>9. ASSUME NEW d \in days, SlotsAt(d) = {}
      PROVE  \E i \in Ids : slots[i] = Null /\ slots'[i] = [row EXCEPT !.start = d]
  <2>1. d \in new
        BY <1>9 DEF new
  <2>2. PICK i \in Ids : i = idOf(d) /\ created < i
        BY <1>4, <2>1
  <2>3. \A x \in new : i = idOf(x) => x = d
        BY <1>6, <2>1, <2>2
  <2>4. (CHOOSE x \in new : i = idOf(x)) = d
        BY <2>1, <2>2, <2>3
  <2>5. slots'[i] = [row EXCEPT !.start = d]
        BY <1>2, <2>1, <2>2, <2>4
  <2>6. slots[i] = Null
        BY <1>2, <1>7, <2>2, IdsAreNumbers
  <2> QED BY <2>5, <2>6
<1>10. slots' = [i \in Ids |-> slots'[i]] /\ created' <= MaxSlots
       BY <1>2
<1> QED BY <1>8, <1>9, <1>10

\* A finite number of slots has a first and a latest one.
LEMMA SlotsBounded ==
    ASSUME Tables
    PROVE  \E bound \in Nat : \A i \in SeriesSlots : slots[i].start <= bound
<1> DEFINE S == {n \in Nat : \E bound \in Nat : \A i \in SeriesSlots : i <= n => slots[i].start <= bound}
<1>0. \A i \in SeriesSlots : i \in Ids /\ i \in Nat /\ i >= 1 /\ i <= MaxSlots /\ slots[i].start \in Nat
  <2>1. ASSUME NEW i \in SeriesSlots PROVE i \in Ids /\ slots[i] # Null /\ i \in 1..MaxSlots
        BY DEF SeriesSlots, Exists, Ids
  <2>2. MaxSlots \in Nat
        BY SlotAdminAssumption
  <2> QED BY <2>1, <2>2, SlotFields
<1>1. 0 \in S
      BY <1>0
<1>2. ASSUME NEW n \in Nat, n \in S PROVE n + 1 \in S
  <2>1. PICK b \in Nat : \A i \in SeriesSlots : i <= n => slots[i].start <= b
        BY <1>2
  <2>2. CASE n + 1 \in SeriesSlots
    <3> DEFINE d == slots[n + 1].start
    <3>1. d \in Nat
          BY <1>0, <2>2
    <3>2. ASSUME NEW i \in SeriesSlots, i <= n + 1 PROVE slots[i].start <= b + d
      <4>1. i \in Nat /\ slots[i].start \in Nat
            BY <1>0
      <4>2. CASE i = n + 1
            BY <2>1, <3>1, <4>1, <4>2
      <4>3. CASE i <= n
        <5>1. slots[i].start <= b
              BY <2>1, <4>3
        <5> HIDE DEF d
        <5> QED BY <2>1, <3>1, <4>1, <5>1
      <4> QED BY <3>2, <4>1, <4>2, <4>3
    <3>3. b + d \in Nat
          BY <2>1, <3>1
    <3> HIDE DEF d
    <3> QED BY <3>2, <3>3
  <2>3. CASE n + 1 \notin SeriesSlots
    <3>1. ASSUME NEW i \in SeriesSlots, i <= n + 1 PROVE slots[i].start <= b
      <4>1. i \in Nat /\ i # n + 1
            BY <1>0, <2>3
      <4> QED BY <2>1, <3>1, <4>1
    <3> QED BY <2>1, <3>1
  <2> QED BY <2>2, <2>3
<1> HIDE DEF S
<1>3. MaxSlots \in S
      BY <1>1, <1>2, NatSetInduction, SlotAdminAssumption
<1>4. PICK b \in Nat : \A i \in SeriesSlots : i <= MaxSlots => slots[i].start <= b
      BY <1>3 DEF S
<1> QED BY <1>0, <1>4

LEMMA LatestSlot ==
    ASSUME Tables, SeriesSlots # {}
    PROVE  /\ \E i \in SeriesSlots : \A x \in SeriesSlots : slots[x].start <= slots[i].start
           /\ \E i \in SeriesSlots : \A x \in SeriesSlots : slots[x].start >= slots[i].start
<1> DEFINE T == {slots[i].start : i \in SeriesSlots}
<1>1. \A i \in SeriesSlots : i \in Ids /\ slots[i] # Null
      BY DEF SeriesSlots, Exists
<1>2. T \subseteq Nat /\ T # {}
      BY <1>1, SlotFields
<1>3. PICK b \in Nat : \A n \in T : n <= b
      BY SlotsBounded
<1>4. \A x \in SeriesSlots : slots[x].start \in T
      OBVIOUS
<1>5. \A n \in T : \E i \in SeriesSlots : n = slots[i].start
      OBVIOUS
<1> HIDE DEF T
<1>6. Max(T) \in T /\ \A n \in T : n <= Max(T)
      BY <1>2, <1>3, GreatestBelow
<1>7. Min(T) \in T /\ \A n \in T : Min(T) <= n
      BY <1>2, LeastOf
<1>8. PICK i \in SeriesSlots : Max(T) = slots[i].start
      BY <1>5, <1>6
<1>9. PICK j \in SeriesSlots : Min(T) = slots[j].start
      BY <1>5, <1>7
<1>10. \A x \in SeriesSlots : slots[x].start <= slots[i].start
       BY <1>4, <1>6, <1>8
<1>11. ASSUME NEW x \in SeriesSlots PROVE slots[x].start >= slots[j].start
  <2>1. slots[j].start <= slots[x].start
        BY <1>4, <1>7, <1>9
  <2> QED BY <1>2, <1>4, <2>1
<1> QED BY <1>10, <1>11

\* A step that writes slots and bookings, but removes no slot that a booking transaction holds
LEMMA WritingTyped ==
    ASSUME WellFormed, Typed, NEW c \in Calls, NEW next, NEW t, Goto(c, next, t), Fits(next, t),
           slots' \in [Ids -> Slot \cup {Null}], created' <= MaxSlots,
           \A i \in Ids : slots[i] # Null => slots'[i] # Null \/ locks[i] = Null,
           \A i \in Ids : slots'[i] # Null /\ slots'[i].inSeries => series # "none",
           bookings' \in [Bookings -> BookingRow \cup {Null}],
           \A b \in Bookings : bookings'[b] # Null => \A i \in SlotsOf(bookings'[b]) : slots'[i] # Null,
           UNCHANGED <<series, frequency, now>>
    PROVE  Typed'
<1>1. Tables'
      BY DEF Typed, Tables
<1>2. ASSUME NEW d \in Calls \ {c}, pc[d] = "book" PROVE Exists(tx[d].slot)'
  <2>1. /\ Exists(tx[d].slot) /\ tx'[d] = tx[d] /\ locks[tx[d].slot] = d /\ tx[d].slot \in Ids
        BY <1>2 DEF Typed, TypedAt, Goto, WellFormed, Handlers, HandlerOK, OnSlot
  <2>2. d # Null
        BY SlotAdminAssumption
  <2> QED BY <2>1, <2>2 DEF Exists
<1> QED BY <1>1, <1>2, TypedStep

LEMMA InsertTyped ==
    ASSUME WellFormed, Typed, NEW c \in Calls, Goto(c, "done", NoTx),
           NEW days \in SUBSET Nat, IsFiniteSet(days), NEW row \in Slot, row.inSeries => series # "none",
           Insert(days, row), UNCHANGED <<series, frequency, bookings, now>>
    PROVE  Typed'
<1>1. SlotRows /\ Tables
      BY DEF WellFormed, Typed
<1>2. /\ created' <= MaxSlots /\ slots' = [i \in Ids |-> slots'[i]]
      /\ \A i \in Ids : \/ slots'[i] = slots[i]
                        \/ slots[i] = Null /\ \E d \in Nat : slots'[i] = [row EXCEPT !.start = d]
  <2>1. \A d \in days : d \in Nat
        OBVIOUS
  <2> QED BY <1>1, <2>1, Inserted
<1>3. ASSUME NEW d \in Nat
      PROVE  [row EXCEPT !.start = d] \in Slot /\ [row EXCEPT !.start = d].inSeries = row.inSeries
      BY DEF Slot
<1>4. ASSUME NEW i \in Ids
      PROVE  /\ slots'[i] \in Slot \cup {Null}
             /\ slots[i] # Null => slots'[i] # Null
             /\ slots'[i] # Null /\ slots'[i].inSeries => series # "none"
  <2>1. CASE slots'[i] = slots[i]
        BY <1>1, <2>1 DEF Tables
  <2>2. CASE slots[i] = Null /\ \E d \in Nat : slots'[i] = [row EXCEPT !.start = d]
        BY <1>3, <2>2
  <2> QED BY <1>2, <2>1, <2>2
<1>5. slots' \in [Ids -> Slot \cup {Null}]
      BY <1>2, <1>4
<1>6. ASSUME NEW b \in Bookings, bookings'[b] # Null, NEW i \in SlotsOf(bookings'[b])
      PROVE  slots'[i] # Null
  <2>1. i \in Ids /\ slots[i] # Null
        BY <1>1, <1>6, BookingFields
  <2> QED BY <1>4, <2>1
<1>7. bookings' \in [Bookings -> BookingRow \cup {Null}]
      BY <1>1 DEF Tables
<1> QED BY <1>2, <1>4, <1>5, <1>6, <1>7, DoneFits, WritingTyped

LEMMA InsertionsTyped ==
    ASSUME EndlessCalendar, WellFormed, Typed, NEW c \in Calls, InsertSlot(c) \/ InsertSeries(c) \/ Replenish(c)
    PROVE  Typed'
<1> DEFINE t == tx[c]
<1>0. /\ Goto(c, "done", NoTx) /\ UNCHANGED <<series, frequency, bookings, now>>
      /\ Tables /\ t \in LocalType /\ t.start \in Nat /\ pc[c] \in {"insert", "insertSeries", "replenish"}
      /\ pc[c] \in {"insertSeries", "replenish"} => series # "none" /\ frequency \in Frequencies
      BY DEF InsertSlot, InsertSeries, Replenish, Answer, Typed, TypedAt, OnDay, OnSeriesGroup, Tables
<1>1. /\ t.coach \in Coaches \cup {Null} /\ t.capacity \in Nat \cup {Null} /\ t.active \in BOOLEAN
      /\ t.phase \in Nat
      BY <1>0 DEF LocalType
<1>2. ASSUME NEW start \in Nat, NEW inSeries \in BOOLEAN
      PROVE  LET n == NewSlot(start, t.coach, t.capacity, inSeries)
             IN  /\ n \in Slot /\ [n EXCEPT !.active = t.active] \in Slot
                 /\ n.inSeries = inSeries /\ [n EXCEPT !.active = t.active].inSeries = inSeries
  <2> DEFINE n == NewSlot(start, t.coach, t.capacity, inSeries)
  <2>1. n \in Slot /\ n.inSeries = inSeries
        BY <1>1 DEF NewSlot, Slot
  <2> HIDE DEF n
  <2>2. [n EXCEPT !.active = t.active] \in Slot /\ [n EXCEPT !.active = t.active].inSeries = inSeries
        BY <1>1, <2>1 DEF Slot
  <2> QED BY <2>1, <2>2 DEF n
<1> HIDE DEF t
<1>3. CASE UNCHANGED <<slots, created>>
      BY <1>0, <1>3, DoneFits, ReadingTyped
<1>4. CASE InsertSlot(c) /\ ~UNCHANGED <<slots, created>>
  <2>1. Insert({t.start}, NewSlot(t.start, t.coach, t.capacity, FALSE))
        BY <1>4 DEF InsertSlot, t
  <2>2. {t.start} \in SUBSET Nat /\ IsFiniteSet({t.start})
        BY <1>0, FS_Singleton
  <2> QED BY <1>0, <1>2, <2>1, <2>2, InsertTyped
<1>5. CASE InsertSeries(c)
  <2> DEFINE days == {Occurrence(t.start, frequency, 0, n) : n \in 0..Occurrences - 1}
  <2>1. Insert(days, NewSlot(0, t.coach, t.capacity, TRUE)) /\ pc[c] = "insertSeries"
        BY <1>5 DEF InsertSeries, t
  <2>2. IsFiniteSet(days)
        BY SeriesDaysFinite
  <2>3. \A n \in Nat : Occurrence(t.start, frequency, 0, n) \in Nat
        BY <1>0, <2>1, DatesForward
  <2>4. days \in SUBSET Nat
        BY <2>3
  <2> HIDE DEF days
  <2> QED BY <1>0, <1>2, <2>1, <2>2, <2>4, InsertTyped
<1>6. CASE Replenish(c) /\ ~UNCHANGED <<slots, created>>
  <2> DEFINE days == Upcoming(t.start, frequency, t.phase, t.until)
  <2>1. Insert(days, [NewSlot(0, t.coach, t.capacity, TRUE) EXCEPT !.active = t.active]) /\ pc[c] = "replenish"
        BY <1>6 DEF Replenish, t
  <2>2. IsFiniteSet(days)
        BY UpcomingFinite
  <2>3. \A n \in Nat : Occurrence(t.start, frequency, t.phase, n) \in Nat
        BY <1>0, <1>1, <2>1, DatesForward
  <2>4. days \in SUBSET Nat
        BY <2>3 DEF Upcoming
  <2> HIDE DEF days
  <2> QED BY <1>0, <1>2, <2>1, <2>2, <2>4, InsertTyped
<1> QED BY <1>3, <1>4, <1>5, <1>6

LEMMA ReadsTyped ==
    ASSUME WellFormed, Typed, NEW c \in Calls,
           ReadSeries(c) \/ Deactivate(c) \/ ReadAnchor(c) \/ CountSeries(c) \/ GiveUp(c)
    PROVE  Typed'
<1>0. Tables /\ NoTx \in LocalType /\ tx[c] \in LocalType
      BY NoTxTyped DEF Typed, TypedAt
<1>1. CASE ReadSeries(c)
  <2>0. UNCHANGED <<slots, created, series, frequency, bookings, now>>
        BY <1>1 DEF ReadSeries, slotVars
  <2> DEFINE latest == CHOOSE i \in SeriesSlots : \A x \in SeriesSlots : slots[x].start <= slots[i].start
             t == [NoTx EXCEPT !.start = slots[latest].start, !.capacity = slots[latest].capacity,
                               !.active = slots[latest].active, !.until = now + Ahead,
                               !.coach = IF FixedLead # Null THEN FixedLead ELSE slots[latest].coach]
  <2>1. \/ Goto(c, "done", NoTx)
        \/ Goto(c, "deactivate", NoTx) /\ series = "active"
        \/ /\ Goto(c, "readAnchor", t) \/ Goto(c, "replenish", t)
           /\ SeriesSlots # {} /\ series = "active"
        BY <1>1 DEF ReadSeries, Answer
  <2>2. SeriesSlots # {} => latest \in SeriesSlots
        BY <1>0, LatestSlot
  <2> HIDE DEF latest
  <2>3. CASE Goto(c, "done", NoTx)
        BY <2>0, <2>3, DoneFits, ReadingTyped
  <2>4. CASE Goto(c, "deactivate", NoTx) /\ series = "active"
    <3>1. Fits("deactivate", NoTx)
          BY <1>0, <2>0, <2>4 DEF Fits, OnDay
    <3> QED BY <2>0, <2>4, <3>1, ReadingTyped
  <2>5. ASSUME NEW next \in {"readAnchor", "replenish"}, Goto(c, next, t), SeriesSlots # {}, series = "active"
        PROVE  Typed'
    <3>1. latest \in Ids /\ slots[latest] # Null
          BY <2>2, <2>5 DEF SeriesSlots, Exists
    <3>2. /\ slots[latest].start \in Nat /\ slots[latest].coach \in Coaches \cup {Null}
          /\ slots[latest].capacity \in Nat \cup {Null} /\ slots[latest].active \in BOOLEAN
          BY <1>0, <3>1, SlotFields
    <3>3. now + Ahead \in Nat /\ FixedLead \in Coaches \cup {Null}
          BY <1>0, SlotAdminAssumption DEF Tables
    <3>4. t \in LocalType /\ t.start \in Nat
      <4> DEFINE coach == IF FixedLead # Null THEN FixedLead ELSE slots[latest].coach
                 until == now + Ahead
                 u == [NoTx EXCEPT !.start = slots[latest].start, !.capacity = slots[latest].capacity,
                                   !.active = slots[latest].active]
      <4>1. u \in LocalType /\ u.start \in Nat
            BY <1>0, <3>2 DEF LocalType
      <4>2. coach \in Coaches \cup {Null} /\ until \in Nat
            BY <3>2, <3>3
      <4>3. t = [u EXCEPT !.until = until, !.coach = coach]
            BY <1>0 DEF LocalType
      <4> HIDE DEF coach, until, u
      <4>4. /\ [u EXCEPT !.until = until, !.coach = coach] \in LocalType
            /\ [u EXCEPT !.until = until, !.coach = coach].start = u.start
            BY <4>1, <4>2 DEF LocalType
      <4> QED BY <4>1, <4>3, <4>4
    <3> HIDE DEF t
    <3>5. Fits(next, t)
          BY <2>0, <2>5, <3>4 DEF Fits, OnDay
    <3> QED BY <2>0, <2>5, <3>5, ReadingTyped
  <2> QED BY <2>1, <2>3, <2>4, <2>5
<1>2. CASE Deactivate(c)
  <2>1. /\ series # "none" /\ series' \in SeriesStates /\ series' # "none" /\ Goto(c, "done", NoTx)
        /\ UNCHANGED <<slots, created, frequency, bookings, now>>
        BY <1>2 DEF Deactivate, Answer, Typed, TypedAt, OnSeriesGroup, SeriesStates
  <2>2. Tables'
        BY <1>0, <2>1 DEF Tables, Exists
  <2>3. ASSUME NEW d \in Calls \ {c}, pc[d] = "book" PROVE Exists(tx[d].slot)'
    <3>1. Exists(tx[d].slot) /\ tx'[d] = tx[d]
          BY <2>1, <2>3 DEF Typed, TypedAt, Goto, WellFormed, Handlers
    <3> QED BY <2>1, <3>1 DEF Exists
  <2> QED BY <2>1, <2>2, <2>3, DoneFits, TypedStep
<1>3. CASE ReadAnchor(c)
  <2>1. PICK phase \in 0..2 : Goto(c, "replenish", [tx[c] EXCEPT !.phase = phase])
    <3>1. ASSUME NEW x PROVE CyclePhase(x) \in 0..2
          BY DEF CyclePhase
    <3> DEFINE first == CHOOSE i \in SeriesSlots : \A x \in SeriesSlots : slots[x].start >= slots[i].start
               phase == IF SeriesSlots = {} THEN 0 ELSE CyclePhase(tx[c].start - slots[first].start)
    <3>2. phase \in 0..2
          BY <3>1
    <3>3. Goto(c, "replenish", [tx[c] EXCEPT !.phase = phase])
          BY <1>3 DEF ReadAnchor
    <3> HIDE DEF phase
    <3> QED BY <3>2, <3>3
  <2>2. /\ tx[c].start \in Nat /\ series # "none"
        /\ UNCHANGED <<slots, created, series, frequency, bookings, now>>
        BY <1>3 DEF ReadAnchor, slotVars, Typed, TypedAt, OnDay, OnSeriesGroup
  <2> DEFINE t == [tx[c] EXCEPT !.phase = phase]
  <2>3. t \in LocalType /\ t.start \in Nat
        BY <1>0, <2>2 DEF LocalType
  <2> HIDE DEF t
  <2>4. Fits("replenish", t)
        BY <2>2, <2>3 DEF Fits
  <2> QED BY <2>1, <2>2, <2>4, ReadingTyped DEF t
<1>4. CASE CountSeries(c)
  <2>1. /\ Goto(c, "done", NoTx) \/ Goto(c, "deleteSeries", tx[c])
        /\ series # "none" /\ UNCHANGED <<slots, created, series, frequency, bookings, now>>
        BY <1>4 DEF CountSeries, Answer, slotVars, Typed, TypedAt, OnSeriesGroup
  <2>2. Fits("deleteSeries", tx[c])
        BY <1>0, <2>1 DEF Fits, OnDay
  <2> QED BY <2>1, <2>2, DoneFits, ReadingTyped
<1>5. CASE GiveUp(c)
      BY <1>5, DoneFits, ReadingTyped DEF GiveUp, Answer, slotVars
<1> QED BY <1>1, <1>2, <1>3, <1>4, <1>5

\* A step that rewrites one slot, and bookings without moving them to another one
LEMMA RewritingTyped ==
    ASSUME WellFormed, Typed, NEW c \in Calls, NEW next, NEW t, Goto(c, next, t), Fits(next, t),
           NEW i \in Ids, slots[i] # Null, NEW n \in Slot, n.inSeries = slots[i].inSeries,
           slots' = [slots EXCEPT ![i] = n],
           bookings' = [b \in Bookings |-> bookings'[b]],
           \A b \in Bookings : \/ bookings'[b] = bookings[b]
                               \/ /\ bookings[b] # Null /\ bookings'[b] \in BookingRow
                                  /\ SlotsOf(bookings'[b]) \subseteq SlotsOf(bookings[b]) \cup {i},
           UNCHANGED <<created, series, frequency, now>>
    PROVE  Typed'
<1>0. Tables /\ Null \notin Slot
      BY NullApart DEF Typed
<1>1. /\ slots' \in [Ids -> Slot \cup {Null}] /\ created' <= MaxSlots
      /\ slots'[i] = n /\ n # Null /\ \A k \in Ids \ {i} : slots'[k] = slots[k]
      BY <1>0 DEF Tables
<1>2. \A k \in Ids : /\ slots[k] # Null => slots'[k] # Null
                     /\ slots'[k] # Null /\ slots'[k].inSeries => series # "none"
      BY <1>0, <1>1 DEF Tables
<1>3. ASSUME NEW b \in Bookings
      PROVE  /\ bookings'[b] \in BookingRow \cup {Null}
             /\ bookings'[b] # Null => \A k \in SlotsOf(bookings'[b]) : slots'[k] # Null
  <2>1. CASE bookings'[b] = bookings[b]
        BY <1>0, <1>2, <2>1, BookingFields
  <2>2. CASE /\ bookings[b] # Null /\ bookings'[b] \in BookingRow
             /\ SlotsOf(bookings'[b]) \subseteq SlotsOf(bookings[b]) \cup {i}
        BY <1>0, <1>1, <1>2, <2>2, BookingFields
  <2> QED BY <2>1, <2>2
<1>4. bookings' \in [Bookings -> BookingRow \cup {Null}]
      BY <1>3
<1> QED BY <1>1, <1>2, <1>3, <1>4, WritingTyped

\* A step that writes bookings only
LEMMA BookingsTyped ==
    ASSUME WellFormed, Typed, NEW c \in Calls, NEW next, NEW t, Goto(c, next, t), Fits(next, t),
           bookings' = [b \in Bookings |-> bookings'[b]],
           \A b \in Bookings : \/ bookings'[b] = bookings[b]
                               \/ /\ bookings'[b] \in BookingRow
                                  /\ \A i \in SlotsOf(bookings'[b]) : slots[i] # Null,
           UNCHANGED <<slots, created, series, frequency, now>>
    PROVE  Typed'
<1>0. Tables
      BY DEF Typed
<1>1. /\ slots' \in [Ids -> Slot \cup {Null}] /\ created' <= MaxSlots
      /\ \A k \in Ids : /\ slots[k] # Null => slots'[k] # Null
                        /\ slots'[k] # Null /\ slots'[k].inSeries => series # "none"
      BY <1>0 DEF Tables
<1>2. ASSUME NEW b \in Bookings
      PROVE  /\ bookings'[b] \in BookingRow \cup {Null}
             /\ bookings'[b] # Null => \A i \in SlotsOf(bookings'[b]) : slots'[i] # Null
      BY <1>0, BookingFields
<1>3. bookings' \in [Bookings -> BookingRow \cup {Null}]
      BY <1>2
<1> QED BY <1>1, <1>2, <1>3, WritingTyped

LEMMA UpdatedType ==
    ASSUME NEW r \in Slot, NEW t \in LocalType, t.start \in Nat
    PROVE  Updated(r, t) \in Slot /\ Updated(r, t).inSeries = r.inSeries
<1> DEFINE start == IF "start" \in t.fields THEN t.start ELSE r.start
           coach == IF "coach" \in t.fields THEN t.coach ELSE r.coach
           capacity == IF "capacity" \in t.fields THEN t.capacity ELSE r.capacity
           active == IF "active" \in t.fields THEN t.active ELSE r.active
           cancelled == IF "cancelled" \in t.fields THEN t.cancelled ELSE r.cancelled
           overridden == IF t.coachChanged THEN t.coach # Null ELSE r.overridden
           n == [r EXCEPT !.start = start, !.coach = coach, !.capacity = capacity, !.active = active,
                          !.cancelled = cancelled, !.overridden = overridden]
<1>1. /\ r.start \in Nat /\ r.coach \in Coaches \cup {Null} /\ r.capacity \in Nat \cup {Null}
      /\ r.active \in BOOLEAN /\ r.cancelled \in BOOLEAN /\ r.overridden \in BOOLEAN
      BY DEF Slot
<1>2. /\ t.coach \in Coaches \cup {Null} /\ t.capacity \in Nat \cup {Null}
      /\ t.active \in BOOLEAN /\ t.cancelled \in BOOLEAN
      BY DEF LocalType
<1>3. /\ start \in Nat /\ coach \in Coaches \cup {Null} /\ capacity \in Nat \cup {Null}
      BY <1>1, <1>2
<1>4. active \in BOOLEAN /\ cancelled \in BOOLEAN
      BY <1>1, <1>2
<1>5. overridden \in BOOLEAN
      BY <1>1
<1>6. Updated(r, t) = n
      BY DEF Updated
<1> HIDE DEF start, coach, capacity, active, cancelled, overridden
<1>7. n \in Slot /\ n.inSeries = r.inSeries
      BY <1>3, <1>4, <1>5 DEF Slot
<1> QED BY <1>6, <1>7

LEMMA UpdateTyped == ASSUME WellFormed, Typed, NEW c \in Calls, UpdateSlot(c) PROVE Typed'
<1> DEFINE t == tx[c]
           i == tx[c].slot
           n == Updated(slots[i], t)
           possible == Exists(i) /\ ("start" \in t.fields => SlotsAt(t.start) \subseteq {i})
<1>0. /\ Tables /\ t \in LocalType /\ i \in Ids /\ pc[c] = "update"
      /\ t.start \in Nat
      /\ UNCHANGED <<created, series, frequency, bookings, now>>
      BY DEF UpdateSlot, Typed, TypedAt, WellFormed, HandlerOK, OnSlot, OnDay
<1>1. Fits("cascade", t)
      BY <1>0 DEF Fits, OnDay, OnSeriesGroup
<1>2. CASE ~possible
  <2>1. UNCHANGED slots /\ Goto(c, "done", NoTx)
        BY <1>2 DEF UpdateSlot, Answer
  <2> QED BY <1>0, <2>1, DoneFits, ReadingTyped
<1>3. CASE possible
  <2>1. slots[i] # Null /\ slots' = [slots EXCEPT ![i] = n]
        BY <1>3 DEF UpdateSlot, Exists
  <2>2. slots[i] \in Slot
        BY <1>0, <2>1, SlotFields
  <2>6. n \in Slot /\ n.inSeries = slots[i].inSeries
        BY <1>0, <2>2, UpdatedType
  <2> HIDE DEF n
  <2>7. bookings' = [b \in Bookings |-> bookings'[b]]
        BY <1>0 DEF Tables
  <2>8. Goto(c, "cascade", t) \/ Goto(c, "done", NoTx)
        BY <1>3 DEF UpdateSlot, Answer
  <2>9. CASE Goto(c, "cascade", t)
        BY <1>0, <1>1, <2>1, <2>6, <2>7, <2>9, RewritingTyped
  <2>10. CASE Goto(c, "done", NoTx)
        BY <1>0, <2>1, <2>6, <2>7, <2>10, DoneFits, RewritingTyped
  <2> QED BY <2>8, <2>9, <2>10
<1> QED BY <1>2, <1>3

LEMMA CascadeTyped == ASSUME WellFormed, Typed, NEW c \in Calls, Cascade(c) PROVE Typed'
<1> DEFINE t == tx[c]
<1>0. /\ Tables /\ t \in LocalType /\ t.start \in Nat
      /\ UNCHANGED <<slots, created, series, frequency, now>> /\ Goto(c, "done", NoTx)
      /\ bookings' = [b \in Bookings |->
                        IF b \in Seated(t.slot)
                        THEN [bookings[b] EXCEPT !.start = IF "start" \in t.cascaded THEN t.start ELSE @,
                                                 !.coach = IF "coach" \in t.cascaded THEN t.coach ELSE @]
                        ELSE bookings[b]]
      BY DEF Cascade, Typed, TypedAt, slotVars, Answer, OnDay
<1>1. ASSUME NEW b \in Bookings
      PROVE  \/ bookings'[b] = bookings[b]
             \/ /\ bookings'[b] \in BookingRow
                /\ \A i \in SlotsOf(bookings'[b]) : slots[i] # Null
  <2>1. CASE b \notin Seated(t.slot)
        BY <1>0, <2>1
  <2>2. CASE b \in Seated(t.slot)
    <3>1. bookings[b] # Null
          BY <2>2 DEF Seated, Counted
    <3>2. bookings[b] \in BookingRow /\ bookings[b].start \in Nat /\ bookings[b].coach \in Coaches \cup {Null}
          BY <1>0, <3>1, BookingFields DEF BookingRow
    <3> DEFINE start == IF "start" \in t.cascaded THEN t.start ELSE bookings[b].start
               coach == IF "coach" \in t.cascaded THEN t.coach ELSE bookings[b].coach
    <3>3. start \in Nat /\ coach \in Coaches \cup {Null}
          BY <1>0, <3>2 DEF LocalType
    <3>4. bookings'[b] = [bookings[b] EXCEPT !.start = start, !.coach = coach]
          BY <1>0, <2>2
    <3> HIDE DEF start, coach
    <3>5. /\ bookings'[b] \in BookingRow /\ bookings'[b].slot = bookings[b].slot
          /\ bookings'[b].attendance = bookings[b].attendance
          BY <3>2, <3>3, <3>4 DEF BookingRow
    <3> QED BY <1>0, <3>1, <3>5, BookingFields, SameSlots
  <2> QED BY <2>1, <2>2
<1>2. bookings' = [b \in Bookings |-> bookings'[b]]
      BY <1>0
<1> QED BY <1>0, <1>1, <1>2, DoneFits, BookingsTyped

\* What Orphaned makes of a row
Unlinked(r, i) ==
    [r EXCEPT !.slot = IF @ = i THEN Null ELSE @,
              !.attendance = IF @ # Null /\ @.log = i THEN Null ELSE @]

LEMMA UnlinkedRow ==
    ASSUME NEW r \in BookingRow, NEW i \in Ids
    PROVE  Unlinked(r, i) \in BookingRow /\ SlotsOf(Unlinked(r, i)) = SlotsOf(r) \ {i}
<1> DEFINE slot == IF r.slot = i THEN Null ELSE r.slot
           attendance == IF r.attendance # Null /\ r.attendance.log = i THEN Null ELSE r.attendance
           n == [r EXCEPT !.slot = slot, !.attendance = attendance]
<1>1. slot \in Ids \cup {Null} /\ attendance \in AttendanceRow \cup {Null}
      BY DEF BookingRow
<1>2. Unlinked(r, i) = n
      BY DEF Unlinked
<1>3. {slot} \ {Null} = {r.slot} \ {Null, i}
      BY IdsAreNumbers
<1>4. (IF attendance = Null THEN {} ELSE {attendance.log}) =
        (IF r.attendance = Null THEN {} ELSE {r.attendance.log}) \ {i}
      OBVIOUS
<1> HIDE DEF slot, attendance
<1>5. n \in BookingRow /\ n.slot = slot /\ n.attendance = attendance
      BY <1>1 DEF BookingRow
<1>6. SlotsOf(n) = SlotsOf(r) \ {i}
      BY <1>3, <1>4, <1>5 DEF SlotsOf
<1> QED BY <1>2, <1>5, <1>6

LEMMA DeletionTyped ==
    ASSUME WellFormed, Typed, NEW c \in Calls, DeleteSlot(c) \/ DeleteSeries(c) PROVE Typed'
<1> DEFINE t == tx[c]
           i == tx[c].slot
<1>0. Tables /\ t \in LocalType
      BY DEF Typed, TypedAt
<1>1. CASE DeleteSlot(c)
  <2>0. i \in Ids /\ locks[i] = Null /\ UNCHANGED <<created, series, frequency, now>>
        BY <1>1 DEF DeleteSlot, WellFormed, HandlerOK, OnSlot
  <2>1. CASE ~Exists(i)
    <3>1. UNCHANGED <<slots, bookings>> /\ Goto(c, "done", NoTx)
          BY <1>1, <2>1 DEF DeleteSlot, Answer
    <3> QED BY <2>0, <3>1, DoneFits, ReadingTyped
  <2>2. CASE Exists(i)
    <3>1. /\ slots[i] # Null /\ slots' = [slots EXCEPT ![i] = Null] /\ bookings' = Orphaned(i)
          /\ IF slots[i].inSeries THEN Goto(c, "countSeries", t) ELSE Goto(c, "done", NoTx)
          BY <1>1, <2>2 DEF DeleteSlot, Exists, Answer
    <3>2. /\ slots' \in [Ids -> Slot \cup {Null}] /\ created' <= MaxSlots
          /\ slots'[i] = Null /\ \A k \in Ids \ {i} : slots'[k] = slots[k]
          BY <1>0, <2>0, <3>1 DEF Tables
    <3>3. ASSUME NEW k \in Ids
          PROVE  /\ slots[k] # Null => slots'[k] # Null \/ locks[k] = Null
                 /\ slots'[k] # Null /\ slots'[k].inSeries => series # "none"
          BY <1>0, <2>0, <3>2 DEF Tables
    <3>4. ASSUME NEW b \in Bookings
          PROVE  /\ bookings'[b] \in BookingRow \cup {Null}
                 /\ bookings'[b] # Null => \A k \in SlotsOf(bookings'[b]) : slots'[k] # Null
      <4>1. CASE bookings[b] # Null
        <5>1. /\ bookings[b] \in BookingRow /\ SlotsOf(bookings[b]) \subseteq Ids
              /\ \A k \in SlotsOf(bookings[b]) : slots[k] # Null
              BY <1>0, <4>1, BookingFields
        <5>2. bookings'[b] = Unlinked(bookings[b], i)
              BY <3>1, <4>1 DEF Orphaned, Unlinked
        <5>3. bookings'[b] \in BookingRow /\ SlotsOf(bookings'[b]) = SlotsOf(bookings[b]) \ {i}
              BY <2>0, <5>1, <5>2, UnlinkedRow
        <5> QED BY <3>2, <5>1, <5>3
      <4>2. CASE bookings[b] = Null
            BY <3>1, <4>2 DEF Orphaned
      <4> QED BY <4>1, <4>2
    <3>5. bookings' \in [Bookings -> BookingRow \cup {Null}]
          BY <3>1, <3>4 DEF Orphaned
    <3>6. slots[i].inSeries => Fits("countSeries", t)
          BY <1>0, <2>0, <3>1 DEF Fits, OnDay, Tables
    <3>7. CASE slots[i].inSeries
          BY <2>0, <3>1, <3>2, <3>3, <3>4, <3>5, <3>6, <3>7, WritingTyped
    <3>8. CASE ~slots[i].inSeries
          BY <2>0, <3>1, <3>2, <3>3, <3>4, <3>5, <3>8, DoneFits, WritingTyped
    <3> QED BY <3>7, <3>8
  <2> QED BY <2>1, <2>2
<1>2. CASE DeleteSeries(c)
  <2>1. /\ series' = "deleted" /\ Goto(c, "done", NoTx) /\ UNCHANGED <<created, frequency, bookings, now>>
        /\ slots' = [k \in Ids |-> IF k \in SeriesSlots THEN [slots[k] EXCEPT !.inSeries = FALSE] ELSE slots[k]]
        /\ series # "none"
        BY <1>2 DEF DeleteSeries, Answer, Typed, TypedAt, OnSeriesGroup
  <2>2. ASSUME NEW k \in Ids
        PROVE  /\ slots'[k] \in Slot \cup {Null} /\ (slots'[k] = Null <=> slots[k] = Null)
    <3>1. CASE k \in SeriesSlots
      <4>1. slots[k] # Null /\ slots[k] \in Slot
            BY <1>0, <3>1, SlotFields DEF SeriesSlots, Exists
      <4>2. slots'[k] = [slots[k] EXCEPT !.inSeries = FALSE]
            BY <2>1, <3>1
      <4>3. slots'[k] \in Slot
            BY <4>1, <4>2 DEF Slot
      <4> QED BY <4>1, <4>3, NullApart
    <3>2. CASE k \notin SeriesSlots
          BY <1>0, <2>1, <3>2 DEF Tables
    <3> QED BY <3>1, <3>2
  <2>3. slots' \in [Ids -> Slot \cup {Null}]
        BY <2>1, <2>2
  <2>4. ASSUME NEW b \in Bookings, bookings'[b] # Null, NEW k \in SlotsOf(bookings'[b])
        PROVE  slots'[k] # Null
    <3>1. bookings'[b] = bookings[b] /\ k \in Ids /\ slots[k] # Null
          BY <1>0, <2>1, <2>4, BookingFields
    <3> QED BY <2>2, <3>1
  <2>5. Tables'
    <3>1. /\ series' \in SeriesStates /\ series' # "none" /\ frequency' \in Frequencies
          /\ created' <= MaxSlots /\ now' \in Nat
          BY <1>0, <2>1 DEF Tables, SeriesStates
    <3>2. bookings' \in [Bookings -> BookingRow \cup {Null}]
          BY <1>0, <2>1 DEF Tables
    <3> QED BY <2>3, <2>4, <3>1, <3>2 DEF Tables
  <2>6. ASSUME NEW d \in Calls \ {c}, pc[d] = "book" PROVE Exists(tx[d].slot)'
    <3>1. Exists(tx[d].slot) /\ tx'[d] = tx[d] /\ tx[d].slot \in Ids
          BY <2>1, <2>6 DEF Typed, TypedAt, Goto, WellFormed, Handlers, HandlerOK, OnSlot
    <3> QED BY <2>2, <3>1 DEF Exists
  <2> QED BY <2>1, <2>5, <2>6, DoneFits, TypedStep
<1> QED BY <1>1, <1>2

\* A cancellation, a reveal and a log rewrite a slot that still exists, and the bookings it has.
LEMMA SessionTyped ==
    ASSUME WellFormed, Typed, NEW c \in Calls, CancelSlot(c) \/ RevealCoach(c) \/ LogSession(c)
    PROVE  Typed'
<1> DEFINE t == tx[c]
           i == tx[c].slot
<1>0. /\ Tables /\ t \in LocalType /\ i \in Ids /\ Goto(c, "done", NoTx)
      /\ UNCHANGED <<created, series, frequency, now>>
  <2>1. pc[c] \in OnSlot
        BY DEF CancelSlot, RevealCoach, LogSession, OnSlot
  <2>2. i \in Ids
        BY <2>1 DEF WellFormed, HandlerOK
  <2>3. Goto(c, "done", NoTx) /\ UNCHANGED <<created, series, frequency, now>>
        BY DEF CancelSlot, RevealCoach, LogSession, Answer
  <2> QED BY <2>2, <2>3 DEF Typed, TypedAt
<1>1. CASE ~Exists(i)
  <2>1. UNCHANGED <<slots, bookings>>
        BY <1>1 DEF CancelSlot, RevealCoach, LogSession
  <2> QED BY <1>0, <2>1, DoneFits, ReadingTyped
<1>2. CASE Exists(i)
  <2>0. slots[i] # Null /\ slots[i] \in Slot
        BY <1>0, <1>2, SlotFields DEF Exists
  <2>1. slots[i].coach \in Coaches \cup {Null} /\ t.coach \in Coaches \cup {Null}
        BY <1>0, <2>0 DEF Slot, LocalType
  <2>2. CASE CancelSlot(c)
    <3> DEFINE n == [slots[i] EXCEPT !.cancelled = TRUE, !.active = FALSE]
               cancelled == {b \in Seated(i) : bookings[b].status \in {"PENDING", "CONFIRMED"}}
    <3>1. /\ slots' = [slots EXCEPT ![i] = n]
          /\ bookings' = [b \in Bookings |-> IF b \in cancelled
                                             THEN [bookings[b] EXCEPT !.status = "CANCELLED"]
                                             ELSE bookings[b]]
          BY <1>2, <2>2 DEF CancelSlot
    <3>2. n \in Slot /\ n.inSeries = slots[i].inSeries
          BY <2>0 DEF Slot
    <3>3. ASSUME NEW b \in Bookings
          PROVE  \/ bookings'[b] = bookings[b]
                 \/ /\ bookings[b] # Null /\ bookings'[b] \in BookingRow
                    /\ SlotsOf(bookings'[b]) \subseteq SlotsOf(bookings[b]) \cup {i}
      <4>1. CASE b \in cancelled
        <5>1. bookings[b] # Null /\ bookings'[b] = [bookings[b] EXCEPT !.status = "CANCELLED"]
              BY <3>1, <4>1 DEF Seated, Counted
        <5>2. bookings[b] \in BookingRow
              BY <1>0, <5>1, BookingFields
        <5>3. /\ bookings'[b] \in BookingRow /\ bookings'[b].slot = bookings[b].slot
              /\ bookings'[b].attendance = bookings[b].attendance
              BY <5>1, <5>2 DEF BookingRow, Statuses
        <5> QED BY <5>1, <5>3, SameSlots
      <4>2. CASE b \notin cancelled
            BY <3>1, <4>2
      <4> QED BY <4>1, <4>2
    <3>4. bookings' = [b \in Bookings |-> bookings'[b]]
          BY <3>1
    <3> HIDE DEF n
    <3> QED BY <1>0, <2>0, <3>1, <3>2, <3>3, <3>4, DoneFits, RewritingTyped
  <2>3. ASSUME NEW coach \in Coaches \cup {Null}, NEW n \in Slot, n.inSeries = slots[i].inSeries,
               slots' = [slots EXCEPT ![i] = n], bookings' = Revealed(i, coach)
        PROVE  Typed'
    <3>1. ASSUME NEW b \in Bookings
          PROVE  \/ bookings'[b] = bookings[b]
                 \/ /\ bookings[b] # Null /\ bookings'[b] \in BookingRow
                    /\ SlotsOf(bookings'[b]) \subseteq SlotsOf(bookings[b]) \cup {i}
      <4>1. CASE b \in Seated(i)
        <5>1. bookings[b] # Null /\ bookings'[b] = [bookings[b] EXCEPT !.coach = coach]
              BY <2>3, <4>1 DEF Seated, Counted, Revealed
        <5>2. bookings[b] \in BookingRow
              BY <1>0, <5>1, BookingFields
        <5>3. /\ bookings'[b] \in BookingRow /\ bookings'[b].slot = bookings[b].slot
              /\ bookings'[b].attendance = bookings[b].attendance
              BY <2>3, <5>1, <5>2 DEF BookingRow
        <5> QED BY <5>1, <5>3, SameSlots
      <4>2. CASE b \notin Seated(i)
            BY <2>3, <4>2 DEF Revealed
      <4> QED BY <4>1, <4>2
    <3>2. bookings' = [b \in Bookings |-> bookings'[b]]
          BY <2>3 DEF Revealed
    <3> QED BY <1>0, <2>0, <2>3, <3>1, <3>2, DoneFits, RewritingTyped
  <2>4. CASE RevealCoach(c)
    <3> DEFINE n == [slots[i] EXCEPT !.coach = t.coach, !.revealed = TRUE]
    <3>1. slots' = [slots EXCEPT ![i] = n] /\ bookings' = Revealed(i, t.coach)
          BY <1>2, <2>4 DEF RevealCoach
    <3>2. n \in Slot /\ n.inSeries = slots[i].inSeries
          BY <2>0, <2>1 DEF Slot
    <3> HIDE DEF n
    <3> QED BY <2>1, <2>3, <3>1, <3>2
  <2>5. CASE LogSession(c)
    <3> DEFINE coach == Given(t.coach, slots[i].coach)
               n == [slots[i] EXCEPT !.logged = TRUE, !.coach = coach]
    <3>1. /\ slots' = [slots EXCEPT ![i] = n]
          /\ bookings' = IF t.coach # Null THEN Revealed(i, t.coach)
                         ELSE [b \in Bookings |-> IF b \in t.noted /\ bookings[b] # Null
                                                 THEN Attended(b, t) ELSE bookings[b]]
          BY <1>2, <2>5 DEF LogSession
    <3>2. coach \in Coaches \cup {Null}
          BY <2>1 DEF Given
    <3>3. n \in Slot /\ n.inSeries = slots[i].inSeries
      <4> HIDE DEF coach
      <4> QED BY <2>0, <3>2 DEF Slot
    <3> HIDE DEF n
    <3>4. CASE t.coach # Null
          BY <2>1, <2>3, <3>1, <3>3, <3>4
    <3>5. CASE t.coach = Null
      <4>1. bookings' = [b \in Bookings |-> IF b \in t.noted /\ bookings[b] # Null
                                           THEN Attended(b, t) ELSE bookings[b]]
            BY <3>1, <3>5
      <4>2. ASSUME NEW b \in Bookings
            PROVE  \/ bookings'[b] = bookings[b]
                   \/ /\ bookings[b] # Null /\ bookings'[b] \in BookingRow
                      /\ SlotsOf(bookings'[b]) \subseteq SlotsOf(bookings[b]) \cup {i}
        <5>1. CASE b \in t.noted /\ bookings[b] # Null
          <6> DEFINE attended == b \in t.present
                     log == IF bookings[b].attendance = Null THEN t.slot ELSE bookings[b].attendance.log
                     row == [log |-> log, attended |-> attended]
                     status == IF b \notin t.open THEN bookings[b].status
                               ELSE IF b \in t.present THEN "COMPLETED" ELSE "NO_SHOW"
          <6>1. bookings[b] \in BookingRow
                BY <1>0, <5>1, BookingFields
          <6>2. bookings'[b] = [bookings[b] EXCEPT !.attendance = row, !.status = status]
                BY <4>1, <5>1 DEF Attended
          <6>3. /\ attended \in BOOLEAN /\ status \in Statuses
                /\ log \in Ids /\ {log} \subseteq SlotsOf(bookings[b]) \cup {i}
            <7>1. bookings[b].attendance \in AttendanceRow \cup {Null} /\ bookings[b].status \in Statuses
                  BY <6>1 DEF BookingRow
            <7>2. bookings[b].attendance # Null => bookings[b].attendance.log \in Ids
                  BY <7>1 DEF AttendanceRow
            <7> QED BY <1>0, <7>1, <7>2, IdsAreNumbers DEF SlotsOf, Statuses
          <6>5. row \in AttendanceRow /\ row.log = log
            <7> HIDE DEF attended, log
            <7> QED BY <6>3 DEF AttendanceRow
          <6> HIDE DEF attended, status, log, row
          <6>4. /\ bookings'[b] \in BookingRow /\ bookings'[b].slot = bookings[b].slot
                /\ bookings'[b].attendance = row
                BY <6>1, <6>2, <6>3, <6>5 DEF BookingRow
          <6>7. SlotsOf(bookings'[b]) \subseteq SlotsOf(bookings[b]) \cup {i}
                BY <6>3, <6>4, <6>5 DEF SlotsOf
          <6> QED BY <5>1, <6>4, <6>7
        <5>2. CASE ~(b \in t.noted /\ bookings[b] # Null)
              BY <4>1, <5>2
        <5> QED BY <5>1, <5>2
      <4>3. bookings' = [b \in Bookings |-> bookings'[b]]
            BY <4>1
      <4> QED BY <1>0, <2>0, <3>1, <3>3, <4>2, <4>3, DoneFits, RewritingTyped
    <3> QED BY <3>4, <3>5
  <2> QED BY <2>2, <2>4, <2>5
<1> QED BY <1>1, <1>2

LEMMA StudentTyped ==
    ASSUME WellFormed, Typed, NEW c \in Calls, TakeSeat(c) \/ BookSeat(c)
    PROVE  Typed'
<1> DEFINE t == tx[c]
<1>0. /\ Tables /\ t \in LocalType /\ t.start \in Nat /\ t.slot \in Ids /\ t.booking \in Bookings
      /\ UNCHANGED <<slots, created, series, frequency, now>>
  <2>1. pc[c] \in {"seat", "book"} /\ pc[c] \in OnSlot /\ pc[c] \in OnDay
        /\ UNCHANGED <<slots, created, series, frequency, now>>
        BY DEF TakeSeat, BookSeat, OnSlot, OnDay, slotVars
  <2>2. t.slot \in Ids /\ t.booking \in Bookings
        BY <2>1 DEF WellFormed, HandlerOK
  <2> QED BY <2>1, <2>2 DEF Typed, TypedAt
<1>1. CASE TakeSeat(c)
  <2>1. UNCHANGED bookings
        BY <1>1 DEF TakeSeat
  <2>2. CASE Goto(c, "done", NoTx)
        BY <1>0, <2>1, <2>2, DoneFits, ReadingTyped
  <2>3. CASE ~Goto(c, "done", NoTx)
    <3> DEFINE taken == {b \in Bookings : Counted(b) /\ bookings[b].start = t.start}
    <3>1. PICK coach \in IF slots[t.slot].coach # Null THEN {slots[t.slot].coach}
                         ELSE IF taken # {} THEN {bookings[b].coach : b \in taken}
                         ELSE Coaches :
            Goto(c, "book", [t EXCEPT !.coach = coach]) /\ Exists(t.slot)
          BY <1>1, <2>3 DEF TakeSeat, Answer
    <3>2. slots[t.slot].coach \in Coaches \cup {Null}
          BY <1>0, <3>1, SlotFields DEF Exists
    <3>3. \A b \in taken : bookings[b].coach \in Coaches \cup {Null}
          BY <1>0, BookingFields DEF Counted
    <3>4. coach \in Coaches \cup {Null}
          BY <3>1, <3>2, <3>3
    <3> DEFINE u == [t EXCEPT !.coach = coach]
    <3>5. u \in LocalType /\ u.start = t.start /\ u.slot = t.slot
          BY <1>0, <3>4 DEF LocalType
    <3> HIDE DEF u
    <3>6. Fits("book", u)
          BY <1>0, <3>1, <3>5 DEF Fits, OnSeriesGroup, Exists
    <3> QED BY <1>0, <2>1, <3>1, <3>6, ReadingTyped DEF u
  <2> QED BY <2>2, <2>3
<1>2. CASE BookSeat(c)
  <2> DEFINE row == [status |-> "CONFIRMED", slot |-> t.slot, start |-> t.start,
                     coach |-> t.coach,
                     attendance |-> IF bookings[t.booking] = Null THEN Null ELSE bookings[t.booking].attendance]
  <2>1. /\ bookings' = [bookings EXCEPT ![t.booking] = row] /\ Goto(c, "done", NoTx)
        /\ slots[t.slot] # Null
        BY <1>2 DEF BookSeat, Answer, Typed, TypedAt, Exists
  <2>5. row.attendance \in AttendanceRow \cup {Null}
        BY <1>0, BookingFields DEF BookingRow
  <2>6. /\ row.slot = t.slot
        /\ row.attendance = IF bookings[t.booking] = Null THEN Null ELSE bookings[t.booking].attendance
        OBVIOUS
  <2>2. /\ row \in BookingRow
        /\ SlotsOf(row) \subseteq {t.slot} \cup
             (IF bookings[t.booking] = Null THEN {} ELSE SlotsOf(bookings[t.booking]))
    <3>1. row \in BookingRow
          BY <1>0, <2>5 DEF BookingRow, LocalType, Statuses
    <3> HIDE DEF row
    <3>2. CASE bookings[t.booking] = Null
          BY <2>6, <3>1, <3>2 DEF SlotsOf
    <3>3. CASE bookings[t.booking] # Null
          BY <2>6, <3>1, <3>3 DEF SlotsOf
    <3> QED BY <3>1, <3>2, <3>3
  <2> HIDE DEF row
  <2>3. ASSUME NEW b \in Bookings
        PROVE  \/ bookings'[b] = bookings[b]
               \/ /\ bookings'[b] \in BookingRow
                  /\ \A i \in SlotsOf(bookings'[b]) : slots[i] # Null
    <3>1. CASE b = t.booking
      <4>1. bookings'[b] = row
            BY <1>0, <2>1, <3>1 DEF Tables
      <4>2. bookings[b] # Null => \A i \in SlotsOf(bookings[b]) : slots[i] # Null
            BY <1>0 DEF Tables
      <4> QED BY <2>1, <2>2, <3>1, <4>1, <4>2
    <3>2. CASE b # t.booking
          BY <1>0, <2>1, <3>2 DEF Tables
    <3> QED BY <3>1, <3>2
  <2>4. bookings' = [b \in Bookings |-> bookings'[b]]
        BY <1>0, <2>1 DEF Tables
  <2> QED BY <1>0, <2>1, <2>3, <2>4, DoneFits, BookingsTyped
<1> QED BY <1>1, <1>2

LEMMA InitTyped == Init => Typed
<1> SUFFICES ASSUME Init PROVE Typed
    OBVIOUS
<1>1. PICK s \in Initial : /\ slots = s.slots /\ series = s.series /\ frequency = s.frequency
                           /\ bookings = s.bookings
                           /\ created = Cardinality({x \in Ids : s.slots[x] # Null})
      BY DEF Init
<1>2. /\ slots \in [Ids -> Slot \cup {Null}] /\ bookings \in [Bookings -> BookingRow \cup {Null}]
      /\ series \in SeriesStates /\ frequency \in Frequencies \cup {Null}
      BY <1>1, SlotAdminAssumption
<1>3. created <= MaxSlots
  <2>1. IsFiniteSet(Ids) /\ Cardinality(Ids) = MaxSlots
        BY FS_Interval, SlotAdminAssumption DEF Ids
  <2>2. {x \in Ids : s.slots[x] # Null} \in SUBSET Ids
        OBVIOUS
  <2> QED BY <1>1, <2>1, <2>2, FS_Subset, FS_CardinalityType
<1>4. /\ series # "none" => frequency # Null
      /\ \A i \in Ids : slots[i] # Null /\ slots[i].inSeries => series \in {"active", "stopped"}
      /\ \A b \in Bookings : bookings[b] # Null =>
           bookings[b].attendance = Null /\ (bookings[b].slot # Null => slots[bookings[b].slot] # Null)
      BY <1>1, InitialAssumption
<1>5. Tables
  <2>1. now \in Nat
        BY DEF Init
  <2> QED BY <1>2, <1>3, <1>4, <2>1 DEF Tables, SlotsOf
<1>6. ASSUME NEW c \in Calls PROVE TypedAt(c)
  <2>1. pc[c] = "idle" /\ tx[c] = NoTx
        BY DEF Init
  <2> QED BY <2>1, NoTxTyped DEF TypedAt, OnDay, OnSeriesGroup
<1> QED BY <1>5, <1>6 DEF Typed

LEMMA StepTyped ==
    ASSUME EndlessCalendar, WellFormed, Typed, [Next]_vars
    PROVE  Typed'
<1>1. CASE UNCHANGED vars \/ Tick
  <2>1. UNCHANGED <<slots, created, series, frequency, bookings, pc, tx>> /\ now' \in Nat
        BY <1>1 DEF Tick, vars, slotVars, Typed, Tables
  <2>2. Tables'
        BY <2>1 DEF Typed, Tables
  <2>3. \A c \in Calls : TypedAt(c)'
        BY <2>1 DEF Typed, TypedAt, Exists
  <2> QED BY <2>2, <2>3 DEF Typed
<1>2. ASSUME NEW c \in Calls, Receive(c) PROVE Typed'
      BY <1>2, ReceiveTyped
<1>3. ASSUME NEW c \in Calls, GiveUp(c) PROVE Typed'
      BY <1>3, ReadsTyped
<1>4. ASSUME NEW c \in Calls, Serve(c) PROVE Typed'
  <2>1. CASE InsertSlot(c) \/ InsertSeries(c) \/ Replenish(c)
        BY <2>1, InsertionsTyped
  <2>2. CASE ReadSeries(c) \/ Deactivate(c) \/ ReadAnchor(c) \/ CountSeries(c)
        BY <2>2, ReadsTyped
  <2>3. CASE UpdateSlot(c) \/ Cascade(c)
        BY <2>3, UpdateTyped, CascadeTyped
  <2>4. CASE DeleteSlot(c) \/ DeleteSeries(c)
        BY <2>4, DeletionTyped
  <2>5. CASE CancelSlot(c) \/ RevealCoach(c) \/ LogSession(c)
        BY <2>5, SessionTyped
  <2>6. CASE TakeSeat(c) \/ BookSeat(c)
        BY <2>6, StudentTyped
  <2> QED BY <1>4, <2>1, <2>2, <2>3, <2>4, <2>5, <2>6 DEF Serve
<1> QED BY <1>1, <1>2, <1>3, <1>4 DEF Next

LEMMA TypedIsTypeOK == ASSUME WellFormed, Typed PROVE TypeOK
<1>1. Tables /\ SlotRows /\ Handlers
      BY DEF Typed, WellFormed
<1>2. created \in 0..MaxSlots
      BY <1>1, SlotAdminAssumption DEF Tables, SlotRows
<1>3. ASSUME NEW i \in Ids, i > created PROVE slots[i] = Null
      BY <1>1, <1>3, IdsAreNumbers DEF SlotRows
<1>4. tx \in [Calls -> LocalType]
  <2>1. tx = [c \in Calls |-> tx[c]]
        BY <1>1 DEF Handlers
  <2>2. \A c \in Calls : tx[c] \in LocalType
        BY DEF Typed, TypedAt
  <2> QED BY <2>1, <2>2
<1>5. locks \in [Ids -> Calls \cup {Null}]
      BY <1>1 DEF Handlers
<1>6. ASSUME NEW b \in Bookings, bookings[b] # Null
      PROVE  /\ bookings[b].slot # Null => Exists(bookings[b].slot)
             /\ bookings[b].attendance # Null => Exists(bookings[b].attendance.log)
  <2>1. \A i \in SlotsOf(bookings[b]) : slots[i] # Null
        BY <1>1, <1>6 DEF Tables
  <2>2. bookings[b].attendance \in AttendanceRow \cup {Null}
        BY <1>1, <1>6, BookingFields DEF BookingRow
  <2>3. bookings[b].attendance # Null => bookings[b].attendance.log # Null
        BY <2>2, NullApart DEF AttendanceRow
  <2> QED BY <2>1, <2>3 DEF SlotsOf, Exists
<1> QED BY <1>1, <1>2, <1>3, <1>4, <1>5, <1>6 DEF TypeOK, Tables

\* Whatever the handlers interleave, the tables hold what their columns may hold, no row has an
\* identifier that was not given out, and no booking or attendance refers to a slot that is gone.
THEOREM SlotTypes ==
    ASSUME EndlessCalendar
    PROVE  Spec => []TypeOK
<1>1. Init => Typed
      BY InitTyped
<1>2. WellFormed /\ Typed /\ [Next]_vars => Typed'
      BY StepTyped
<1>3. WellFormed /\ Typed => TypeOK
      BY TypedIsTypeOK
<1> QED BY WellFormedInvariant, <1>1, <1>2, <1>3, PTL DEF Spec

-----------------------------------------------------------------------------
(* The days of a series *)

DayOf(x) == x - MonthOf(x)
Lengths(x, y) == {MonthAfter(m) - 1 - m : m \in {k \in MonthStarts : MonthOf(x) <= k /\ k <= y}}

\* A series that has a session on day x has one on the later day y; the first of a THRICE_A_WEEK
\* series is on day a.
Follows(f, a, x, y) ==
    CASE f = "WEEKLY"                         -> (y - x) % 7 = 0
      [] f \in {"BI_WEEKLY", "TWICE_A_MONTH"} -> (y - x) % 14 = 0
      [] f = "THRICE_A_WEEK"                  -> (y - a) % 7 \in {0, 2, 4}
      [] f = "MONTHLY"                        -> DayOf(y) = Min({DayOf(x)} \cup Lengths(x, y))

\* A day that starts the sequence of its successors
Starts(f, a, x) == f = "THRICE_A_WEEK" => (x - a) % 7 \in {0, 2, 4}

LEMMA MinimumIs ==
    ASSUME NEW T, T \subseteq Nat, T # {}, NEW v
    PROVE  v = Min(T) <=> v \in T /\ \A n \in T : v <= n
<1>1. Min(T) \in T /\ \A n \in T : Min(T) <= n
      BY LeastOf
<1>2. ASSUME v \in T, \A n \in T : v <= n PROVE v = Min(T)
  <2>1. v <= Min(T) /\ Min(T) <= v /\ v \in Nat /\ Min(T) \in Nat
        BY <1>1, <1>2
  <2> HIDE DEF Min
  <2> QED BY <2>1
<1> QED BY <1>1, <1>2

\* The months from x to y
LEMMA MonthsBetween ==
    ASSUME EndlessCalendar, NEW x \in Nat, NEW y \in Nat, x <= y
    PROVE  /\ DayOf(x) \in Nat /\ Lengths(x, y) \subseteq Nat /\ MonthOf(x) <= MonthOf(y)
           /\ \A n \in Lengths(x, x) : DayOf(x) <= n
<1>1. /\ MonthOf(x) \in MonthStarts /\ MonthOf(x) \in Nat /\ MonthOf(x) <= x
      /\ MonthOf(y) \in Nat /\ \A m \in MonthStarts : m <= y => m <= MonthOf(y)
      BY MonthBounds
<1>2. MonthStarts \subseteq Nat
      BY RecurrenceAssumption
<1>3. DayOf(x) \in Nat /\ MonthOf(x) <= MonthOf(y)
      BY <1>1 DEF DayOf
<1>4. ASSUME NEW m \in MonthStarts PROVE MonthAfter(m) - 1 - m \in Nat
  <2>1. m \in Nat
        BY <1>2
  <2>2. MonthAfter(m) \in Nat /\ m < MonthAfter(m)
        BY <2>1, MonthBounds
  <2> HIDE DEF MonthAfter
  <2> QED BY <2>1, <2>2
<1>5. Lengths(x, y) \subseteq Nat
      BY <1>4 DEF Lengths
<1>6. ASSUME NEW m \in MonthStarts, MonthOf(x) <= m, m <= x PROVE DayOf(x) <= MonthAfter(m) - 1 - m
  <2>1. m \in Nat /\ m <= MonthOf(x)
        BY <1>2, <1>6, MonthBounds
  <2>2. m = MonthOf(x)
        BY <1>1, <1>6, <2>1
  <2>3. /\ MonthAfter(m) \in MonthStarts /\ MonthAfter(m) \in Nat /\ m < MonthAfter(m)
        BY <2>1, MonthBounds
  <2>4. x < MonthAfter(m)
    <3>1. SUFFICES ASSUME MonthAfter(m) <= x PROVE FALSE
          BY <2>3
    <3>2. MonthAfter(m) <= MonthOf(x)
          BY <2>3, <3>1, MonthBounds
    <3> QED BY <1>1, <2>1, <2>2, <2>3, <3>2
  <2> HIDE DEF MonthAfter, MonthOf
  <2> QED BY <1>1, <2>1, <2>2, <2>3, <2>4 DEF DayOf
<1>7. \A n \in Lengths(x, x) : DayOf(x) <= n
      BY <1>6 DEF Lengths
<1> QED BY <1>3, <1>5, <1>7

LEMMA LengthsJoin ==
    ASSUME EndlessCalendar, NEW x \in Nat, NEW y \in Nat, NEW z \in Nat, x <= y, y <= z
    PROVE  Lengths(x, z) = Lengths(x, y) \cup Lengths(y, z)
<1> DEFINE M(u, v) == {k \in MonthStarts : MonthOf(u) <= k /\ k <= v}
<1>1. /\ MonthOf(x) \in Nat /\ MonthOf(y) \in Nat /\ MonthOf(x) <= MonthOf(y) /\ MonthOf(y) <= y
      BY MonthBounds, MonthsBetween
<1>2. M(x, z) = M(x, y) \cup M(y, z)
  <2>1. ASSUME NEW k \in MonthStarts
        PROVE  k \in M(x, z) <=> k \in M(x, y) \/ k \in M(y, z)
    <3>1. k \in Nat
          BY RecurrenceAssumption
    <3> HIDE DEF MonthOf
    <3> QED BY <1>1, <3>1
  <2> QED BY <2>1
<1>3. /\ Lengths(x, z) = {MonthAfter(m) - 1 - m : m \in M(x, z)}
      /\ Lengths(x, y) = {MonthAfter(m) - 1 - m : m \in M(x, y)}
      /\ Lengths(y, z) = {MonthAfter(m) - 1 - m : m \in M(y, z)}
      BY DEF Lengths
<1> HIDE DEF M
<1> QED BY <1>2, <1>3

\* What follows a day of the series that follows another one, follows it; and the other way round.
LEMMA MonthlyFollows ==
    ASSUME EndlessCalendar, NEW a, NEW x \in Nat, NEW y \in Nat, NEW z \in Nat, x <= y, y <= z,
           Follows("MONTHLY", a, x, y)
    PROVE  Follows("MONTHLY", a, x, z) <=> Follows("MONTHLY", a, y, z)
<1> DEFINE X == {DayOf(x)} \cup Lengths(x, y)
           Y == {DayOf(y)} \cup Lengths(y, z)
           Z == {DayOf(x)} \cup Lengths(x, z)
<1>1. /\ DayOf(x) \in Nat /\ DayOf(y) \in Nat /\ Lengths(x, y) \subseteq Nat /\ Lengths(y, z) \subseteq Nat
      /\ Lengths(x, z) = Lengths(x, y) \cup Lengths(y, z)
      BY MonthsBetween, LengthsJoin
<1>2. /\ X \subseteq Nat /\ X # {} /\ Y \subseteq Nat /\ Y # {} /\ Z \subseteq Nat /\ Z # {}
      /\ Z = X \cup Lengths(y, z)
      BY <1>1
<1>3. DayOf(y) = Min(X)
      BY DEF Follows
<1>4. DayOf(y) \in X /\ \A n \in X : DayOf(y) <= n
      BY <1>2, <1>3, MinimumIs
<1>5. DayOf(z) = Min(Z) <=> DayOf(z) \in Z /\ \A n \in Z : DayOf(z) <= n
      BY <1>2, MinimumIs
<1>6. DayOf(z) = Min(Y) <=> DayOf(z) \in Y /\ \A n \in Y : DayOf(z) <= n
      BY <1>2, MinimumIs
<1>7. /\ Follows("MONTHLY", a, x, z) <=> DayOf(z) = Min(Z)
      /\ Follows("MONTHLY", a, y, z) <=> DayOf(z) = Min(Y)
      BY DEF Follows
<1>8. Y = {DayOf(y)} \cup Lengths(y, z)
      OBVIOUS
<1> HIDE DEF X, Y, Z
<1> DEFINE v == DayOf(z)
           w == DayOf(y)
           L == Lengths(y, z)
<1>9. /\ w \in X /\ (\A n \in X : w <= n) /\ X \subseteq Nat /\ Z = X \cup L /\ Y = {w} \cup L
      /\ L \subseteq Nat
      BY <1>1, <1>2, <1>4, <1>8
<1> HIDE DEF v, w, L
<1>10. ASSUME v \in Z, \A n \in Z : v <= n PROVE v \in Y /\ \A n \in Y : v <= n
  <2>1. CASE v \in X
    <3>1. v <= w /\ w <= v /\ v \in Nat /\ w \in Nat
          BY <1>9, <1>10, <2>1
    <3>2. v = w
          BY <3>1
    <3> QED BY <1>9, <1>10, <3>2
  <2>2. CASE v \in L
        BY <1>9, <1>10, <2>2
  <2> QED BY <1>9, <1>10, <2>1, <2>2
<1>11. ASSUME v \in Y, \A n \in Y : v <= n PROVE v \in Z /\ \A n \in Z : v <= n
  <2>1. v \in Nat /\ w \in Nat /\ v <= w
        BY <1>9, <1>11
  <2>2. \A n \in X : v <= n
    <3>1. ASSUME NEW n \in X PROVE v <= n
      <4>1. w <= n /\ n \in Nat
            BY <1>9
      <4> QED BY <2>1, <4>1
    <3> QED BY <3>1
  <2> QED BY <1>9, <1>11, <2>2
<1> QED BY <1>5, <1>6, <1>7, <1>10, <1>11 DEF v

LEMMA FollowsOn ==
    ASSUME EndlessCalendar, NEW f \in Frequencies, NEW a \in Nat,
           NEW x \in Nat, NEW y \in Nat, NEW z \in Nat, x <= y, y <= z, Follows(f, a, x, y)
    PROVE  Follows(f, a, x, z) <=> Follows(f, a, y, z)
<1>1. CASE f = "WEEKLY"
  <2>1. (y - x) % 7 = 0
        BY <1>1 DEF Follows
  <2>2. (z - x) % 7 = 0 <=> (z - y) % 7 = 0
        BY <2>1
  <2> QED BY <1>1, <2>2 DEF Follows
<1>2. CASE f \in {"BI_WEEKLY", "TWICE_A_MONTH"}
  <2>1. (y - x) % 14 = 0
        BY <1>2 DEF Follows
  <2>2. (z - x) % 14 = 0 <=> (z - y) % 14 = 0
        BY <2>1
  <2> QED BY <1>2, <2>2 DEF Follows
<1>3. CASE f = "THRICE_A_WEEK"
      BY <1>3 DEF Follows
<1>4. CASE f = "MONTHLY"
      BY <1>4, MonthlyFollows
<1> QED BY <1>1, <1>2, <1>3, <1>4 DEF Frequencies

LEMMA FollowsItself ==
    ASSUME EndlessCalendar, NEW f \in Frequencies, NEW a \in Nat, NEW x \in Nat, Starts(f, a, x)
    PROVE  Follows(f, a, x, x)
<1>1. CASE f \in {"WEEKLY", "BI_WEEKLY", "TWICE_A_MONTH"}
  <2>1. (x - x) % 7 = 0 /\ (x - x) % 14 = 0
        OBVIOUS
  <2> QED BY <1>1, <2>1 DEF Follows
<1>2. CASE f = "THRICE_A_WEEK"
      BY <1>2 DEF Follows, Starts
<1>3. CASE f = "MONTHLY"
  <2> DEFINE T == {DayOf(x)} \cup Lengths(x, x)
  <2>1. DayOf(x) \in Nat /\ Lengths(x, x) \subseteq Nat /\ \A n \in Lengths(x, x) : DayOf(x) <= n
        BY MonthsBetween
  <2>2. T \subseteq Nat /\ T # {} /\ DayOf(x) \in T /\ \A n \in T : DayOf(x) <= n
        BY <2>1
  <2> HIDE DEF T
  <2>3. DayOf(x) = Min(T)
        BY <2>2, MinimumIs
  <2> QED BY <1>3, <2>3 DEF Follows, T
<1> QED BY <1>1, <1>2, <1>3 DEF Frequencies

\* The place of a day in the cycle of a THRICE_A_WEEK series that began on day a
InCycle(f, a, x, index) == f = "THRICE_A_WEEK" => CyclePhase(x - a) = index % 3

\* advanceRecurrenceFloating steps to the next day of the series, past none.
LEMMA NextDate ==
    ASSUME EndlessCalendar, NEW f \in Frequencies, NEW a \in Nat, NEW x \in Nat, NEW index \in Nat,
           Starts(f, a, x), InCycle(f, a, x, index)
    PROVE  LET y == Advance(x, f, index)
           IN  /\ y \in Nat /\ x < y /\ Follows(f, a, x, y)
               /\ Starts(f, a, y) /\ InCycle(f, a, y, index + 1)
               /\ \A d \in Nat : x < d /\ d <= y /\ Follows(f, a, x, d) => d = y
<1> DEFINE y == Advance(x, f, index)
<1>0. y \in Nat /\ x < y
      BY AdvanceForward
<1>1. CASE f = "WEEKLY"
  <2>1. y = x + 7
        BY <1>1 DEF Advance
  <2>2. \A d \in Nat : x < d /\ d <= x + 7 /\ (d - x) % 7 = 0 => d = x + 7
        OBVIOUS
  <2>3. (y - x) % 7 = 0
        BY <2>1
  <2> HIDE DEF y
  <2>4. \A d \in Nat : x < d /\ d <= y /\ Follows(f, a, x, d) => d = y
        BY <1>1, <2>1, <2>2 DEF Follows
  <2> QED BY <1>0, <1>1, <2>3, <2>4 DEF Follows, Starts, InCycle, y
<1>2. CASE f \in {"BI_WEEKLY", "TWICE_A_MONTH"}
  <2>1. y = x + 14
        BY <1>2 DEF Advance
  <2>2. \A d \in Nat : x < d /\ d <= x + 14 /\ (d - x) % 14 = 0 => d = x + 14
        OBVIOUS
  <2>3. (y - x) % 14 = 0
        BY <2>1
  <2> HIDE DEF y
  <2>4. \A d \in Nat : x < d /\ d <= y /\ Follows(f, a, x, d) => d = y
        BY <1>2, <2>1, <2>2 DEF Follows
  <2> QED BY <1>0, <1>2, <2>3, <2>4 DEF Follows, Starts, InCycle, y
<1>3. CASE f = "THRICE_A_WEEK"
  <2> DEFINE r == (x - a) % 7
  <2>1. y = x + (IF index % 3 = 2 THEN 3 ELSE 2)
        BY <1>3 DEF Advance
  <2>2. r \in {0, 2, 4} /\ index % 3 = IF r = 4 THEN 2 ELSE IF r = 2 THEN 1 ELSE 0
        BY <1>3 DEF Starts, InCycle, CyclePhase
  <2>3. y = IF r = 4 THEN x + 3 ELSE x + 2
        BY <2>1, <2>2
  <2>4. (index + 1) % 3 = IF r = 4 THEN 0 ELSE IF r = 2 THEN 2 ELSE 1
        BY <2>2
  <2>5. (y - a) % 7 = IF r = 4 THEN 0 ELSE IF r = 2 THEN 4 ELSE 2
        BY <2>2, <2>3
  <2>6. \A d \in Nat : x < d /\ d <= y /\ (d - a) % 7 \in {0, 2, 4} => d = y
    <3> SUFFICES ASSUME NEW d \in Nat, x < d, d <= y, (d - a) % 7 \in {0, 2, 4} PROVE d = y
        OBVIOUS
    <3> HIDE DEF y
    <3>1. CASE r = 4
      <4>1. d = x + 1 \/ d = x + 2 \/ d = x + 3
            BY <2>3, <3>1
      <4>2. (x + 1 - a) % 7 = 5 /\ (x + 2 - a) % 7 = 6
            BY <3>1
      <4> QED BY <2>3, <3>1, <4>1, <4>2
    <3>2. CASE r # 4
      <4>1. d = x + 1 \/ d = x + 2
            BY <2>3, <3>2
      <4>2. (x + 1 - a) % 7 \in {1, 3}
            BY <2>2, <3>2
      <4> QED BY <2>3, <3>2, <4>1, <4>2
    <3> QED BY <3>1, <3>2
  <2> HIDE DEF y, r
  <2>7. \A d \in Nat : x < d /\ d <= y /\ Follows(f, a, x, d) => d = y
        BY <1>3, <2>6 DEF Follows
  <2>8. CyclePhase(y - a) = (index + 1) % 3
        BY <2>2, <2>4, <2>5 DEF CyclePhase
  <2>9. (y - a) % 7 \in {0, 2, 4}
        BY <2>2, <2>5
  <2>10. Follows(f, a, x, y) /\ Starts(f, a, y) /\ InCycle(f, a, y, index + 1)
         BY <1>3, <2>8, <2>9 DEF Follows, Starts, InCycle
  <2> QED BY <1>0, <2>7, <2>10 DEF y
<1>4. CASE f = "MONTHLY"
  <2> DEFINE first == MonthOf(x)
             next == MonthAfter(x)
             after == MonthAfter(next)
  <2>1. /\ first \in MonthStarts /\ first \in Nat /\ first <= x
        /\ \A m \in MonthStarts : m <= x => m <= first
        /\ next \in MonthStarts /\ next \in Nat /\ x < next
        /\ \A m \in MonthStarts : x < m => next <= m
        BY MonthBounds
  <2>2. /\ after \in Nat /\ next < after /\ \A m \in MonthStarts : next < m => after <= m
        BY <2>1, MonthBounds
  <2>3. y = SameDayNextMonth(x)
        BY <1>4 DEF Advance
  <2>4. /\ next <= y /\ y < after
        /\ y - next = IF DayOf(x) <= after - 1 - next THEN DayOf(x) ELSE after - 1 - next
        BY <2>3, NextMonth DEF DayOf
  <2>5. DayOf(x) \in Nat /\ x = first + DayOf(x)
    <3> HIDE DEF first
    <3>1. DayOf(x) = x - first
          BY DEF DayOf, first
    <3> QED BY <2>1, <3>1
  <2>6. MonthStarts \subseteq Nat
        BY RecurrenceAssumption
  <2>7. MonthAfter(first) = next
    <3>1. /\ MonthAfter(first) \in MonthStarts /\ MonthAfter(first) \in Nat /\ first < MonthAfter(first)
          /\ \A m \in MonthStarts : first < m => MonthAfter(first) <= m
          BY <2>1, MonthBounds
    <3> DEFINE n == MonthAfter(first)
    <3> HIDE DEF n, next, first
    <3>2. n \in MonthStarts /\ n \in Nat /\ first < n /\ \A m \in MonthStarts : first < m => n <= m
          BY <3>1 DEF n
    <3>3. n <= next
          BY <2>1, <3>2
    <3>4. x < n
      <4>1. SUFFICES ASSUME n <= x PROVE FALSE
            BY <2>1, <3>2
      <4>2. n <= first
            BY <2>1, <3>2, <4>1
      <4> QED BY <2>1, <3>2, <4>2
    <3>5. next <= n
          BY <2>1, <3>2, <3>4
    <3>6. n = next
          BY <2>1, <3>2, <3>3, <3>5
    <3> QED BY <3>6 DEF n
  \* The months that a day of the next month has been through are these two.
  <2>8. ASSUME NEW d \in Nat, x < d, d < after
        PROVE  /\ d < next => MonthOf(d) = first /\ Lengths(x, d) = {next - 1 - first}
               /\ next <= d => MonthOf(d) = next /\ Lengths(x, d) = {next - 1 - first, after - 1 - next}
    <3>1. /\ MonthOf(d) \in MonthStarts /\ MonthOf(d) \in Nat /\ MonthOf(d) <= d
          /\ \A m \in MonthStarts : m <= d => m <= MonthOf(d)
          BY MonthBounds
    <3> DEFINE g == MonthOf(d)
               M == {k \in MonthStarts : first <= k /\ k <= d}
    <3>2. Lengths(x, d) = {MonthAfter(m) - 1 - m : m \in M}
          BY DEF Lengths
    <3> HIDE DEF g, first, next, after
    <3>3. /\ g \in MonthStarts /\ g \in Nat /\ g <= d /\ \A m \in MonthStarts : m <= d => m <= g
          BY <3>1 DEF g
    <3>4. ASSUME NEW k \in MonthStarts, first <= k, k <= d PROVE k = first \/ (k = next /\ next <= d)
      <4>1. k \in Nat
            BY <2>6
      <4>2. CASE k <= x
            BY <2>1, <3>4, <4>1, <4>2
      <4>3. CASE x < k /\ k <= next
        <5>1. next <= k
              BY <2>1, <4>3
        <5> QED BY <2>1, <3>4, <4>1, <4>3, <5>1
      <4>4. CASE next < k
        <5>1. after <= k
              BY <2>2, <4>4
        <5> QED BY <2>2, <2>8, <3>4, <4>1, <5>1
      <4> QED BY <2>1, <4>1, <4>2, <4>3, <4>4
    <3>5. first <= d /\ first <= g
      <4>1. first <= d
            BY <2>1, <2>8
      <4> QED BY <2>1, <3>3, <4>1
    <3>6. g = first \/ (g = next /\ next <= d)
          BY <3>3, <3>4, <3>5
    <3>7. CASE d < next
      <4>1. M = {first}
        <5>1. ASSUME NEW k \in M PROVE k = first
          <6>1. k \in MonthStarts /\ first <= k /\ k <= d
                OBVIOUS
          <6>2. ~(next <= d)
                BY <2>1, <3>7
          <6> QED BY <3>4, <6>1, <6>2
        <5>2. first \in M
              BY <2>1, <3>5
        <5> HIDE DEF M
        <5> QED BY <5>1, <5>2
      <4>2. g = first
            BY <2>1, <3>6, <3>7
      <4>3. Lengths(x, d) = {MonthAfter(first) - 1 - first}
        <5> HIDE DEF M
        <5> QED BY <3>2, <4>1
      <4> QED BY <2>1, <2>7, <2>8, <3>7, <4>2, <4>3 DEF g
    <3>8. CASE next <= d
      <4>1. M = {first, next}
        <5>1. ASSUME NEW k \in M PROVE k \in {first, next}
          <6>1. k \in MonthStarts /\ first <= k /\ k <= d
                OBVIOUS
          <6> QED BY <3>4, <6>1
        <5>2. first <= next
              BY <2>1
        <5>3. first \in M /\ next \in M
              BY <2>1, <3>5, <3>8, <5>2
        <5> HIDE DEF M
        <5> QED BY <5>1, <5>3
      <4>2. next <= g
            BY <2>1, <3>3, <3>8
      <4>3. g = next
            BY <2>1, <3>6, <4>2
      <4>4. Lengths(x, d) = {MonthAfter(first) - 1 - first, MonthAfter(next) - 1 - next}
        <5> HIDE DEF M
        <5> QED BY <3>2, <4>1
      <4>5. Lengths(x, d) = {next - 1 - first, after - 1 - next}
            BY <2>7, <4>4 DEF after
      <4> QED BY <2>1, <2>8, <3>8, <4>3, <4>5 DEF g
    <3> QED BY <2>1, <3>7, <3>8
  <2> DEFINE v == y - next
             w == DayOf(x)
             len == after - 1 - next
  <2>9. v \in Nat /\ w \in Nat /\ len \in Nat /\ v = (IF w <= len THEN w ELSE len)
        /\ w <= next - 1 - first /\ next - 1 - first \in Nat
    <3> HIDE DEF y, first, next, after
    <3> QED BY <1>0, <2>1, <2>2, <2>4, <2>5
  <2>10. ASSUME NEW u, NEW l \in Nat, w <= l PROVE u = Min({w} \cup {l, len}) <=> u = v
    <3> DEFINE T == {w} \cup {l, len}
    <3>1. T \subseteq Nat /\ T # {}
          BY <2>9, <2>10
    <3>2. u = Min(T) <=> u \in T /\ \A n \in T : u <= n
          BY <3>1, MinimumIs
    <3> HIDE DEF v, w, len
    <3>3. u \in T /\ (\A n \in T : u <= n) <=> u = v
          BY <2>9, <2>10
    <3> QED BY <3>2, <3>3
  <2>11. Follows(f, a, x, y)
    <3>1. x < y /\ y < after /\ next <= y
          BY <1>0, <2>4
    <3>2. MonthOf(y) = next /\ Lengths(x, y) = {next - 1 - first, after - 1 - next}
          BY <1>0, <2>8, <3>1
    <3>3. DayOf(y) = v
          BY <3>2 DEF DayOf
    <3>4. v = Min({w} \cup {next - 1 - first, len})
          BY <2>9, <2>10
    <3>5. DayOf(y) = Min({DayOf(x)} \cup Lengths(x, y))
      <4> HIDE DEF v, y
      <4> QED BY <3>2, <3>3, <3>4
    <3> HIDE DEF y
    <3> QED BY <1>4, <3>5 DEF Follows
  <2>12. ASSUME NEW d \in Nat, x < d, d <= y, Follows(f, a, x, d) PROVE d = y
    <3>1. DayOf(d) = Min({w} \cup Lengths(x, d))
          BY <1>4, <2>12 DEF Follows
    <3>2. d < after
      <4> HIDE DEF y, after
      <4> QED BY <1>0, <2>2, <2>4, <2>12
    <3>3. CASE d < next
      <4>1. MonthOf(d) = first /\ Lengths(x, d) = {next - 1 - first}
            BY <2>8, <2>12, <3>2, <3>3
      <4> DEFINE T == {w} \cup Lengths(x, d)
      <4>2. T \subseteq Nat /\ T # {} /\ w \in T
            BY <2>9, <4>1
      <4>3. DayOf(d) <= w
        <5> HIDE DEF T
        <5>1. DayOf(d) = Min(T)
              BY <3>1 DEF T
        <5> QED BY <4>2, <5>1, MinimumIs
      <4>4. DayOf(d) = d - first
            BY <4>1 DEF DayOf
      <4> HIDE DEF first, next, w
      <4> QED BY <2>1, <2>5, <2>12, <4>3, <4>4 DEF w
    <3>4. CASE next <= d
      <4>1. MonthOf(d) = next /\ Lengths(x, d) = {next - 1 - first, len}
            BY <2>8, <2>12, <3>2, <3>4
      <4>2. DayOf(d) = v
        <5> HIDE DEF v, w, len, next, first
        <5> QED BY <2>9, <2>10, <3>1, <4>1
      <4>3. DayOf(d) = d - next
            BY <4>1 DEF DayOf
      <4> HIDE DEF y, next
      <4> QED BY <1>0, <2>1, <4>2, <4>3
    <3> QED BY <2>1, <3>3, <3>4
  <2> HIDE DEF y
  <2> QED BY <1>0, <1>4, <2>11, <2>12 DEF Starts, InCycle, y
<1> QED BY <1>1, <1>2, <1>3, <1>4 DEF Frequencies

\* The dates of a series are the days that follow its first one, all of them.
LEMMA DatesFollow ==
    ASSUME EndlessCalendar, NEW f \in Frequencies, NEW a \in Nat, NEW start \in Nat, NEW phase \in Nat,
           Starts(f, a, start), InCycle(f, a, start, phase)
    PROVE  \A n \in Nat :
             /\ Follows(f, a, start, Occurrence(start, f, phase, n))
             /\ \A d \in Nat : start <= d /\ d <= Occurrence(start, f, phase, n) /\ Follows(f, a, start, d) =>
                  \E k \in 0..n : d = Occurrence(start, f, phase, k)
<1> DEFINE date(n) == Occurrence(start, f, phase, n)
           Good(n) == /\ Follows(f, a, start, date(n)) /\ Starts(f, a, date(n))
                      /\ InCycle(f, a, date(n), phase + n)
                      /\ \A d \in Nat : start <= d /\ d <= date(n) /\ Follows(f, a, start, d) =>
                           \E k \in 0..n : d = date(k)
           S == {n \in Nat : Good(n)}
<1>1. date(0) = start /\ \A n \in Nat : date(n + 1) = Advance(date(n), f, phase + n)
      BY OccurrenceSteps
<1>2. \A n \in Nat : date(n) \in Nat /\ start <= date(n)
  <2>1. ASSUME NEW n \in Nat PROVE date(n) \in Nat /\ start <= date(n)
    <3>1. 0 \in 0..n
          OBVIOUS
    <3>2. date(n) \in Nat
          BY DatesForward
    <3>3. date(0) <= date(n)
          BY <3>1, DatesForward
    <3> QED BY <1>1, <3>2, <3>3
  <2> QED BY <2>1
<1> HIDE DEF date
<1>3. 0 \in S
  <2>1. Follows(f, a, start, start) /\ phase + 0 = phase
        BY FollowsItself
  <2>2. \A d \in Nat : start <= d /\ d <= start => d = start
        OBVIOUS
  <2>3. Good(0)
        BY <1>1, <2>1, <2>2
  <2> QED BY <2>3
<1>4. ASSUME NEW n \in Nat, n \in S PROVE n + 1 \in S
  <2> DEFINE x == date(n)
             y == date(n + 1)
  <2>1. x \in Nat /\ start <= x /\ y = Advance(x, f, phase + n) /\ phase + n \in Nat
        /\ phase + (n + 1) = (phase + n) + 1 /\ y \in Nat
        BY <1>1, <1>2
  <2>2. Good(n)
        BY <1>4
  <2> HIDE DEF x, y
  <2>3. /\ x < y /\ Follows(f, a, x, y) /\ Starts(f, a, y) /\ InCycle(f, a, y, (phase + n) + 1)
        /\ \A d \in Nat : x < d /\ d <= y /\ Follows(f, a, x, d) => d = y
        BY <2>1, <2>2, NextDate DEF x
  <2>4. Follows(f, a, start, y)
        BY <2>1, <2>2, <2>3, FollowsOn DEF x
  <2>5. ASSUME NEW d \in Nat, start <= d, d <= y, Follows(f, a, start, d)
        PROVE  \E k \in 0..n + 1 : d = date(k)
    <3>1. CASE d <= x
      <4>1. PICK k \in 0..n : d = date(k)
            BY <2>2, <2>5, <3>1 DEF x
      <4> QED BY <4>1
    <3>2. CASE x < d
      <4>1. Follows(f, a, x, d)
            BY <2>1, <2>2, <2>5, <3>2, FollowsOn DEF x
      <4>2. d = y
            BY <2>3, <2>5, <3>2, <4>1
      <4> QED BY <4>2 DEF y
    <3> QED BY <2>1, <3>1, <3>2
  <2>6. Good(n + 1)
        BY <2>1, <2>3, <2>4, <2>5 DEF y
  <2> QED BY <2>6
<1> HIDE DEF S
<1>5. Nat \subseteq S
      BY <1>3, <1>4, NatSetInduction
<1> QED BY <1>5 DEF S, date

-----------------------------------------------------------------------------
(* The invariant of a series *)

\* Every day of D leads to the later ones, past no day of the series that is not in C.
Linked(f, a, D, C) ==
    \A x \in D : \A y \in D : x <= y =>
        /\ Follows(f, a, x, y)
        /\ \A d \in x..y : Follows(f, a, x, d) => d \in C

\* Days that lead on from s can be added.
LEMMA LinkedExtended ==
    ASSUME EndlessCalendar, NEW f \in Frequencies, NEW a \in Nat, NEW D \in SUBSET Nat, NEW N \in SUBSET Nat,
           NEW C, NEW s \in D, Linked(f, a, D, C),
           \A y \in N : /\ s <= y /\ Follows(f, a, s, y)
                        /\ \A d \in s..y : Follows(f, a, s, d) => d \in C
    PROVE  Linked(f, a, D \cup N, C)
<1> SUFFICES ASSUME NEW x \in D \cup N, NEW y \in D \cup N, x <= y
             PROVE  /\ Follows(f, a, x, y)
                    /\ \A d \in x..y : Follows(f, a, x, d) => d \in C
    BY DEF Linked
<1>1. x \in Nat /\ y \in Nat /\ s \in Nat
      OBVIOUS
<1>2. ASSUME NEW z \in D \cup N, s <= z
      PROVE  /\ Follows(f, a, s, z)
             /\ \A d \in s..z : Follows(f, a, s, d) => d \in C
      BY <1>2 DEF Linked
<1>3. CASE s <= x
  <2>1. s <= y /\ Follows(f, a, s, x) /\ Follows(f, a, s, y)
        BY <1>1, <1>2, <1>3
  <2>2. Follows(f, a, x, y)
        BY <1>1, <1>3, <2>1, FollowsOn
  <2>3. ASSUME NEW d \in x..y, Follows(f, a, x, d) PROVE d \in C
    <3>1. d \in Nat /\ x <= d /\ d \in s..y
          BY <1>1, <1>3
    <3>2. Follows(f, a, s, d)
          BY <1>1, <1>3, <2>1, <2>3, <3>1, FollowsOn
    <3> QED BY <1>2, <2>1, <3>1, <3>2
  <2> QED BY <2>2, <2>3
<1>4. CASE x < s /\ y < s
  <2>1. x \in D /\ y \in D
    <3>1. \A z \in N : ~(z < s)
      <4>1. \A z \in N : s <= z /\ z \in Nat
            OBVIOUS
      <4> QED BY <1>1, <4>1
    <3> QED BY <1>4, <3>1
  <2> QED BY <2>1 DEF Linked
<1>5. CASE x < s /\ s <= y
  <2>0. x \in D
    <3>1. \A z \in N : s <= z /\ z \in Nat
          OBVIOUS
    <3> QED BY <1>1, <1>5, <3>1
  <2>1. x <= s /\ Follows(f, a, x, s) /\ Follows(f, a, s, y)
    <3>1. x <= s
          BY <1>1, <1>5
    <3> QED BY <1>2, <1>5, <2>0, <3>1 DEF Linked
  <2>2. Follows(f, a, x, y)
        BY <1>1, <1>5, <2>1, FollowsOn
  <2>3. ASSUME NEW d \in x..y, Follows(f, a, x, d) PROVE d \in C
    <3>1. d \in Nat /\ x <= d /\ d <= y
          BY <1>1
    <3>2. CASE d <= s
      <4>1. d \in x..s
            BY <1>1, <3>1, <3>2
      <4> QED BY <2>0, <2>1, <2>3, <4>1 DEF Linked
    <3>3. CASE s <= d
      <4>1. d \in s..y
            BY <1>1, <3>1, <3>3
      <4>2. Follows(f, a, s, d)
            BY <1>1, <2>1, <2>3, <3>1, <3>3, FollowsOn
      <4> QED BY <1>2, <1>5, <4>1, <4>2
    <3> QED BY <1>1, <3>1, <3>2, <3>3
  <2> QED BY <2>2, <2>3
<1> QED BY <1>1, <1>3, <1>4, <1>5

\* Only a THRICE_A_WEEK series counts from its first day.
LEMMA FollowsAny ==
    ASSUME NEW f, f # "THRICE_A_WEEK", NEW a, NEW b, NEW x, NEW y
    PROVE  Follows(f, a, x, y) <=> Follows(f, b, x, y)
BY DEF Follows

LEMMA LinkedWithin ==
    ASSUME NEW f, NEW a, NEW b, NEW D, NEW E, NEW C, NEW B, Linked(f, a, D, C),
           E \subseteq D, C \subseteq B, a = b \/ f # "THRICE_A_WEEK"
    PROVE  Linked(f, b, E, B)
<1>1. \A x, y : Follows(f, a, x, y) <=> Follows(f, b, x, y)
      BY FollowsAny
<1> QED BY <1>1 DEF Linked

LEMMA LeastStart ==
    ASSUME NEW s, NEW I, I # {}, \A i \in I : s[i].start \in Nat
    PROVE  LET a == CHOOSE d \in {s[i].start : i \in I} : \A i \in I : d <= s[i].start
           IN  a \in Nat /\ (\E i \in I : s[i].start = a) /\ \A i \in I : a <= s[i].start
<1> DEFINE T == {s[i].start : i \in I}
<1>1. T \subseteq Nat /\ T # {}
      OBVIOUS
<1>2. PICK d \in T : \A n \in T : d <= n
      BY <1>1, LeastNatural
<1>3. \A i \in I : s[i].start \in T
      OBVIOUS
<1>4. \E e \in T : \A i \in I : e <= s[i].start
      BY <1>2, <1>3
<1> DEFINE a == CHOOSE e \in T : \A i \in I : e <= s[i].start
<1>5. a \in T /\ \A i \in I : a <= s[i].start
  <2> HIDE DEF T
  <2> QED BY <1>4
<1>6. a \in Nat /\ \E i \in I : s[i].start = a
      BY <1>1, <1>5
<1> QED BY <1>5, <1>6

\* The first day of the series, if it has slots
InitialDay == IF SeriesSlots = {} THEN 0 ELSE Anchor

Reading == {"readAnchor", "replenish"}
Readers == {c \in Calls : pc[c] \in Reading}

\* The days of the series' slots, and those that replenishments start from
Days == {slots[i].start : i \in SeriesSlots} \cup {tx[c].start : c \in Readers}

CoveredDays == {slots[i].start : i \in {k \in Ids : slots[k] # Null}} \cup excused

\* A replenishment of a THRICE_A_WEEK series has a start in the series and knows its place.
OnCycle(c) ==
    /\ SeriesSlots # {} /\ InitialDay <= tx[c].start
    /\ pc[c] = "replenish" => tx[c].phase = CyclePhase(tx[c].start - InitialDay)

Regular ==
    ~disturbed /\ series # "deleted" =>
        /\ Linked(frequency, InitialDay, Days, CoveredDays)
        /\ frequency = "THRICE_A_WEEK" => \A c \in Readers : OnCycle(c)

ForSeries == {"insertSeries", "readAnchor", "replenish", "countSeries", "deleteSeries"}

\* The first slots of a series are inserted before any other of its slots.
Grouped ==
    /\ series \in {"none", "deleted"} => SeriesSlots = {}
    /\ \A c \in Calls : pc[c] = "insertSeries" =>
         /\ series \in {"active", "stopped"} /\ SeriesSlots = {}
         /\ \A d \in Calls \ {c} : pc[d] \notin ForSeries

LEMMA InSeries ==
    \A i : i \in SeriesSlots <=> i \in Ids /\ slots[i] # Null /\ slots[i].inSeries
BY IdsAreNumbers DEF SeriesSlots, Exists

LEMMA InSeriesNext ==
    \A i : i \in SeriesSlots' <=> i \in Ids /\ slots'[i] # Null /\ slots'[i].inSeries
BY IdsAreNumbers DEF SeriesSlots, Exists

LEMMA FirstDay ==
    ASSUME Tables
    PROVE  /\ InitialDay \in Nat
           /\ SeriesSlots # {} => \E i \in SeriesSlots : slots[i].start = InitialDay
           /\ \A i \in SeriesSlots : InitialDay <= slots[i].start
<1>1. \A i \in SeriesSlots : slots[i].start \in Nat
      BY InSeries, SlotFields
<1>2. CASE SeriesSlots = {}
      BY <1>2 DEF InitialDay
<1>3. CASE SeriesSlots # {}
      BY <1>1, <1>3, LeastStart DEF InitialDay, Anchor
<1> QED BY <1>2, <1>3

LEMMA FirstDayNext ==
    ASSUME Tables'
    PROVE  /\ InitialDay' \in Nat
           /\ SeriesSlots' # {} => \E i \in SeriesSlots' : slots'[i].start = InitialDay'
           /\ \A i \in SeriesSlots' : InitialDay' <= slots'[i].start
<1>1. \A i \in SeriesSlots' : slots'[i].start \in Nat
  <2>1. ASSUME NEW i \in SeriesSlots' PROVE slots'[i].start \in Nat
    <3>1. slots'[i] \in Slot
          BY InSeriesNext DEF Tables
    <3> QED BY <3>1 DEF Slot
  <2> QED BY <2>1
<1>2. CASE SeriesSlots' = {}
      BY <1>2 DEF InitialDay
<1>3. CASE SeriesSlots' # {}
      BY <1>1, <1>3, LeastStart DEF InitialDay, Anchor
<1> QED BY <1>2, <1>3

LEMMA DaysAreNumbers == ASSUME Typed PROVE Days \in SUBSET Nat
<1>1. \A i \in SeriesSlots : slots[i].start \in Nat
      BY InSeries, SlotFields DEF Typed
<1>2. \A c \in Readers : tx[c].start \in Nat
      BY DEF Readers, Reading, Typed, TypedAt, OnDay
<1> QED BY <1>1, <1>2 DEF Days

\* Steps that add no slot to the series
LEMMA KeepsGrouped ==
    ASSUME Grouped,
           \A i \in Ids : slots'[i] # Null /\ slots'[i].inSeries => i \in SeriesSlots,
           series' = series \/ (series \in {"active", "stopped"} /\ series' \in {"active", "stopped"}),
           \A d \in Calls : pc'[d] \in ForSeries =>
              \/ pc'[d] = pc[d]
              \/ /\ pc'[d] # "insertSeries"
                 /\ SeriesSlots # {} \/ pc[d] \in ForSeries \ {"insertSeries"}
    PROVE  Grouped'
<1>1. SeriesSlots' \subseteq SeriesSlots
      BY InSeriesNext
<1>2. series' \in {"none", "deleted"} => SeriesSlots' = {}
      BY <1>1 DEF Grouped
<1>3. ASSUME NEW c \in Calls, pc'[c] = "insertSeries"
      PROVE  /\ series' \in {"active", "stopped"} /\ SeriesSlots' = {}
             /\ \A d \in Calls \ {c} : pc'[d] \notin ForSeries
  <2>1. pc[c] = "insertSeries"
        BY <1>3 DEF ForSeries
  <2>2. /\ series \in {"active", "stopped"} /\ SeriesSlots = {}
        /\ \A d \in Calls \ {c} : pc[d] \notin ForSeries
        BY <2>1 DEF Grouped
  <2>3. \A d \in Calls \ {c} : pc'[d] \notin ForSeries
        BY <2>2
  <2> QED BY <1>1, <2>2, <2>3
<1> QED BY <1>2, <1>3 DEF Grouped

LEMMA KeepsRegular ==
    ASSUME Tables, Tables', Regular, ~disturbed, series # "deleted", frequency' = frequency,
           \A i \in Ids : slots'[i] # Null /\ slots'[i].inSeries =>
              i \in SeriesSlots /\ slots'[i].start = slots[i].start,
           \A i \in Ids : slots[i] # Null =>
              (slots'[i] # Null /\ slots'[i].start = slots[i].start) \/ slots[i].start \in excused',
           excused \subseteq excused',
           frequency = "THRICE_A_WEEK" => \A i \in SeriesSlots :
              slots[i].start = InitialDay => slots'[i] # Null /\ slots'[i].inSeries,
           \A d \in Calls : pc'[d] \in Reading =>
              \/ pc'[d] = pc[d] /\ tx'[d] = tx[d]
              \/ /\ tx'[d].start \in Days
                 /\ frequency = "THRICE_A_WEEK" =>
                      /\ SeriesSlots # {} /\ InitialDay <= tx'[d].start
                      /\ pc'[d] = "replenish" => tx'[d].phase = CyclePhase(tx'[d].start - InitialDay)
    PROVE  Regular'
<1>1. SeriesSlots' \subseteq SeriesSlots /\ \A i \in SeriesSlots' : slots'[i].start = slots[i].start
      BY InSeriesNext
<1>2. Days' \subseteq Days
  <2>1. ASSUME NEW i \in SeriesSlots' PROVE slots'[i].start \in Days
        BY <1>1 DEF Days
  <2>2. ASSUME NEW d \in Readers' PROVE tx'[d].start \in Days
    <3>1. d \in Calls /\ pc'[d] \in Reading
          BY DEF Readers
    <3>2. CASE pc'[d] = pc[d] /\ tx'[d] = tx[d]
          BY <3>1, <3>2 DEF Days, Readers
    <3> QED BY <3>1, <3>2
  <2> QED BY <2>1, <2>2 DEF Days
<1>3. CoveredDays \subseteq CoveredDays'
  <2>1. ASSUME NEW i \in Ids, slots[i] # Null PROVE slots[i].start \in CoveredDays'
        BY <2>1 DEF CoveredDays
  <2>2. \A d \in excused : d \in CoveredDays'
        BY DEF CoveredDays
  <2> QED BY <2>1, <2>2 DEF CoveredDays
<1>4. /\ Linked(frequency, InitialDay, Days, CoveredDays)
      /\ frequency = "THRICE_A_WEEK" => \A c \in Readers : OnCycle(c)
      BY DEF Regular
<1>5. frequency = "THRICE_A_WEEK" => InitialDay' = InitialDay /\ (SeriesSlots # {} => SeriesSlots' # {})
  <2> SUFFICES ASSUME frequency = "THRICE_A_WEEK"
               PROVE  InitialDay' = InitialDay /\ (SeriesSlots # {} => SeriesSlots' # {})
      OBVIOUS
  <2>1. CASE SeriesSlots = {}
        BY <1>1, <2>1 DEF InitialDay
  <2>2. CASE SeriesSlots # {}
    <3>1. PICK i \in SeriesSlots : slots[i].start = InitialDay
          BY <2>2, FirstDay
    <3>2. i \in SeriesSlots' /\ slots'[i].start = InitialDay
          BY <1>1, <3>1, InSeries, InSeriesNext
    <3>3. InitialDay' <= InitialDay /\ InitialDay' \in Nat /\ InitialDay \in Nat
          BY <3>2, FirstDay, FirstDayNext
    <3>4. PICK j \in SeriesSlots' : slots'[j].start = InitialDay'
          BY <3>2, FirstDayNext
    <3>5. InitialDay <= InitialDay'
          BY <1>1, <3>4, FirstDay
    <3>6. InitialDay' = InitialDay
      <4> HIDE DEF InitialDay
      <4> QED BY <3>3, <3>5
    <3> QED BY <3>2, <3>6
  <2> QED BY <2>1, <2>2
<1>6. Linked(frequency', InitialDay', Days', CoveredDays')
      BY <1>2, <1>3, <1>4, <1>5, LinkedWithin
<1>7. ASSUME frequency' = "THRICE_A_WEEK", NEW d \in Readers' PROVE OnCycle(d)'
  <2>1. d \in Calls /\ pc'[d] \in Reading
        BY DEF Readers
  <2>2. CASE pc'[d] = pc[d] /\ tx'[d] = tx[d]
    <3>1. OnCycle(d)
          BY <1>4, <1>7, <2>1, <2>2 DEF Readers
    <3>2. /\ SeriesSlots' # {} /\ InitialDay' <= tx'[d].start
          /\ pc'[d] = "replenish" => tx'[d].phase = CyclePhase(tx'[d].start - InitialDay')
          BY <1>5, <1>7, <2>2, <3>1 DEF OnCycle
    <3> QED BY <3>2 DEF OnCycle
  <2>3. CASE ~(pc'[d] = pc[d] /\ tx'[d] = tx[d])
    <3>1. /\ SeriesSlots # {} /\ InitialDay <= tx'[d].start
          /\ pc'[d] = "replenish" => tx'[d].phase = CyclePhase(tx'[d].start - InitialDay)
          BY <1>7, <2>1, <2>3
    <3>2. /\ SeriesSlots' # {} /\ InitialDay' <= tx'[d].start
          /\ pc'[d] = "replenish" => tx'[d].phase = CyclePhase(tx'[d].start - InitialDay')
          BY <1>5, <1>7, <3>1
    <3> QED BY <3>2 DEF OnCycle
  <2> QED BY <2>2, <2>3
<1> QED BY <1>6, <1>7 DEF Regular

LEMMA Moves ==
    ASSUME WellFormed, NEW c \in Calls, NEW next, NEW t, Goto(c, next, t)
    PROVE  pc'[c] = next /\ tx'[c] = t /\ \A d \in Calls \ {c} : pc'[d] = pc[d] /\ tx'[d] = tx[d]
BY DEF Goto, WellFormed, Handlers

\* A step that leaves the series its slots and begins no replenishment
LEMMA KeepsSeries ==
    ASSUME WellFormed, Typed, Typed', Regular, Grouped,
           NEW c \in Calls, NEW next, NEW t, Goto(c, next, t),
           next \notin {"insertSeries", "readAnchor", "replenish"},
           next \in ForSeries => SeriesSlots # {} \/ pc[c] \in ForSeries \ {"insertSeries"},
           \A i \in Ids : slots'[i] # Null /\ slots'[i].inSeries =>
              i \in SeriesSlots /\ (slots'[i].start = slots[i].start \/ disturbed'),
           \A i \in Ids : slots[i] # Null =>
              /\ slots'[i] # Null /\ slots'[i].inSeries = slots[i].inSeries
              /\ slots'[i].start = slots[i].start \/ slots[i].start \in excused',
           excused \subseteq excused', disturbed => disturbed', frequency' = frequency,
           series' = series \/ (series \in {"active", "stopped"} /\ series' \in {"active", "stopped"})
    PROVE  Regular' /\ Grouped'
<1>0. /\ pc'[c] = next /\ tx'[c] = t /\ \A d \in Calls \ {c} : pc'[d] = pc[d] /\ tx'[d] = tx[d]
      BY Moves
<1>1. \A d \in Calls : pc'[d] \in ForSeries =>
        \/ pc'[d] = pc[d]
        \/ /\ pc'[d] # "insertSeries"
           /\ SeriesSlots # {} \/ pc[d] \in ForSeries \ {"insertSeries"}
      BY <1>0
<1>2. Grouped'
      BY <1>1, KeepsGrouped
<1>3. ASSUME ~disturbed', series' # "deleted" PROVE Regular'
  <2>1. Tables /\ Tables'
        BY DEF Typed
  <2>2. ~disturbed /\ series # "deleted"
        BY <1>3
  <2>3. \A i \in Ids : slots'[i] # Null /\ slots'[i].inSeries =>
           i \in SeriesSlots /\ slots'[i].start = slots[i].start
        BY <1>3
  <2>4. \A i \in SeriesSlots : slots'[i] # Null /\ slots'[i].inSeries
        BY InSeries
  <2>5. \A d \in Calls : pc'[d] \in Reading => pc'[d] = pc[d] /\ tx'[d] = tx[d]
        BY <1>0 DEF Reading
  <2> QED BY <2>1, <2>2, <2>3, <2>4, <2>5, KeepsRegular
<1> QED BY <1>2, <1>3 DEF Regular

LEMMA ReadingKeepsSeries ==
    ASSUME WellFormed, Typed, Typed', Regular, Grouped,
           NEW c \in Calls, NEW next, NEW t, Goto(c, next, t),
           next \notin {"insertSeries", "readAnchor", "replenish"},
           next \in ForSeries => SeriesSlots # {} \/ pc[c] \in ForSeries \ {"insertSeries"},
           UNCHANGED <<slots, excused, disturbed, frequency>>,
           series' = series \/ (series \in {"active", "stopped"} /\ series' \in {"active", "stopped"})
    PROVE  Regular' /\ Grouped'
<1>1. \A i \in Ids : slots'[i] # Null /\ slots'[i].inSeries => i \in SeriesSlots
      BY InSeries
<1> QED BY <1>1, KeepsSeries

Received == {"insert", "readSeries", "done", "update", "delete", "cancel", "reveal", "log", "seat"}

LEMMA ReceiveSeries ==
    ASSUME WellFormed, Typed, Typed', Regular, Grouped, NEW c \in Calls, Receive(c)
    PROVE  Regular' /\ Grouped'
<1>1. CASE ~CreateSeries(c)
  <2>1. /\ UNCHANGED <<slots, excused, disturbed, frequency>>
        /\ series' = series \/ (series \in {"active", "stopped"} /\ series' \in {"active", "stopped"})
        BY <1>1 DEF Receive, CreateSlot, ListSlots, StopSeries, ResumeSeries, SwitchSeries, ReadSlotToUpdate,
           CountBookings, ReadSlotToCancel, ReadSlotToReveal, ReadBookingsToLog, MatchSlot, SetStatus, slotVars
  <2>2. \E next \in Received : \E t : Goto(c, next, t)
    <3>1. CASE CreateSlot(c)
          BY <3>1 DEF CreateSlot, Begin, Received
    <3>2. CASE ListSlots(c) \/ StopSeries(c) \/ ResumeSeries(c) \/ SetStatus(c)
          BY <3>2 DEF ListSlots, StopSeries, ResumeSeries, SetStatus, Begin, Received
    <3>3. CASE ReadSlotToUpdate(c)
          BY <3>3 DEF ReadSlotToUpdate, Begin, Received
    <3>4. CASE CountBookings(c) \/ ReadSlotToCancel(c)
          BY <3>4 DEF CountBookings, ReadSlotToCancel, Begin, Received
    <3>5. CASE ReadSlotToReveal(c) \/ ReadBookingsToLog(c)
          BY <3>5 DEF ReadSlotToReveal, ReadBookingsToLog, Begin, Received
    <3>6. CASE MatchSlot(c)
          BY <3>6 DEF MatchSlot, Begin, Received
    <3> QED BY <1>1, <3>1, <3>2, <3>3, <3>4, <3>5, <3>6 DEF Receive
  <2>3. PICK next, t : next \in Received /\ Goto(c, next, t)
        BY <2>2
  <2>4. next \notin {"insertSeries", "readAnchor", "replenish"} /\ next \notin ForSeries
        BY <2>3 DEF Received, ForSeries
  <2> QED BY <2>1, <2>3, <2>4, ReadingKeepsSeries
<1>2. CASE CreateSeries(c)
  <2>1. /\ series = "none" /\ series' = "active" /\ UNCHANGED slots
        /\ \E t : Goto(c, "insertSeries", t)
        BY <1>2 DEF CreateSeries, Begin
  <2>2. /\ pc'[c] = "insertSeries" /\ \A d \in Calls \ {c} : pc'[d] = pc[d]
        BY <2>1, Moves
  <2>3. SeriesSlots = {} /\ SeriesSlots' = {}
        BY <2>1 DEF Grouped, SeriesSlots, Exists
  <2>4. \A d \in Calls \ {c} : pc'[d] \notin ForSeries
        BY <2>1, <2>2 DEF Typed, TypedAt, OnSeriesGroup, ForSeries
  <2>5. Readers' = {} /\ Days' = {}
    <3>1. Readers' = {}
          BY <2>2, <2>4 DEF Readers, Reading, ForSeries
    <3> QED BY <2>3, <3>1 DEF Days
  <2>6. Linked(frequency', InitialDay', Days', CoveredDays')
        BY <2>5 DEF Linked
  <2>7. Regular'
        BY <2>5, <2>6 DEF Regular
  <2>8. Grouped'
    <3>1. \A d \in Calls : pc'[d] = "insertSeries" => d = c
          BY <2>4 DEF ForSeries
    <3> QED BY <2>1, <2>3, <2>4, <3>1 DEF Grouped
  <2> QED BY <2>7, <2>8
<1> QED BY <1>1, <1>2

\* A replenishment reads where the series ends, and of three a week where it begins.
LEMMA ReadSeriesSeries ==
    ASSUME WellFormed, Typed, Typed', Regular, Grouped, NEW c \in Calls, ReadSeries(c) \/ ReadAnchor(c)
    PROVE  Regular' /\ Grouped'
<1>0. /\ Tables /\ Tables' /\ UNCHANGED <<slots, series, excused, disturbed, frequency>>
      BY DEF Typed, ReadSeries, ReadAnchor, slotVars
<1>1. \A i \in Ids : slots'[i] # Null /\ slots'[i].inSeries => i \in SeriesSlots
      BY <1>0, InSeries
<1>2. \A i \in SeriesSlots : slots[i] # Null /\ slots[i].inSeries
      BY InSeries
<1>3. ASSUME NEW next \in Reading, NEW t, Goto(c, next, t),
             SeriesSlots # {} \/ pc[c] = "readAnchor",
             t.start \in Days,
             ~disturbed /\ series # "deleted" /\ frequency = "THRICE_A_WEEK" =>
                /\ SeriesSlots # {} /\ InitialDay <= t.start
                /\ next = "replenish" => t.phase = CyclePhase(t.start - InitialDay)
      PROVE  Regular' /\ Grouped'
  <2>1. /\ pc'[c] = next /\ tx'[c] = t /\ \A d \in Calls \ {c} : pc'[d] = pc[d] /\ tx'[d] = tx[d]
        BY <1>3, Moves
  <2>2. \A d \in Calls : pc'[d] \in ForSeries =>
          \/ pc'[d] = pc[d]
          \/ /\ pc'[d] # "insertSeries"
             /\ SeriesSlots # {} \/ pc[d] \in ForSeries \ {"insertSeries"}
    <3>1. pc'[c] # "insertSeries"
          BY <2>1 DEF Reading
    <3>2. SeriesSlots # {} \/ pc[c] \in ForSeries \ {"insertSeries"}
          BY <1>3 DEF ForSeries
    <3> QED BY <2>1, <3>1, <3>2
  <2>3. Grouped'
        BY <1>0, <1>1, <2>2, KeepsGrouped
  <2>4. ASSUME ~disturbed', series' # "deleted" PROVE Regular'
    <3>1. ~disturbed /\ series # "deleted"
          BY <1>0, <2>4
    <3>2. \A d \in Calls : pc'[d] \in Reading =>
            \/ pc'[d] = pc[d] /\ tx'[d] = tx[d]
            \/ /\ tx'[d].start \in Days
               /\ frequency = "THRICE_A_WEEK" =>
                    /\ SeriesSlots # {} /\ InitialDay <= tx'[d].start
                    /\ pc'[d] = "replenish" => tx'[d].phase = CyclePhase(tx'[d].start - InitialDay)
          BY <1>3, <2>1, <3>1
    <3>3. \A i \in Ids : slots'[i] # Null /\ slots'[i].inSeries =>
             i \in SeriesSlots /\ slots'[i].start = slots[i].start
          BY <1>0, <1>1
    <3>4. /\ \A i \in Ids : slots[i] # Null =>
               (slots'[i] # Null /\ slots'[i].start = slots[i].start) \/ slots[i].start \in excused'
          /\ \A i \in SeriesSlots : slots[i].start = InitialDay => slots'[i] # Null /\ slots'[i].inSeries
          /\ excused \subseteq excused'
          BY <1>0, <1>2
    <3> QED BY <1>0, <3>1, <3>2, <3>3, <3>4, KeepsRegular
  <2> QED BY <2>3, <2>4 DEF Regular
<1>4. CASE ReadSeries(c)
  <2> DEFINE latest == CHOOSE i \in SeriesSlots : \A x \in SeriesSlots : slots[x].start <= slots[i].start
             t == [NoTx EXCEPT !.start = slots[latest].start, !.capacity = slots[latest].capacity,
                               !.active = slots[latest].active, !.until = now + Ahead,
                               !.coach = IF FixedLead # Null THEN FixedLead ELSE slots[latest].coach]
  <2>1. \/ Goto(c, "done", NoTx) \/ Goto(c, "deactivate", NoTx)
        \/ /\ SeriesSlots # {}
           /\ Goto(c, IF frequency = "THRICE_A_WEEK" THEN "readAnchor" ELSE "replenish", t)
        BY <1>4 DEF ReadSeries, Answer
  <2>2. CASE Goto(c, "done", NoTx) \/ Goto(c, "deactivate", NoTx)
    <3>1. "done" \notin ForSeries /\ "deactivate" \notin ForSeries
          BY DEF ForSeries
    <3> QED BY <1>0, <2>2, <3>1, ReadingKeepsSeries
  <2>3. CASE /\ SeriesSlots # {}
             /\ Goto(c, IF frequency = "THRICE_A_WEEK" THEN "readAnchor" ELSE "replenish", t)
    <3>1. latest \in SeriesSlots
          BY <1>0, <2>3, LatestSlot
    <3> HIDE DEF latest
    <3>2. t.start = slots[latest].start
          BY DEF NoTx
    <3>3. t.start \in Days /\ InitialDay <= t.start
          BY <1>0, <3>1, <3>2, FirstDay DEF Days
    <3> DEFINE next == IF frequency = "THRICE_A_WEEK" THEN "readAnchor" ELSE "replenish"
    <3>4. next \in Reading /\ (frequency = "THRICE_A_WEEK" => next # "replenish")
          BY DEF Reading
    <3>5. Goto(c, next, t)
          BY <2>3
    <3> HIDE DEF t, next
    <3> QED BY <1>3, <2>3, <3>3, <3>4, <3>5
  <2> QED BY <2>1, <2>2, <2>3
<1>5. CASE ReadAnchor(c)
  <2> DEFINE first == CHOOSE i \in SeriesSlots : \A x \in SeriesSlots : slots[x].start >= slots[i].start
             phase == IF SeriesSlots = {} THEN 0 ELSE CyclePhase(tx[c].start - slots[first].start)
             t == [tx[c] EXCEPT !.phase = phase]
  <2>1. pc[c] = "readAnchor" /\ Goto(c, "replenish", t) /\ tx[c] \in LocalType
        BY <1>5 DEF ReadAnchor, Typed, TypedAt
  <2>2. t.start = tx[c].start /\ t.phase = phase
        BY <2>1 DEF LocalType
  <2>3. c \in Readers /\ t.start \in Days
        BY <2>1, <2>2 DEF Readers, Reading, Days
  <2>4. SeriesSlots # {} => slots[first].start = InitialDay
    <3> SUFFICES ASSUME SeriesSlots # {} PROVE slots[first].start = InitialDay
        OBVIOUS
    <3>1. first \in SeriesSlots /\ \A x \in SeriesSlots : slots[x].start >= slots[first].start
          BY <1>0, LatestSlot
    <3> HIDE DEF first
    <3>2. PICK i \in SeriesSlots : slots[i].start = InitialDay
          BY <1>0, FirstDay
    <3>3. /\ InitialDay <= slots[first].start /\ slots[i].start >= slots[first].start /\ InitialDay \in Nat
          /\ slots[first].start \in Nat
          BY <1>0, <3>1, <3>2, FirstDay, InSeries, SlotFields
    <3> HIDE DEF InitialDay
    <3> QED BY <3>2, <3>3
  <2>5. ASSUME ~disturbed, series # "deleted", frequency = "THRICE_A_WEEK"
        PROVE  /\ SeriesSlots # {} /\ InitialDay <= t.start
               /\ t.phase = CyclePhase(t.start - InitialDay)
    <3>1. SeriesSlots # {} /\ InitialDay <= tx[c].start
          BY <2>3, <2>5 DEF Regular, OnCycle
    <3>2. phase = CyclePhase(tx[c].start - InitialDay)
          BY <2>4, <3>1
    <3> HIDE DEF t, phase
    <3> QED BY <2>2, <3>1, <3>2
  <2> HIDE DEF t
  <2>6. "replenish" \in Reading
        BY DEF Reading
  <2> QED BY <1>3, <2>1, <2>3, <2>5, <2>6
<1> QED BY <1>4, <1>5

LEMMA QuietSeries ==
    ASSUME WellFormed, Typed, Typed', Regular, Grouped, NEW c \in Calls,
           \/ Deactivate(c) \/ CountSeries(c) \/ Cascade(c)
           \/ TakeSeat(c) \/ BookSeat(c) \/ GiveUp(c)
    PROVE  Regular' /\ Grouped'
<1>1. UNCHANGED <<slots, excused, disturbed, frequency>>
      BY DEF Deactivate, CountSeries, Cascade, TakeSeat, BookSeat, GiveUp, slotVars
<1>2. series' = series \/ (series \in {"active", "stopped"} /\ series' \in {"active", "stopped"})
  <2>1. CASE Deactivate(c)
    <3>1. series # "none" /\ series \in SeriesStates
          BY <2>1 DEF Deactivate, Typed, TypedAt, OnSeriesGroup, Tables
    <3> QED BY <2>1, <3>1 DEF Deactivate, SeriesStates
  <2>2. CASE ~Deactivate(c)
        BY <2>2 DEF CountSeries, Cascade, TakeSeat, BookSeat, GiveUp, slotVars
  <2> QED BY <2>1, <2>2
<1>3. \/ \E next \in {"done", "book"} : \E t : Goto(c, next, t)
      \/ pc[c] = "countSeries" /\ Goto(c, "deleteSeries", tx[c])
  <2>1. CASE Deactivate(c) \/ Cascade(c) \/ BookSeat(c) \/ GiveUp(c)
        BY <2>1 DEF Deactivate, Cascade, BookSeat, GiveUp, Answer
  <2>2. CASE CountSeries(c)
        BY <2>2 DEF CountSeries, Answer
  <2>3. CASE TakeSeat(c)
        BY <2>3 DEF TakeSeat, Answer
  <2> QED BY <2>1, <2>2, <2>3
<1>4. CASE \E next \in {"done", "book"} : \E t : Goto(c, next, t)
  <2>1. PICK next, t : next \in {"done", "book"} /\ Goto(c, next, t)
        BY <1>4
  <2>2. next \notin ForSeries /\ next \notin {"insertSeries", "readAnchor", "replenish"}
        BY <2>1 DEF ForSeries
  <2> QED BY <1>1, <1>2, <2>1, <2>2, ReadingKeepsSeries
<1>5. CASE pc[c] = "countSeries" /\ Goto(c, "deleteSeries", tx[c])
  <2>1. pc[c] \in ForSeries \ {"insertSeries"}
        BY <1>5 DEF ForSeries
  <2> QED BY <1>1, <1>2, <1>5, <2>1, ReadingKeepsSeries
<1> QED BY <1>3, <1>4, <1>5

\* A slot that is rewritten stays in its series.
LEMMA RewritingSeries ==
    ASSUME WellFormed, Typed, Typed', Regular, Grouped, NEW c \in Calls,
           UpdateSlot(c) \/ CancelSlot(c) \/ RevealCoach(c) \/ LogSession(c)
    PROVE  Regular' /\ Grouped'
<1> DEFINE i == tx[c].slot
<1>0. /\ Tables /\ i \in Ids /\ UNCHANGED <<series, frequency>>
      /\ \E next \in {"done", "cascade"} : \E t : Goto(c, next, t)
  <2>1. pc[c] \in OnSlot
        BY DEF UpdateSlot, CancelSlot, RevealCoach, LogSession, OnSlot
  <2>2. i \in Ids
        BY <2>1 DEF WellFormed, HandlerOK
  <2>3. UNCHANGED <<series, frequency>> /\ \E next \in {"done", "cascade"} : \E t : Goto(c, next, t)
        BY DEF UpdateSlot, CancelSlot, RevealCoach, LogSession, Answer
  <2> QED BY <2>2, <2>3 DEF Typed
<1>1. PICK next, t : next \in {"done", "cascade"} /\ Goto(c, next, t)
      BY <1>0
<1>2. next \notin ForSeries /\ next \notin {"insertSeries", "readAnchor", "replenish"}
      BY <1>1 DEF ForSeries
<1>3. CASE UNCHANGED <<slots, excused, disturbed>>
      BY <1>0, <1>1, <1>2, <1>3, ReadingKeepsSeries
<1>4. CASE ~UNCHANGED <<slots, excused, disturbed>>
  <2>1. Exists(i) /\ slots[i] # Null /\ slots[i] \in Slot
    <3>1. Exists(i)
          BY <1>4 DEF UpdateSlot, CancelSlot, RevealCoach, LogSession
    <3> QED BY <1>0, <3>1, SlotFields DEF Exists
  <2>2. PICK n : /\ slots' = [slots EXCEPT ![i] = n] /\ n.inSeries = slots[i].inSeries /\ n # Null
                 /\ excused \subseteq excused' /\ (disturbed => disturbed')
                 /\ n.start = slots[i].start \/ (slots[i].start \in excused' /\ (slots[i].inSeries => disturbed'))
    <3>1. CASE UpdateSlot(c)
      <4> DEFINE n == Updated(slots[i], tx[c])
      <4>1. /\ slots' = [slots EXCEPT ![i] = n]
            /\ excused' = excused \cup ({slots[i].start} \ {slots'[i].start})
            /\ disturbed' = (disturbed \/ (slots[i].inSeries /\ slots[i].start # slots'[i].start))
            BY <1>4, <3>1 DEF UpdateSlot
      <4>2. slots'[i] = n
            BY <1>0, <4>1 DEF Tables
      <4>7. tx[c] \in LocalType /\ tx[c].start \in Nat
            BY <3>1 DEF UpdateSlot, Typed, TypedAt, OnDay
      <4>3. n \in Slot /\ n.inSeries = slots[i].inSeries
            BY <2>1, <4>7, UpdatedType
      <4>4. n # Null
        <5> HIDE DEF n
        <5> QED BY <4>3, NullApart
      <4>5. n.start = slots[i].start \/ (slots[i].start \in excused' /\ (slots[i].inSeries => disturbed'))
        <5> HIDE DEF n
        <5> QED BY <4>1, <4>2
      <4>6. excused \subseteq excused' /\ (disturbed => disturbed')
            BY <4>1
      <4> HIDE DEF n
      <4> QED BY <4>1, <4>3, <4>4, <4>5, <4>6
    <3>2. CASE CancelSlot(c) \/ RevealCoach(c) \/ LogSession(c)
      <4>1. PICK n : /\ slots' = [slots EXCEPT ![i] = n]
                     /\ n.inSeries = slots[i].inSeries /\ n.start = slots[i].start /\ n \in Slot
        <5>1. tx[c] \in LocalType
              BY DEF Typed, TypedAt
        <5>2. CASE CancelSlot(c)
          <6> DEFINE n == [slots[i] EXCEPT !.cancelled = TRUE, !.active = FALSE]
          <6>1. slots' = [slots EXCEPT ![i] = n]
                BY <2>1, <5>2 DEF CancelSlot
          <6>2. n.inSeries = slots[i].inSeries /\ n.start = slots[i].start /\ n \in Slot
                BY <2>1 DEF Slot
          <6> HIDE DEF n
          <6> QED BY <6>1, <6>2
        <5>3. CASE RevealCoach(c)
          <6> DEFINE n == [slots[i] EXCEPT !.coach = tx[c].coach, !.revealed = TRUE]
          <6>1. slots' = [slots EXCEPT ![i] = n]
                BY <2>1, <5>3 DEF RevealCoach
          <6>2. n.inSeries = slots[i].inSeries /\ n.start = slots[i].start /\ n \in Slot
                BY <2>1, <5>1 DEF Slot, LocalType
          <6> HIDE DEF n
          <6> QED BY <6>1, <6>2
        <5>4. CASE LogSession(c)
          <6> DEFINE coach == Given(tx[c].coach, slots[i].coach)
                     n == [slots[i] EXCEPT !.logged = TRUE, !.coach = coach]
          <6>1. slots' = [slots EXCEPT ![i] = n]
                BY <2>1, <5>4 DEF LogSession
          <6>2. coach \in Coaches \cup {Null}
                BY <2>1, <5>1 DEF Slot, LocalType, Given
          <6>3. n.inSeries = slots[i].inSeries /\ n.start = slots[i].start /\ n \in Slot
            <7> HIDE DEF coach
            <7> QED BY <2>1, <6>2 DEF Slot
          <6> HIDE DEF n
          <6> QED BY <6>1, <6>3
        <5> QED BY <3>2, <5>2, <5>3, <5>4
      <4>2. UNCHANGED <<excused, disturbed>>
            BY <3>2 DEF CancelSlot, RevealCoach, LogSession
      <4> QED BY <4>1, <4>2, NullApart
    <3> QED BY <3>1, <3>2
  <2>3. slots'[i] = n /\ \A k \in Ids \ {i} : slots'[k] = slots[k]
        BY <1>0, <2>2 DEF Tables
  <2>4. \A k \in Ids : slots'[k] # Null /\ slots'[k].inSeries =>
          k \in SeriesSlots /\ (slots'[k].start = slots[k].start \/ disturbed')
    <3>1. ASSUME NEW k \in Ids, slots'[k] # Null, slots'[k].inSeries
          PROVE  k \in SeriesSlots /\ (slots'[k].start = slots[k].start \/ disturbed')
      <4>1. CASE k = i
            BY <2>1, <2>2, <2>3, <3>1, <4>1, InSeries
      <4>2. CASE k # i
            BY <2>3, <3>1, <4>2, InSeries
      <4> QED BY <4>1, <4>2
    <3> QED BY <3>1
  <2>5. \A k \in Ids : slots[k] # Null =>
          /\ slots'[k] # Null /\ slots'[k].inSeries = slots[k].inSeries
          /\ slots'[k].start = slots[k].start \/ slots[k].start \in excused'
        BY <2>2, <2>3
  <2> QED BY <1>0, <1>1, <1>2, <2>2, <2>4, <2>5, KeepsSeries
<1> QED BY <1>3, <1>4

\* A deleted slot leaves its day excused; the first one of three a week is not deleted unnoticed.
LEMMA DeletionSeries ==
    ASSUME WellFormed, Typed, Typed', Regular, Grouped, NEW c \in Calls, DeleteSlot(c) \/ DeleteSeries(c)
    PROVE  Regular' /\ Grouped'
<1> DEFINE i == tx[c].slot
<1>0. Tables /\ Tables'
      BY DEF Typed
<1>1. CASE DeleteSlot(c)
  <2>0. i \in Ids /\ UNCHANGED <<series, frequency>>
        BY <1>1 DEF DeleteSlot, WellFormed, HandlerOK, OnSlot
  <2>1. CASE ~Exists(i)
    <3>1. UNCHANGED <<slots, excused, disturbed>> /\ Goto(c, "done", NoTx)
          BY <1>1, <2>1 DEF DeleteSlot, Answer
    <3>2. "done" \notin ForSeries
          BY DEF ForSeries
    <3> QED BY <2>0, <3>1, <3>2, ReadingKeepsSeries
  <2>2. CASE Exists(i)
    <3>1. /\ slots[i] # Null /\ slots' = [slots EXCEPT ![i] = Null]
          /\ excused' = excused \cup {slots[i].start}
          /\ disturbed' = (disturbed \/ (frequency = "THRICE_A_WEEK" /\ i \in SeriesSlots
                                        /\ \A x \in SeriesSlots : slots[x].start >= slots[i].start))
          /\ IF slots[i].inSeries THEN Goto(c, "countSeries", tx[c]) ELSE Goto(c, "done", NoTx)
          BY <1>1, <2>2 DEF DeleteSlot, Exists, Answer
    <3>2. slots'[i] = Null /\ \A k \in Ids \ {i} : slots'[k] = slots[k]
          BY <1>0, <2>0, <3>1 DEF Tables
    <3>3. PICK next, t : Goto(c, next, t) /\ next \in {"done", "countSeries"}
                         /\ (next = "countSeries" => slots[i].inSeries)
          BY <3>1
    <3>4. /\ pc'[c] = next /\ \A d \in Calls \ {c} : pc'[d] = pc[d] /\ tx'[d] = tx[d]
          BY <3>3, Moves
    <3>5. next = "countSeries" => SeriesSlots # {}
          BY <2>0, <3>1, <3>3, InSeries
    <3>6. \A k \in Ids : slots'[k] # Null /\ slots'[k].inSeries =>
            k \in SeriesSlots /\ slots'[k].start = slots[k].start
      <4>1. ASSUME NEW k \in Ids, slots'[k] # Null, slots'[k].inSeries
            PROVE  k \in SeriesSlots /\ slots'[k].start = slots[k].start
        <5>1. k # i /\ slots'[k] = slots[k]
              BY <3>2, <4>1
        <5> QED BY <4>1, <5>1, InSeries
      <4> QED BY <4>1
    <3>7. Grouped'
      <4>1. \A d \in Calls : pc'[d] \in ForSeries =>
              \/ pc'[d] = pc[d]
              \/ /\ pc'[d] # "insertSeries"
                 /\ SeriesSlots # {} \/ pc[d] \in ForSeries \ {"insertSeries"}
            BY <3>3, <3>4, <3>5 DEF ForSeries
      <4> QED BY <2>0, <3>6, <4>1, KeepsGrouped
    <3>8. ASSUME ~disturbed', series' # "deleted" PROVE Regular'
      <4>1. ~disturbed /\ series # "deleted"
            BY <2>0, <3>1, <3>8
      <4>2. \A k \in Ids : slots[k] # Null =>
              (slots'[k] # Null /\ slots'[k].start = slots[k].start) \/ slots[k].start \in excused'
            BY <3>1, <3>2
      <4>3. ASSUME frequency = "THRICE_A_WEEK", NEW k \in SeriesSlots, slots[k].start = InitialDay
            PROVE  slots'[k] # Null /\ slots'[k].inSeries
        <5>1. k # i
          <6>1. SUFFICES ASSUME k = i PROVE FALSE
                OBVIOUS
          <6>2. \A x \in SeriesSlots : slots[x].start >= slots[i].start
            <7>1. ASSUME NEW x \in SeriesSlots PROVE slots[x].start >= slots[i].start
              <8>1. InitialDay <= slots[x].start /\ slots[x].start \in Nat
                    BY <1>0, FirstDay, InSeries, SlotFields
              <8>2. InitialDay \in Nat
                    BY <1>0, FirstDay
              <8> HIDE DEF InitialDay
              <8> QED BY <4>3, <6>1, <8>1, <8>2
            <7> QED BY <7>1
          <6> QED BY <3>1, <3>8, <4>3, <6>1, <6>2
        <5> QED BY <3>2, <5>1, InSeries
      <4>4. \A d \in Calls : pc'[d] \in Reading => pc'[d] = pc[d] /\ tx'[d] = tx[d]
            BY <3>3, <3>4 DEF Reading
      <4>5. excused \subseteq excused'
            BY <3>1
      <4> QED BY <1>0, <2>0, <3>6, <4>1, <4>2, <4>3, <4>4, <4>5, KeepsRegular
    <3> QED BY <3>7, <3>8 DEF Regular
  <2> QED BY <2>1, <2>2
<1>2. CASE DeleteSeries(c)
  <2>1. /\ series' = "deleted" /\ Goto(c, "done", NoTx) /\ pc[c] = "deleteSeries"
        /\ slots' = [k \in Ids |-> IF k \in SeriesSlots THEN [slots[k] EXCEPT !.inSeries = FALSE] ELSE slots[k]]
        BY <1>2 DEF DeleteSeries, Answer
  <2>2. ASSUME NEW k \in Ids, slots'[k] # Null PROVE ~slots'[k].inSeries
    <3>1. CASE k \in SeriesSlots
      <4>1. slots[k] \in Slot
            BY <1>0, <3>1, InSeries, SlotFields
      <4>2. slots'[k] = [slots[k] EXCEPT !.inSeries = FALSE]
            BY <2>1, <3>1
      <4> QED BY <4>1, <4>2 DEF Slot
    <3>2. CASE k \notin SeriesSlots
          BY <2>1, <2>2, <3>2, InSeries
    <3> QED BY <3>1, <3>2
  <2>3. SeriesSlots' = {}
        BY <2>2, InSeriesNext
  <2>4. /\ pc'[c] = "done" /\ \A d \in Calls \ {c} : pc'[d] = pc[d]
        BY <2>1, Moves
  <2>5. \A d \in Calls : pc'[d] # "insertSeries"
    <3>1. ASSUME NEW d \in Calls, pc'[d] = "insertSeries" PROVE FALSE
      <4>1. d # c /\ pc[d] = "insertSeries"
            BY <2>4, <3>1
      <4>2. pc[c] \in ForSeries
            BY <2>1 DEF ForSeries
      <4> QED BY <4>1, <4>2 DEF Grouped
    <3> QED BY <3>1
  <2> QED BY <2>1, <2>3, <2>5 DEF Regular, Grouped
<1> QED BY <1>1, <1>2

\* New slots leave the others where they are.
LEMMA InsertionKeeps ==
    ASSUME Tables, NEW row, NEW days,
           \A i \in Ids : \/ slots'[i] = slots[i]
                          \/ /\ slots[i] = Null
                             /\ \E d \in days : SlotsAt(d) = {} /\ slots'[i] = [row EXCEPT !.start = d],
           \A d \in days : SlotsAt(d) = {} =>
             \E i \in Ids : slots[i] = Null /\ slots'[i] = [row EXCEPT !.start = d],
           \A d \in days : /\ [row EXCEPT !.start = d] # Null /\ [row EXCEPT !.start = d].start = d
                           /\ [row EXCEPT !.start = d].inSeries = TRUE,
           excused' = excused
    PROVE  /\ CoveredDays \subseteq CoveredDays' /\ days \subseteq CoveredDays'
           /\ \A i \in SeriesSlots : i \in SeriesSlots' /\ slots'[i] = slots[i]
           /\ \A i \in SeriesSlots' : (i \in SeriesSlots /\ slots'[i] = slots[i]) \/ slots'[i].start \in days
           /\ \A d \in days : SlotsAt(d) = {} => \E i \in SeriesSlots' : slots'[i].start = d
<1>1. ASSUME NEW i \in Ids, slots[i] # Null PROVE slots'[i] = slots[i] /\ slots[i].start \in CoveredDays'
  <2>1. slots'[i] = slots[i]
        BY <1>1
  <2> QED BY <1>1, <2>1 DEF CoveredDays
<1>2. \A d \in excused : d \in CoveredDays'
      BY DEF CoveredDays
<1>3. CoveredDays \subseteq CoveredDays'
      BY <1>1, <1>2 DEF CoveredDays
<1>4. ASSUME NEW d \in days, SlotsAt(d) = {} PROVE \E i \in SeriesSlots' : slots'[i].start = d
  <2>1. PICK i \in Ids : slots'[i] = [row EXCEPT !.start = d]
        BY <1>4
  <2>2. slots'[i] # Null /\ slots'[i].start = d /\ slots'[i].inSeries
        BY <2>1
  <2> QED BY <2>2, InSeriesNext
<1>5. ASSUME NEW d \in days PROVE d \in CoveredDays'
  <2>1. CASE SlotsAt(d) = {}
    <3>1. PICK i \in SeriesSlots' : slots'[i].start = d
          BY <1>4, <2>1
    <3>2. i \in Ids /\ slots'[i] # Null
          BY InSeriesNext
    <3> QED BY <3>1, <3>2 DEF CoveredDays
  <2>2. CASE SlotsAt(d) # {}
    <3>1. PICK i \in Ids : slots[i] # Null /\ slots[i].start = d
          BY <2>2 DEF SlotsAt, Exists
    <3> QED BY <1>1, <3>1
  <2> QED BY <2>1, <2>2
<1>6. ASSUME NEW i \in SeriesSlots PROVE i \in SeriesSlots' /\ slots'[i] = slots[i]
  <2>1. i \in Ids /\ slots[i] # Null /\ slots[i].inSeries
        BY InSeries
  <2>2. slots'[i] = slots[i]
        BY <1>1, <2>1
  <2> QED BY <2>1, <2>2, InSeriesNext
<1>7. ASSUME NEW i \in SeriesSlots'
      PROVE  (i \in SeriesSlots /\ slots'[i] = slots[i]) \/ slots'[i].start \in days
  <2>1. i \in Ids /\ slots'[i] # Null /\ slots'[i].inSeries
        BY InSeriesNext
  <2>2. CASE slots'[i] = slots[i]
        BY <2>1, <2>2, InSeries
  <2>3. CASE slots'[i] # slots[i]
    <3>1. PICK d \in days : slots'[i] = [row EXCEPT !.start = d]
          BY <2>1, <2>3
    <3> QED BY <3>1
  <2> QED BY <2>2, <2>3
<1> QED BY <1>3, <1>4, <1>5, <1>6, <1>7

LEMMA InsertSlotSeries ==
    ASSUME WellFormed, Typed, Typed', Regular, Grouped, NEW c \in Calls, InsertSlot(c)
    PROVE  Regular' /\ Grouped'
<1> DEFINE t == tx[c]
           row == NewSlot(t.start, t.coach, t.capacity, FALSE)
<1>0. /\ Goto(c, "done", NoTx) /\ UNCHANGED <<series, frequency, excused, disturbed>>
      /\ SlotRows /\ t.start \in Nat /\ "done" \notin ForSeries
      BY DEF InsertSlot, Answer, WellFormed, Typed, TypedAt, OnDay, ForSeries
<1>1. CASE UNCHANGED slots
      BY <1>0, <1>1, ReadingKeepsSeries
<1>2. CASE ~UNCHANGED slots
  <2>1. Insert({t.start}, row)
        BY <1>2 DEF InsertSlot
  <2>2. {t.start} \in SUBSET Nat /\ IsFiniteSet({t.start})
        BY <1>0, FS_Singleton
  <2>3. \A d : [row EXCEPT !.start = d].inSeries = FALSE
        BY DEF NewSlot
  <2> HIDE DEF row
  <2>4. \A i \in Ids : slots'[i] = slots[i] \/ (slots[i] = Null /\ slots'[i].inSeries = FALSE)
    <3>1. \A i \in Ids : \/ slots'[i] = slots[i]
                         \/ /\ slots[i] = Null
                            /\ \E d \in {t.start} : SlotsAt(d) = {} /\ slots'[i] = [row EXCEPT !.start = d]
          BY <1>0, <2>1, <2>2, Inserted
    <3> QED BY <2>3, <3>1
  <2>5. \A i \in Ids : slots'[i] # Null /\ slots'[i].inSeries =>
           i \in SeriesSlots /\ slots'[i].start = slots[i].start
        BY <2>4, InSeries
  <2>6. \A i \in Ids : slots[i] # Null => slots'[i] = slots[i]
        BY <2>4
  <2> QED BY <1>0, <2>5, <2>6, KeepsSeries
<1> QED BY <1>1, <1>2

\* The days of a replenishment continue the series.
LEMMA ReplenishSeries ==
    ASSUME EndlessCalendar, WellFormed, Typed, Typed', Regular, Grouped, NEW c \in Calls, Replenish(c)
    PROVE  Regular' /\ Grouped'
<1> DEFINE t == tx[c]
           s == tx[c].start
           days == Upcoming(t.start, frequency, t.phase, t.until)
           plain == NewSlot(0, t.coach, t.capacity, TRUE)
           row == [plain EXCEPT !.active = t.active]
<1>0. /\ Goto(c, "done", NoTx) /\ UNCHANGED <<series, frequency, excused, disturbed>>
      /\ pc[c] = "replenish" /\ t \in LocalType /\ s \in Nat /\ t.phase \in 0..2 /\ t.until \in Nat
      /\ frequency \in Frequencies /\ series # "none"
      /\ Tables /\ Tables' /\ SlotRows /\ "done" \notin ForSeries
  <2>1. /\ Goto(c, "done", NoTx) /\ UNCHANGED <<series, frequency, excused, disturbed>>
        /\ pc[c] = "replenish"
        BY DEF Replenish, Answer
  <2>2. /\ t \in LocalType /\ s \in Nat /\ series # "none" /\ Tables /\ Tables'
        BY <2>1 DEF Typed, TypedAt, OnDay, OnSeriesGroup
  <2>3. t.phase \in 0..2 /\ t.until \in Nat
        BY <2>2 DEF LocalType
  <2> QED BY <2>1, <2>2, <2>3 DEF Tables, WellFormed, ForSeries
<1>1. CASE series = "deleted"
  <2>1. UNCHANGED slots
        BY <1>1 DEF Replenish
  <2> QED BY <1>0, <2>1, ReadingKeepsSeries
<1>2. CASE series # "deleted"
  <2>1. Insert(days, row)
        BY <1>2 DEF Replenish
  <2>2. \A n \in Nat : Occurrence(s, frequency, t.phase, n) \in Nat
    <3> DEFINE phase == t.phase
    <3>1. phase \in Nat
          BY <1>0
    <3> HIDE DEF s, phase
    <3>2. \A n \in Nat : Occurrence(s, frequency, phase, n) \in Nat
          BY <1>0, <3>1, DatesForward
    <3> QED BY <3>2 DEF phase
  <2>3. days \in SUBSET Nat /\ IsFiniteSet(days)
    <3>1. IsFiniteSet(days)
          BY UpcomingFinite
    <3> QED BY <2>2, <3>1 DEF Upcoming
  <2>4. /\ \A i \in Ids : \/ slots'[i] = slots[i]
                          \/ /\ slots[i] = Null
                             /\ \E d \in days : SlotsAt(d) = {} /\ slots'[i] = [row EXCEPT !.start = d]
        /\ \A d \in days : SlotsAt(d) = {} =>
             \E i \in Ids : slots[i] = Null /\ slots'[i] = [row EXCEPT !.start = d]
    <3> HIDE DEF days, row
    <3> QED BY <1>0, <2>1, <2>3, Inserted
  <2>5. \A d \in days : /\ [row EXCEPT !.start = d] # Null /\ [row EXCEPT !.start = d].start = d
                        /\ [row EXCEPT !.start = d].inSeries = TRUE
    <3>1. ASSUME NEW d \in days PROVE [row EXCEPT !.start = d] # Null
      <4>1. [row EXCEPT !.start = d] \in Slot
        <5>1. d \in Nat /\ t.coach \in Coaches \cup {Null} /\ t.capacity \in Nat \cup {Null} /\ t.active \in BOOLEAN
              BY <1>0, <2>3 DEF LocalType
        <5> HIDE DEF days, t
        <5>2. row \in Slot
              BY <5>1 DEF NewSlot, Slot
        <5> HIDE DEF row
        <5> QED BY <5>1, <5>2 DEF Slot
      <4> HIDE DEF row
      <4> QED BY <4>1, NullApart
    <3>2. ASSUME NEW d \in days
          PROVE  [row EXCEPT !.start = d].start = d /\ [row EXCEPT !.start = d].inSeries = TRUE
      <4> HIDE DEF days, t
      <4> QED BY DEF NewSlot
    <3> QED BY <3>1, <3>2
  <2> HIDE DEF row
  <2>6. /\ CoveredDays \subseteq CoveredDays' /\ days \subseteq CoveredDays'
        /\ \A i \in SeriesSlots : i \in SeriesSlots' /\ slots'[i] = slots[i]
        /\ \A i \in SeriesSlots' : (i \in SeriesSlots /\ slots'[i] = slots[i]) \/ slots'[i].start \in days
        /\ \A d \in days : SlotsAt(d) = {} => \E i \in SeriesSlots' : slots'[i].start = d
    <3> HIDE DEF days
    <3> QED BY <1>0, <2>4, <2>5, InsertionKeeps
  <2>7. /\ pc'[c] = "done" /\ \A d \in Calls \ {c} : pc'[d] = pc[d] /\ tx'[d] = tx[d]
        BY <1>0, Moves
  <2>8. Grouped'
    <3>1. \A d \in Calls : pc'[d] # "insertSeries"
      <4>1. ASSUME NEW d \in Calls, pc'[d] = "insertSeries" PROVE FALSE
        <5>1. d # c /\ pc[d] = "insertSeries"
              BY <2>7, <4>1
        <5>2. pc[c] \in ForSeries
              BY <1>0 DEF ForSeries
        <5> QED BY <5>1, <5>2 DEF Grouped
      <4> QED BY <4>1
    <3> QED BY <1>0, <1>2, <3>1 DEF Grouped
  <2>9. ASSUME ~disturbed' PROVE Regular'
    <3>1. /\ Linked(frequency, InitialDay, Days, CoveredDays)
          /\ frequency = "THRICE_A_WEEK" => \A d \in Readers : OnCycle(d)
          BY <1>0, <1>2, <2>9 DEF Regular
    <3>2. c \in Readers /\ s \in Days /\ Days \in SUBSET Nat /\ InitialDay \in Nat
          BY <1>0, DaysAreNumbers, FirstDay DEF Readers, Reading, Days
    <3>3. Follows(frequency, InitialDay, s, s) /\ s \in CoveredDays
      <4>1. s <= s /\ s \in s..s
            BY <1>0
      <4>2. Follows(frequency, InitialDay, s, s)
            BY <3>1, <3>2, <4>1 DEF Linked
      <4> QED BY <3>1, <3>2, <4>1, <4>2 DEF Linked
    <3>4. Starts(frequency, InitialDay, s) /\ InCycle(frequency, InitialDay, s, t.phase)
      <4>1. frequency = "THRICE_A_WEEK" => /\ (s - InitialDay) % 7 \in {0, 2, 4}
                                           /\ t.phase = CyclePhase(s - InitialDay)
            BY <1>0, <3>1, <3>2, <3>3 DEF Follows, OnCycle
      <4>2. t.phase % 3 = t.phase
            BY <1>0
      <4> QED BY <4>1, <4>2 DEF Starts, InCycle
    <3>5. ASSUME NEW y \in days
          PROVE  /\ s <= y /\ Follows(frequency, InitialDay, s, y)
                 /\ \A d \in s..y : Follows(frequency, InitialDay, s, d) => d \in CoveredDays'
      <4>1. PICK n \in 1..MaxIterations : y = Occurrence(s, frequency, t.phase, n) /\ y < t.until
            BY DEF Upcoming
      <4>2. n \in Nat /\ n # 0 /\ n <= MaxIterations /\ t.phase \in Nat /\ y \in Nat
            BY <1>0, <2>3, RecurrenceAssumption
      <4>3. s < y
            BY <1>0, <4>1, <4>2, DatesForward
      <4>4. /\ Follows(frequency, InitialDay, s, y)
            /\ \A d \in Nat : s <= d /\ d <= y /\ Follows(frequency, InitialDay, s, d) =>
                 \E k \in 0..n : d = Occurrence(s, frequency, t.phase, k)
        <5> HIDE DEF days, s, t
        <5>1. \A m \in Nat :
                /\ Follows(frequency, InitialDay, s, Occurrence(s, frequency, t.phase, m))
                /\ \A d \in Nat : s <= d /\ d <= Occurrence(s, frequency, t.phase, m)
                                  /\ Follows(frequency, InitialDay, s, d) =>
                     \E k \in 0..m : d = Occurrence(s, frequency, t.phase, k)
              BY <1>0, <3>2, <3>4, <4>2, DatesFollow
        <5> QED BY <4>1, <4>2, <5>1
      <4>5. ASSUME NEW d \in s..y, Follows(frequency, InitialDay, s, d) PROVE d \in CoveredDays'
        <5>1. d \in Nat /\ s <= d /\ d <= y
              BY <1>0, <4>2
        <5>2. PICK k \in 0..n : d = Occurrence(s, frequency, t.phase, k)
              BY <4>4, <4>5, <5>1
        <5>3. CASE k = 0
          <6>1. d = s
                BY <1>0, <4>2, <5>2, <5>3, OccurrenceSteps
          <6> QED BY <2>6, <3>3, <6>1
        <5>4. CASE k # 0
          <6>1. k \in 1..MaxIterations
                BY <4>2, <5>4, RecurrenceAssumption
          <6>2. d < t.until
                BY <1>0, <4>1, <4>2, <5>1
          <6>3. d \in days
                BY <5>2, <6>1, <6>2 DEF Upcoming
          <6> QED BY <2>6, <6>3
        <5> QED BY <5>3, <5>4
      <4>6. s <= y
            BY <1>0, <4>2, <4>3
      <4> QED BY <4>4, <4>5, <4>6
    <3> HIDE DEF days
    <3>6. Linked(frequency, InitialDay, Days \cup days, CoveredDays')
      <4>1. Linked(frequency, InitialDay, Days, CoveredDays')
            BY <2>6, <3>1, LinkedWithin
      <4> HIDE DEF s, t
      <4> QED BY <1>0, <2>3, <3>2, <3>5, <4>1, LinkedExtended
    <3>7. Days' \subseteq Days \cup days
      <4>1. ASSUME NEW i \in SeriesSlots' PROVE slots'[i].start \in Days \cup days
            BY <2>6 DEF Days
      <4>2. ASSUME NEW d \in Readers' PROVE tx'[d].start \in Days
        <5>1. d \in Readers /\ tx'[d] = tx[d]
              BY <2>7 DEF Readers, Reading
        <5> QED BY <5>1 DEF Days
      <4> QED BY <4>1, <4>2 DEF Days
    <3>8. frequency = "THRICE_A_WEEK" => InitialDay' = InitialDay /\ SeriesSlots' # {}
      <4> SUFFICES ASSUME frequency = "THRICE_A_WEEK" PROVE InitialDay' = InitialDay /\ SeriesSlots' # {}
          OBVIOUS
      <4>1. SeriesSlots # {} /\ InitialDay <= s
            BY <3>1, <3>2 DEF OnCycle
      <4>2. PICK i \in SeriesSlots : slots[i].start = InitialDay
            BY <1>0, <4>1, FirstDay
      <4>3. i \in SeriesSlots' /\ slots'[i].start = InitialDay
            BY <2>6, <4>2
      <4>4. InitialDay' <= InitialDay /\ InitialDay' \in Nat
            BY <1>0, <4>3, FirstDayNext
      <4>5. PICK j \in SeriesSlots' : slots'[j].start = InitialDay'
            BY <1>0, <4>3, FirstDayNext
      <4>6. InitialDay <= InitialDay'
        <5>1. CASE j \in SeriesSlots /\ slots'[j] = slots[j]
              BY <1>0, <4>5, <5>1, FirstDay
        <5>2. CASE slots'[j].start \in days
          <6>1. s <= InitialDay'
                BY <3>5, <4>5, <5>2
          <6> HIDE DEF InitialDay
          <6> QED BY <1>0, <3>2, <4>1, <4>4, <6>1
        <5> QED BY <2>6, <5>1, <5>2
      <4>7. InitialDay' = InitialDay
        <5> HIDE DEF InitialDay
        <5> QED BY <3>2, <4>4, <4>6
      <4> QED BY <4>3, <4>7
    <3>9. Linked(frequency', InitialDay', Days', CoveredDays')
          BY <1>0, <3>6, <3>7, <3>8, LinkedWithin
    <3>10. ASSUME frequency' = "THRICE_A_WEEK", NEW d \in Readers' PROVE OnCycle(d)'
      <4>1. d \in Readers /\ tx'[d] = tx[d] /\ pc'[d] = pc[d]
            BY <2>7 DEF Readers, Reading
      <4>2. OnCycle(d)
            BY <1>0, <3>1, <3>10, <4>1
      <4>3. /\ SeriesSlots' # {} /\ InitialDay' <= tx'[d].start
            /\ pc'[d] = "replenish" => tx'[d].phase = CyclePhase(tx'[d].start - InitialDay')
            BY <1>0, <3>8, <3>10, <4>1, <4>2 DEF OnCycle
      <4> QED BY <4>3 DEF OnCycle
    <3> QED BY <3>9, <3>10 DEF Regular
  <2> QED BY <2>8, <2>9 DEF Regular
<1> QED BY <1>1, <1>2

\* The first slots of a series are those of its dates, but for the days that have a slot already.
LEMMA InsertSeriesSeries ==
    ASSUME EndlessCalendar, WellFormed, Typed, Typed', Regular, Grouped, NEW c \in Calls, InsertSeries(c)
    PROVE  Regular' /\ Grouped'
<1> DEFINE t == tx[c]
           s == tx[c].start
           days == {Occurrence(t.start, frequency, 0, n) : n \in 0..Occurrences - 1}
           row == NewSlot(0, t.coach, t.capacity, TRUE)
<1>0. /\ Goto(c, "done", NoTx) /\ UNCHANGED <<series, frequency, excused>>
      /\ disturbed' = (frequency = "THRICE_A_WEEK" /\ SlotsAt(s) # {})
      /\ pc[c] = "insertSeries" /\ t \in LocalType /\ s \in Nat /\ Insert(days, row)
      /\ frequency \in Frequencies /\ Tables /\ Tables' /\ SlotRows
  <2>1. /\ Goto(c, "done", NoTx) /\ UNCHANGED <<series, frequency, excused>>
        /\ disturbed' = (frequency = "THRICE_A_WEEK" /\ SlotsAt(s) # {})
        /\ pc[c] = "insertSeries" /\ Insert(days, row)
        BY DEF InsertSeries, Answer
  <2>2. /\ t \in LocalType /\ s \in Nat /\ series # "none" /\ Tables /\ Tables'
        BY <2>1 DEF Typed, TypedAt, OnDay, OnSeriesGroup
  <2> QED BY <2>1, <2>2 DEF Tables, WellFormed
<1>1. /\ series \in {"active", "stopped"} /\ SeriesSlots = {}
      /\ \A d \in Calls \ {c} : pc[d] \notin ForSeries
      BY <1>0 DEF Grouped
<1>2. /\ pc'[c] = "done" /\ \A d \in Calls \ {c} : pc'[d] = pc[d] /\ tx'[d] = tx[d]
      BY <1>0, Moves
<1>3. \A d \in Calls : pc'[d] \notin ForSeries
      BY <1>1, <1>2 DEF ForSeries
<1>4. Grouped'
      BY <1>0, <1>1, <1>3 DEF Grouped, ForSeries
<1>5. days \in SUBSET Nat /\ IsFiniteSet(days) /\ s \in days
  <2>1. IsFiniteSet(days)
        BY SeriesDaysFinite
  <2>2. \A n \in Nat : Occurrence(s, frequency, 0, n) \in Nat
        BY <1>0, DatesForward
  <2>3. Occurrence(s, frequency, 0, 0) = s /\ 0 \in 0..Occurrences - 1
        BY OccurrenceSteps, SlotAdminAssumption
  <2> QED BY <2>1, <2>2, <2>3
<1>6. \A d \in days : /\ [row EXCEPT !.start = d] # Null /\ [row EXCEPT !.start = d].start = d
                      /\ [row EXCEPT !.start = d].inSeries = TRUE
  <2>1. ASSUME NEW d \in days PROVE [row EXCEPT !.start = d] # Null
    <3>1. [row EXCEPT !.start = d] \in Slot
      <4>1. d \in Nat /\ t.coach \in Coaches \cup {Null} /\ t.capacity \in Nat \cup {Null}
            BY <1>0, <1>5 DEF LocalType
      <4> HIDE DEF days, t
      <4>2. row \in Slot
            BY <4>1 DEF NewSlot, Slot
      <4> HIDE DEF row
      <4> QED BY <4>1, <4>2 DEF Slot
    <3> HIDE DEF row
    <3> QED BY <3>1, NullApart
  <2>2. ASSUME NEW d \in days
        PROVE  [row EXCEPT !.start = d].start = d /\ [row EXCEPT !.start = d].inSeries = TRUE
    <3> HIDE DEF days, t
    <3> QED BY DEF NewSlot
  <2> QED BY <2>1, <2>2
<1> HIDE DEF row
<1>7. /\ \A i \in Ids : \/ slots'[i] = slots[i]
                        \/ /\ slots[i] = Null
                           /\ \E d \in days : SlotsAt(d) = {} /\ slots'[i] = [row EXCEPT !.start = d]
      /\ \A d \in days : SlotsAt(d) = {} =>
           \E i \in Ids : slots[i] = Null /\ slots'[i] = [row EXCEPT !.start = d]
  <2> HIDE DEF days
  <2> QED BY <1>0, <1>5, Inserted
<1>8. /\ days \subseteq CoveredDays'
      /\ \A i \in SeriesSlots' : (i \in SeriesSlots /\ slots'[i] = slots[i]) \/ slots'[i].start \in days
      /\ \A d \in days : SlotsAt(d) = {} => \E i \in SeriesSlots' : slots'[i].start = d
  <2> HIDE DEF days
  <2> QED BY <1>0, <1>6, <1>7, InsertionKeeps
<1>9. ASSUME ~disturbed' PROVE Regular'
  <2>1. Readers' = {}
        BY <1>3 DEF Readers, Reading, ForSeries
  <2>2. Days' \subseteq days
        BY <1>1, <1>8, <2>1 DEF Days
  <2>3. Starts(frequency, s, s) /\ InCycle(frequency, s, s, 0)
    <3>1. s - s = 0 /\ 0 % 7 = 0 /\ 0 % 3 = 0
          BY <1>0
    <3>2. CyclePhase(s - s) = 0
          BY <3>1 DEF CyclePhase
    <3> QED BY <3>1, <3>2 DEF Starts, InCycle
  <2>4. Linked(frequency, s, {s}, CoveredDays')
    <3>1. Follows(frequency, s, s, s)
          BY <1>0, <2>3, FollowsItself
    <3>2. s \in CoveredDays' /\ \A d \in s..s : d = s
          BY <1>0, <1>5, <1>8
    <3> QED BY <3>1, <3>2 DEF Linked
  <2>5. ASSUME NEW y \in days
        PROVE  /\ s <= y /\ Follows(frequency, s, s, y)
               /\ \A d \in s..y : Follows(frequency, s, s, d) => d \in CoveredDays'
    <3>1. PICK n \in 0..Occurrences - 1 : y = Occurrence(s, frequency, 0, n)
          OBVIOUS
    <3>2. n \in Nat /\ y \in Nat /\ n <= Occurrences - 1 /\ Occurrences \in Nat
          BY <1>5, SlotAdminAssumption
    <3>3. s <= y
      <4>1. 0 \in 0..n
            BY <3>2
      <4>2. Occurrence(s, frequency, 0, 0) <= Occurrence(s, frequency, 0, n)
            BY <1>0, <3>2, <4>1, DatesForward
      <4>3. Occurrence(s, frequency, 0, 0) = s
            BY <3>2, OccurrenceSteps
      <4> QED BY <3>1, <4>2, <4>3
    <3>4. /\ Follows(frequency, s, s, y)
          /\ \A d \in Nat : s <= d /\ d <= y /\ Follows(frequency, s, s, d) =>
               \E k \in 0..n : d = Occurrence(s, frequency, 0, k)
      <4> HIDE DEF days, s, t
      <4>1. \A m \in Nat :
              /\ Follows(frequency, s, s, Occurrence(s, frequency, 0, m))
              /\ \A d \in Nat : s <= d /\ d <= Occurrence(s, frequency, 0, m)
                                /\ Follows(frequency, s, s, d) =>
                   \E k \in 0..m : d = Occurrence(s, frequency, 0, k)
            BY <1>0, <2>3, DatesFollow
      <4> QED BY <3>1, <3>2, <4>1
    <3>5. ASSUME NEW d \in s..y, Follows(frequency, s, s, d) PROVE d \in CoveredDays'
      <4>1. d \in Nat /\ s <= d /\ d <= y
            BY <1>0, <3>2
      <4>2. PICK k \in 0..n : d = Occurrence(s, frequency, 0, k)
            BY <3>4, <3>5, <4>1
      <4>3. k \in 0..Occurrences - 1
            BY <3>2
      <4>4. d \in days
            BY <4>2, <4>3
      <4> QED BY <1>8, <4>4
    <3> QED BY <3>3, <3>4, <3>5
  <2> HIDE DEF days
  <2>6. Linked(frequency, s, {s} \cup days, CoveredDays')
    <3>1. {s} \in SUBSET Nat /\ s \in {s}
          BY <1>0
    <3> HIDE DEF s
    <3> QED BY <1>0, <1>5, <2>4, <2>5, <3>1, LinkedExtended
  <2>7. frequency = "THRICE_A_WEEK" => InitialDay' = s
    <3> SUFFICES ASSUME frequency = "THRICE_A_WEEK" PROVE InitialDay' = s
        OBVIOUS
    <3>1. PICK i \in SeriesSlots' : slots'[i].start = s
          BY <1>0, <1>5, <1>8, <1>9
    <3>2. InitialDay' <= s /\ InitialDay' \in Nat
          BY <1>0, <3>1, FirstDayNext
    <3>3. PICK j \in SeriesSlots' : slots'[j].start = InitialDay'
          BY <1>0, <3>1, FirstDayNext
    <3>4. s <= InitialDay'
          BY <1>1, <1>8, <2>5, <3>3
    <3> HIDE DEF InitialDay
    <3> QED BY <1>0, <3>2, <3>4
  <2>8. Linked(frequency', InitialDay', Days', CoveredDays')
        BY <1>0, <2>2, <2>6, <2>7, LinkedWithin
  <2> QED BY <2>1, <2>8 DEF Regular
<1> QED BY <1>4, <1>9 DEF Regular

LEMMA SeriesStep ==
    ASSUME EndlessCalendar, WellFormed, Typed, Typed', Regular, Grouped, [Next]_vars
    PROVE  Regular' /\ Grouped'
<1>1. CASE UNCHANGED vars \/ Tick
  <2>1. UNCHANGED <<slots, series, frequency, excused, disturbed, pc, tx>>
        BY <1>1 DEF Tick, vars, slotVars
  <2>2. /\ SeriesSlots' = SeriesSlots /\ Readers' = Readers /\ CoveredDays' = CoveredDays
        BY <2>1 DEF SeriesSlots, Exists, Readers, CoveredDays
  <2>3. InitialDay' = InitialDay /\ Days' = Days
        BY <2>1, <2>2 DEF InitialDay, Anchor, Days
  <2>4. \A c \in Calls : OnCycle(c)' <=> OnCycle(c)
        BY <2>1, <2>2, <2>3 DEF OnCycle
  <2>5. Regular'
        BY <2>1, <2>2, <2>3, <2>4 DEF Regular, Readers
  <2> QED BY <2>1, <2>2, <2>5 DEF Grouped
<1>2. ASSUME NEW c \in Calls, Receive(c) PROVE Regular' /\ Grouped'
      BY <1>2, ReceiveSeries
<1>3. ASSUME NEW c \in Calls, GiveUp(c) PROVE Regular' /\ Grouped'
      BY <1>3, QuietSeries
<1>4. ASSUME NEW c \in Calls, Serve(c) PROVE Regular' /\ Grouped'
  <2>1. CASE InsertSlot(c) \/ InsertSeries(c) \/ Replenish(c)
        BY <2>1, InsertSlotSeries, InsertSeriesSeries, ReplenishSeries
  <2>2. CASE ReadSeries(c) \/ ReadAnchor(c)
        BY <2>2, ReadSeriesSeries
  <2>3. CASE Deactivate(c) \/ CountSeries(c) \/ Cascade(c) \/ TakeSeat(c) \/ BookSeat(c)
        BY <2>3, QuietSeries
  <2>4. CASE UpdateSlot(c) \/ CancelSlot(c) \/ RevealCoach(c) \/ LogSession(c)
        BY <2>4, RewritingSeries
  <2>5. CASE DeleteSlot(c) \/ DeleteSeries(c)
        BY <2>5, DeletionSeries
  <2> QED BY <1>4, <2>1, <2>2, <2>3, <2>4, <2>5 DEF Serve
<1> QED BY <1>1, <1>2, <1>3, <1>4 DEF Next

-----------------------------------------------------------------------------
(* What the invariant says of the slots *)

LEMMA OnSeriesFollows ==
    ASSUME frequency \in Frequencies, NEW day
    PROVE  OnSeries(day) <=> Follows(frequency, Anchor, Anchor, day)
<1>1. CASE frequency = "WEEKLY"
      BY <1>1 DEF OnSeries, Follows
<1>2. CASE frequency \in {"BI_WEEKLY", "TWICE_A_MONTH"}
      BY <1>2 DEF OnSeries, Follows
<1>3. CASE frequency = "THRICE_A_WEEK"
      BY <1>3 DEF OnSeries, Follows
<1>4. CASE frequency = "MONTHLY"
      BY <1>4 DEF OnSeries, Follows, DayOf, Lengths
<1> QED BY <1>1, <1>2, <1>3, <1>4 DEF Frequencies

LEMMA SeriesShape ==
    ASSUME Tables, NEW i \in SeriesSlots
    PROVE  /\ frequency \in Frequencies /\ Anchor = InitialDay /\ Anchor \in Nat /\ Anchor <= slots[i].start
           /\ Anchor \in Days /\ slots[i].start \in Days /\ slots[i].start \in Nat
<1>1. frequency \in Frequencies
      BY InSeries DEF Tables
<1>2. Anchor = InitialDay /\ InitialDay \in Nat /\ InitialDay <= slots[i].start /\ \E j \in SeriesSlots : slots[j].start = InitialDay
  <2>1. Anchor = InitialDay
        BY DEF InitialDay
  <2> QED BY <2>1, FirstDay
<1>3. slots[i].start \in Nat
      BY InSeries, SlotFields
<1> QED BY <1>1, <1>2, <1>3 DEF Days

LEMMA RegularSeries ==
    ASSUME Tables, Regular, Grouped
    PROVE  SeriesKeepsItsDays /\ SeriesHasNoGaps
<1> SUFFICES ASSUME ~disturbed, NEW i \in SeriesSlots
             PROVE  /\ OnSeries(slots[i].start)
                    /\ \A d \in Anchor..slots[i].start : OnSeries(d) => SlotsAt(d) # {} \/ d \in excused
    BY DEF SeriesKeepsItsDays, SeriesHasNoGaps
<1>1. /\ frequency \in Frequencies /\ Anchor = InitialDay /\ Anchor \in Nat /\ Anchor <= slots[i].start
      /\ Anchor \in Days /\ slots[i].start \in Days
      BY SeriesShape
<1>2. Linked(frequency, Anchor, Days, CoveredDays)
      BY <1>1 DEF Regular, Grouped
<1>3. /\ Follows(frequency, Anchor, Anchor, slots[i].start)
      /\ \A d \in Anchor..slots[i].start : Follows(frequency, Anchor, Anchor, d) => d \in CoveredDays
      BY <1>1, <1>2 DEF Linked
<1>4. \A d \in CoveredDays : SlotsAt(d) # {} \/ d \in excused
      BY IdsAreNumbers DEF CoveredDays, SlotsAt, Exists
<1> QED BY <1>1, <1>3, <1>4, OnSeriesFollows

LEMMA InitialSeries ==
    ASSUME EndlessCalendar, Init, Typed, SeriesKeepsItsDays, SeriesHasNoGaps
    PROVE  Regular /\ Grouped
<1>1. Tables /\ ~disturbed /\ \A c \in Calls : pc[c] = "idle"
      BY DEF Typed, Init
<1>2. Readers = {} /\ Days = {slots[i].start : i \in SeriesSlots}
      BY <1>1 DEF Readers, Reading, Days
<1>3. ASSUME NEW x \in Days, NEW y \in Days, x <= y
      PROVE  /\ Follows(frequency, InitialDay, x, y)
             /\ \A d \in x..y : Follows(frequency, InitialDay, x, d) => d \in CoveredDays
  <2>1. PICK i \in SeriesSlots : x = slots[i].start
        BY <1>2
  <2>2. PICK j \in SeriesSlots : y = slots[j].start
        BY <1>2
  <2>3. /\ frequency \in Frequencies /\ Anchor = InitialDay /\ Anchor \in Nat /\ Anchor <= x /\ Anchor <= y
        /\ x \in Nat /\ y \in Nat
        BY <1>1, <2>1, <2>2, SeriesShape
  <2>4. Follows(frequency, Anchor, Anchor, x) /\ Follows(frequency, Anchor, Anchor, y)
        BY <1>1, <2>1, <2>2, <2>3, OnSeriesFollows DEF SeriesKeepsItsDays
  <2>5. Follows(frequency, Anchor, x, y)
    <3> HIDE DEF Anchor
    <3> QED BY <1>3, <2>3, <2>4, FollowsOn
  <2>6. ASSUME NEW d \in x..y, Follows(frequency, Anchor, x, d) PROVE d \in CoveredDays
    <3>1. d \in Nat /\ x <= d /\ d <= y /\ d \in Anchor..slots[j].start
      <4> HIDE DEF Anchor
      <4> QED BY <2>2, <2>3
    <3>2. Follows(frequency, Anchor, Anchor, d)
      <4> HIDE DEF Anchor
      <4> QED BY <2>3, <2>4, <2>6, <3>1, FollowsOn
    <3>3. SlotsAt(d) # {} \/ d \in excused
          BY <1>1, <2>3, <3>1, <3>2, OnSeriesFollows DEF SeriesHasNoGaps
    <3> QED BY <3>3 DEF SlotsAt, Exists, CoveredDays
  <2> QED BY <2>3, <2>5, <2>6
<1>4. Regular
      BY <1>2, <1>3 DEF Regular, Linked
<1>5. Grouped
  <2>1. series \in {"none", "deleted"} => SeriesSlots = {}
    <3>1. PICK s \in Initial : slots = s.slots /\ series = s.series
          BY DEF Init
    <3>2. \A i \in Ids : slots[i] # Null /\ slots[i].inSeries => series \in {"active", "stopped"}
          BY <3>1, InitialAssumption
    <3> QED BY <3>2, InSeries
  <2> QED BY <1>1, <2>1 DEF Grouped
<1> QED BY <1>4, <1>5

LEMMA SeriesSafety ==
    ASSUME EndlessCalendar
    PROVE  Spec /\ SeriesKeepsItsDays /\ SeriesHasNoGaps => [](SeriesKeepsItsDays /\ SeriesHasNoGaps)
<1> DEFINE Safe == WellFormed /\ Typed /\ Regular /\ Grouped
<1>1. Init /\ SeriesKeepsItsDays /\ SeriesHasNoGaps => Safe
      BY InitWellFormed, InitTyped, InitialSeries
<1>2. Safe /\ [Next]_vars => Safe'
  <2> SUFFICES ASSUME Safe, [Next]_vars PROVE Safe'
      OBVIOUS
  <2>1. WellFormed' /\ Typed'
        BY StepKeeps, StepTyped
  <2>2. Regular' /\ Grouped'
        BY <2>1, SeriesStep
  <2> QED BY <2>1, <2>2
<1>3. Safe => SeriesKeepsItsDays /\ SeriesHasNoGaps
      BY RegularSeries DEF Typed
<1> HIDE DEF Safe
<1> QED BY <1>1, <1>2, <1>3, PTL DEF Spec

\* A series that has its days and no gap at first keeps its days, whatever listings replenish it at
\* once, and whatever is created, cancelled, updated or deleted meanwhile: advanceRecurrenceFloating
\* leads every replenishment from a day of the series to days of the series.  An event without a
\* series satisfies the condition.
THEOREM SeriesDays ==
    ASSUME EndlessCalendar
    PROVE  Spec /\ SeriesKeepsItsDays /\ SeriesHasNoGaps => []SeriesKeepsItsDays
<1>1. Spec /\ SeriesKeepsItsDays /\ SeriesHasNoGaps => [](SeriesKeepsItsDays /\ SeriesHasNoGaps)
      BY SeriesSafety
<1> QED BY <1>1, PTL

\* Such a series goes on without a gap: a replenishment that starts from an older slot than another
\* one, or that stops at the limit of its iterations, passes no day over.
THEOREM SeriesWithoutGaps ==
    ASSUME EndlessCalendar
    PROVE  Spec /\ SeriesKeepsItsDays /\ SeriesHasNoGaps => []SeriesHasNoGaps
<1>1. Spec /\ SeriesKeepsItsDays /\ SeriesHasNoGaps => [](SeriesKeepsItsDays /\ SeriesHasNoGaps)
      BY SeriesSafety
<1> QED BY <1>1, PTL
=============================================================================
