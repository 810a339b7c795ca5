----------------------------- MODULE MCSlotAdmin -----------------------------
(***************************************************************************)
(* An event with a series on days 1, 3 and 5 and a booked first session,   *)
(* with the first slot of a series of any frequency, or without slots.     *)
(* Two requests of staff and one more, of a student or of another member   *)
(* of the staff.                                                           *)
(***************************************************************************)
EXTENDS SlotAdmin, TLC

CONSTANTS ann, bob, b1, b2, r1, r2, r3

MCAsks ==
    LET list == [op |-> "list"]
        log(noted, present, coach) ==
            [op |-> "log", slot |-> 1, noted |-> noted, present |-> present, coach |-> coach]
        update(fields) ==
            [op |-> "update", slot |-> 1, fields |-> fields, start |-> 3, coach |-> bob, capacity |-> 2,
             active |-> FALSE, cancelled |-> FALSE]
    IN  r1 :> {list, [op |-> "resume"], log({b1, b2}, {b1, b2}, Null), log({b1}, {b1}, Null),
               [op |-> "cancel", slot |-> 1], [op |-> "reveal", slot |-> 1, coach |-> bob]}
              \cup [op: {"createSeries"}, start: {3}, coach: {ann}, capacity: {1}, frequency: Frequencies]
        @@ r2 :> {list, [op |-> "stop"], log({b1}, {}, Null), log({}, {}, bob),
                  update({"start"}), [update({"start", "coach"}) EXCEPT !.start = 2],
                  update({"coach"}), [update({"coach"}) EXCEPT !.coach = ann],
                  [update({"coach"}) EXCEPT !.coach = Null], update({"capacity", "active", "cancelled"}),
                  [op |-> "create", start |-> 3, coach |-> Null, capacity |-> Null]}
                 \cup [op: {"delete"}, slot: {1, 2, 3}]
        @@ r3 :> {list, [op |-> "book", booking |-> b2, start |-> 1], [op |-> "delete", slot |-> 1]}
                 \cup [op: {"book"}, booking: {b1}, start: {1, 3}]
                 \cup [op: {"status"}, booking: {b1}, status: {"CONFIRMED", "CANCELLED"}]

Session(day) == [NewSlot(day, ann, 1, TRUE) EXCEPT !.capacity = 2]

MCInitial ==
    LET none == [i \in Ids |-> Null]
        first == [status |-> "CONFIRMED", slot |-> 1, start |-> 1, coach |-> ann,
                  attendance |-> Null]
    IN  {[slots |-> none, series |-> "none", frequency |-> Null, bookings |-> [b \in Bookings |-> Null]],
         [slots |-> [none EXCEPT ![1] = Session(1), ![2] = Session(3), ![3] = Session(5)],
          series |-> "active", frequency |-> "THRICE_A_WEEK", bookings |-> b1 :> first @@ b2 :> Null]}
        \cup {[slots |-> [none EXCEPT ![1] = [Session(IF f = "MONTHLY" THEN 3 ELSE 1) EXCEPT !.coach = Null]],
               series |-> "active", frequency |-> f, bookings |-> [b \in Bookings |-> Null]] :
                 f \in Frequencies}

\* Months of four and three days
MCMonthStarts == {0, 4, 7, 11, 14, 18, 21, 25, 28, 32, 35, 39, 42}
=============================================================================
