--------------------------- MODULE BookingLedger ---------------------------
(***************************************************************************)
(* What the booking domain promises its students, without requests, locks  *)
(* or coaches: a ledger of sessions, in which a place is taken only if the *)
(* student is free and, on a slot with limited seats, a seat is left.      *)
(* Taking a place is one indivisible step, whoever else is booking.        *)
(***************************************************************************)
EXTENDS Integers, FiniteSets

CONSTANTS
    Ids,            \* the entries a ledger can hold
    Entry,          \* [event, start, student, slot]
    Limit(_),       \* seats of a slot, Null when unlimited
    Meet(_, _),     \* two entries share an instant
    Null

VARIABLE ledger     \* ledger[b]: the place b holds, or Null

Init == ledger = [b \in Ids |-> Null]

Taken(b) == ledger[b] # Null

\* The student of entry x is busy with no other entry at that time.
StudentFree(b, x) ==
    \A a \in Ids \ {b} : Taken(a) /\ ledger[a].student = x.student => ~Meet(ledger[a], x)

SeatLeft(b, x) ==
    \/ x.slot = Null
    \/ Limit(x.slot) = Null
    \/ Cardinality({a \in Ids \ {b} : Taken(a) /\ ledger[a].slot = x.slot}) < Limit(x.slot)

\* A booking, or a booking moved elsewhere.
Take(b) ==
    \E x \in Entry :
        /\ ledger' = [ledger EXCEPT ![b] = x]
        /\ StudentFree(b, x)
        /\ SeatLeft(b, x)

\* Cancelled, completed or missed, one or all of a slot.
Release(B) == ledger' = [b \in Ids |-> IF b \in B THEN Null ELSE ledger[b]]

Next == (\E b \in Ids : Take(b)) \/ (\E B \in SUBSET Ids : Release(B))

Spec == Init /\ [][Next]_ledger
=============================================================================
