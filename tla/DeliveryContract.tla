-------------------------- MODULE DeliveryContract --------------------------
(***************************************************************************)
(* What the outbox promises of a notification whose row it holds, whatever *)
(* crashes: it is owed until the broker's channel has accepted a message,  *)
(* and a message that the broker keeps stays accounted for.  There are no  *)
(* publisher confirms: a message that the broker loses settles the         *)
(* notification as well, and nothing of it may be left then.  Only a       *)
(* notification of which every attempt has failed is given up.             *)
(***************************************************************************)
EXTENDS Naturals

CONSTANTS
    Jobs,
    MaxAttempts

VARIABLES
    owed,           \* requested, and neither settled nor given up
    out,            \* a message has reached the queue
    lost,           \* the broker has lost a message it had accepted
    settled,
    given,          \* given up
    failures        \* failures[j]: failed attempts that have been counted

vars == <<owed, out, lost, settled, given, failures>>

Init ==
    /\ owed = {} /\ out = {} /\ lost = {} /\ settled = {} /\ given = {}
    /\ failures = [j \in Jobs |-> 0]

Requested == owed \cup settled \cup given

Request(j) ==
    /\ j \notin Requested
    /\ owed' = owed \cup {j}
    /\ UNCHANGED <<out, lost, settled, given, failures>>

SendOut(j) ==
    /\ j \in Requested
    /\ out' = out \cup {j}
    /\ UNCHANGED <<owed, lost, settled, given, failures>>

\* The broker's fault, unknown to the sender
Lose(j) ==
    /\ j \in Requested
    /\ lost' = lost \cup {j}
    /\ UNCHANGED <<owed, out, settled, given, failures>>

Settle(j) ==
    /\ j \in out \cup lost
    /\ settled' = settled \cup {j}
    /\ owed' = owed \ {j}
    /\ UNCHANGED <<out, lost, given, failures>>

CountFailure(j) ==
    /\ j \in Requested
    /\ failures' = [failures EXCEPT ![j] = @ + 1]
    /\ UNCHANGED <<owed, out, lost, settled, given>>

GiveUp(j) ==
    /\ failures[j] >= MaxAttempts
    /\ given' = given \cup {j}
    /\ owed' = owed \ {j}
    /\ UNCHANGED <<out, lost, settled, failures>>

Next ==
    \E j \in Jobs :
        Request(j) \/ SendOut(j) \/ Lose(j) \/ Settle(j) \/ CountFailure(j) \/ GiveUp(j)

Spec == Init /\ [][Next]_vars
=============================================================================
