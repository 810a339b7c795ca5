--------------------------- MODULE MCGroupListing ---------------------------
(***************************************************************************)
(* The group sessions of MCGroupSessions, with what students are shown of  *)
(* them while they are booked.  c2 takes an hour off, after the sessions.  *)
(***************************************************************************)
EXTENDS MCGroupSessions, SlotListing

MCZone == [c \in Coaches |-> 0]
MCWeekly == [c \in Coaches |-> {}]
MCOverride == [e \in Events |-> MCWeekly]
MCExceptions == [MCWeekly EXCEPT ![c2] = {[date |-> 0, blocked |-> TRUE, from |-> 4, to |-> 64]}]
MCRanges == {[from |-> 0, to |-> 10]}
=============================================================================
