--------------------------- MODULE MCNotifications ---------------------------
(***************************************************************************)
(* A booking whose reminder is requested and cancelled, and one that is    *)
(* rescheduled: its reminder is requested, cancelled and requested again.  *)
(***************************************************************************)
EXTENDS NotificationPipeline

CONSTANTS k1, e1

MCJob == IF Jobs = 1..2 THEN BookedAndCancelled(k1, e1) ELSE BookedAndRescheduled(k1, e1)
=============================================================================
