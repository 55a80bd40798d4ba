--------------------------- MODULE MCSyncSchedule ---------------------------
(* The schedule of one library on one Android device.  Nothing is added: the *)
(* delays of SyncSchedule.cfg bound every deadline.                          *)
EXTENDS SyncSchedule
==============================================================================
