---------------------------- MODULE MCReadingSync ----------------------------
(***************************************************************************)
(* Instances of ReadingSync for TLC: two devices and one book, with the    *)
(* roles of the devices and the bounds given in each .cfg.                 *)
(***************************************************************************)
EXTENDS ReadingDelivery

==============================================================================
