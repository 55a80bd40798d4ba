--------------------------- MODULE MCProgressClock ---------------------------
(***************************************************************************)
(* Instances of ProgressClock for TLC.  Devices are numbers here, which    *)
(* gives their ids an order.                                               *)
(***************************************************************************)
EXTENDS ProgressClock

\* The order of the device ids.
IdRank == [d \in Device |-> d]
==============================================================================
