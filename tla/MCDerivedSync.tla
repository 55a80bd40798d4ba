---------------------------- MODULE MCDerivedSync ----------------------------
(* One archive of one book between a few devices that derive it a few times. *)
EXTENDS DerivedSync

CONSTANTS d1, d2

MCDevice == {d1, d2}
MCValue == 1..MaxWrites
==============================================================================
