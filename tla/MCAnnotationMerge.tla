-------------------------- MODULE MCAnnotationMerge --------------------------
(***************************************************************************)
(* Instances of AnnotationMerge for TLC.  Devices are numbers here, which  *)
(* gives their ids an order; contents are model values.                    *)
(***************************************************************************)
EXTENDS AnnotationMerge, TLC

CONSTANTS X, Y, Z, W, V

\* The order of the device ids.
IdRank == [d \in Device |-> d]

Symmetry == Permutations(Content)
==============================================================================
