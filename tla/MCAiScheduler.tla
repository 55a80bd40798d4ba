---------------------------- MODULE MCAiScheduler ----------------------------
(***************************************************************************)
(* A visible translation that the host submits twice, the contents that    *)
(* compete with it for their lane, and a structure request in another      *)
(* place.                                                                  *)
(***************************************************************************)
EXTENDS AiScheduler, TLC

CONSTANTS body, again, contents, structure, here, there

MCCall == {body, again, contents, structure}
MCKindOf == body :> "Translation" @@ again :> "Translation"
            @@ contents :> "Contents" @@ structure :> "Structure"
MCPlaceOf == [c \in MCCall |-> IF c = structure THEN there ELSE here]
MCKeyOf == [c \in MCCall |-> IF c = again THEN body ELSE c]
==============================================================================
