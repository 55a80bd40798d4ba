--------------------------- MODULE ReadingDelivery ---------------------------
(***************************************************************************)
(* ReadingSync implements Delivery: a device has made the changes its      *)
(* reading_changes revision counts, and shows the changes of a peer that   *)
(* are in the newest of the peer's state files it has merged.              *)
(***************************************************************************)
EXTENDS ReadingSync

ShownChanges ==
    [d \in Device |-> [p \in Device |-> [b \in Book |-> merged[d][p][b].rev]]]

Promise == INSTANCE Delivery WITH made <- revision, shown <- ShownChanges

\* Through uploads, stops, repairs of lost files and resumed sessions, no file
\* carries a change its device has not made, and no merge takes a change back.
DeliverySpec == Promise!Spec
==============================================================================
