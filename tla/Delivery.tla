------------------------------- MODULE Delivery -------------------------------
(***************************************************************************)
(* What the synchronisation of reading changes promises, without a server, *)
(* files, jobs or caches.  Every device counts its changes to a book and   *)
(* how many changes of each other device it shows.  A device shows changes *)
(* in the order they were made and never goes back behind a change it has  *)
(* shown; it never shows a change that was not made.                       *)
(***************************************************************************)
EXTENDS Integers

CONSTANTS Device, Book

VARIABLES made,   \* made[p][b]: changes of p to b
          shown   \* shown[d][p][b]: the first so many of them are in d's store

vars == <<made, shown>>

Init ==
    /\ made = [d \in Device |-> [b \in Book |-> 0]]
    /\ shown = [d \in Device |-> [p \in Device |-> [b \in Book |-> 0]]]

Change(d, b) == made' = [made EXCEPT ![d][b] = @ + 1]

Make(d, b) == Change(d, b) /\ UNCHANGED shown

\* Further changes of p arrive at d.  A conflict with them may make d change
\* the book as well.
Receive(d, p, b) ==
    /\ \E n \in shown[d][p][b]..made[p][b] : shown' = [shown EXCEPT ![d][p][b] = n]
    /\ Change(d, b) \/ UNCHANGED made

Next == \E d \in Device, b \in Book :
            Make(d, b) \/ \E p \in Device \ {d} : Receive(d, p, b)

Spec == Init /\ [][Next]_vars
==============================================================================
