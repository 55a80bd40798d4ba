---------------------------- MODULE ProgressClock ----------------------------
(***************************************************************************)
(* The reading position of one book on several devices.  Every position    *)
(* carries a hybrid timestamp: wall time, counter, device.  A device makes *)
(* timestamps with tick, which never falls behind its previous one or the  *)
(* wall time of a remote one, and a merge keeps the larger timestamp.      *)
(*                                                                         *)
(* Wall clocks read the common time plus an error, which AheadBy gives for *)
(* the devices in Ahead until their clock is corrected.  How a state file  *)
(* travels is the subject of ReadingSync; here uploading and merging one   *)
(* are single steps, with Latency between them.  A save of the place that  *)
(* is stored already changes nothing and is left out.                      *)
(***************************************************************************)
EXTENDS Integers, FiniteSets

CONSTANTS Device,
          Rank,       \* [Device -> Nat], the order of the device ids
          Ahead,      \* devices whose clock may be wrong at first
          AheadBy,    \* by how many milliseconds
          Latency,    \* least time from the snapshot of a file to its merge
          MaxTime,    \* bound on the common time
          MaxSaves,   \* bound on the saves of each device
          MaxNotes    \* bound on other reading changes, over all devices

ASSUME ClockAssumption ==
    /\ Rank \in [Device -> Nat]
    /\ \A d, e \in Device : Rank[d] = Rank[e] => d = e
    /\ Ahead \subseteq Device
    /\ AheadBy \in Nat
    /\ Latency \in Nat
    /\ MaxTime \in Nat
    /\ MaxSaves \in Nat
    /\ MaxNotes \in Nat

VARIABLES
    time,      \* the common time
    fast,      \* devices whose clock is still wrong
    hlc,       \* sync_meta 'hlc': the device's last timestamp
    progress,  \* the row of table progress: {} or {event}
    changed,   \* reading_changes has a revision that is not acknowledged
    file,      \* progress in the device's state file, with the snapshot's time
    applied,   \* [Device -> [Device -> Nat]], the file merged last
    saves,     \* events made by each device
    notes,     \* other reading changes made so far
    seen,      \* history: the events a device has held or merged
    wrong      \* history: devices whose clock was wrong at first

vars == <<time, fast, hlc, progress, changed, file, applied, saves, notes, seen, wrong>>

\* An event is a position that a reader saved: the n-th one of its device, at
\* a wall time and counter, knowing the events in saw.
Id    == Device \X Nat
Event == [device : Device, n : Nat, wall : Nat, counter : Nat, saw : SUBSET Id]
IdOf(e) == <<e.device, e.n>>

Clock == [wall : Nat, counter : Nat]
File  == [number : Nat, at : Nat, progress : SUBSET Event]

\* HybridTimestamp::cmp
Before(e, f) ==
    \/ e.wall < f.wall
    \/ e.wall = f.wall /\ e.counter < f.counter
    \/ e.wall = f.wall /\ e.counter = f.counter /\ Rank[e.device] < Rank[f.device]

Greater(a, b) == IF a > b THEN a ELSE b

Now(d) == IF d \in fast THEN time + AheadBy ELSE time

\* Mutant: the counter starts over with every timestamp.
TickUncounted(d, observed) ==
    [wall |-> Greater(Greater(Now(d), hlc[d].wall), observed), counter |-> 0]

\* tick(transaction, device, observed): the next timestamp of the device, which
\* takes over the wall time of an observed one but not its counter.
Tick(d, observed) ==
    LET wall == Greater(Greater(Now(d), hlc[d].wall), observed)
    IN  [wall |-> wall, counter |-> IF wall = hlc[d].wall THEN hlc[d].counter + 1 ELSE 0]

-----------------------------------------------------------------------------
Init ==
    /\ time = 0
    /\ fast \in SUBSET Ahead
    /\ wrong = fast
    /\ hlc = [d \in Device |-> [wall |-> 0, counter |-> 0]]
    /\ progress = [d \in Device |-> {}]
    /\ changed = [d \in Device |-> FALSE]
    /\ file = [d \in Device |-> [number |-> 0, at |-> 0, progress |-> {}]]
    /\ applied = [d \in Device |-> [p \in Device |-> 0]]
    /\ saves = [d \in Device |-> 0]
    /\ notes = 0
    /\ seen = [d \in Device |-> {}]

\* write_progress: the reader turned to another place, or reading activity
\* refreshes the timestamp of the place.
Save(d) ==
    LET t == Tick(d, 0)
        e == [device |-> d, n |-> saves[d] + 1, wall |-> t.wall, counter |-> t.counter,
              saw |-> seen[d]]
    IN  /\ saves[d] < MaxSaves
        /\ saves' = [saves EXCEPT ![d] = @ + 1]
        /\ hlc' = [hlc EXCEPT ![d] = t]
        /\ progress' = [progress EXCEPT ![d] = {e}]
        /\ changed' = [changed EXCEPT ![d] = TRUE]
        /\ seen' = [seen EXCEPT ![d] = @ \cup {IdOf(e)}]
        /\ UNCHANGED <<time, fast, file, applied, notes, wrong>>

\* An annotation is made, edited or deleted: a timestamp and a new revision.
Note(d) ==
    /\ notes < MaxNotes
    /\ notes' = notes + 1
    /\ hlc' = [hlc EXCEPT ![d] = Tick(d, 0)]
    /\ changed' = [changed EXCEPT ![d] = TRUE]
    /\ UNCHANGED <<time, fast, progress, file, applied, saves, seen, wrong>>

\* reading_snapshot and its upload: the position goes into the file only if
\* this device made it.
Upload(d) ==
    /\ changed[d]
    /\ changed' = [changed EXCEPT ![d] = FALSE]
    /\ hlc' = [hlc EXCEPT ![d] = Tick(d, 0)]
    /\ file' = [file EXCEPT ![d] = [number |-> @.number + 1, at |-> time,
                                    progress |-> {e \in progress[d] : e.device = d}]]
    /\ UNCHANGED <<time, fast, progress, applied, saves, notes, seen, wrong>>

\* Mutant: a position of the same wall time is never replaced.
WinsByWall(e, d) == \A f \in progress[d] : f.wall < e.wall

\* Mutant: the position read last wins.
WinsAlways(e, d) == TRUE

\* merge_progress keeps what is stored unless it is older.
Wins(e, d) == \A f \in progress[d] : Before(f, e)

\* merge_remote_reading for p's file.
Merge(d, p) ==
    /\ p # d
    /\ applied[d][p] # file[p].number
    /\ file[p].at + Latency <= time
    /\ applied' = [applied EXCEPT ![d][p] = file[p].number]
    /\ \/ /\ file[p].progress = {}
          /\ UNCHANGED <<hlc, progress, seen>>
       \/ \E e \in file[p].progress :
             /\ hlc' = [hlc EXCEPT ![d] = Tick(d, e.wall)]
             /\ progress' = [progress EXCEPT ![d] = IF Wins(e, d) THEN {e} ELSE @]
             /\ seen' = [seen EXCEPT ![d] = @ \cup {IdOf(e)}]
    /\ UNCHANGED <<time, fast, changed, file, saves, notes, wrong>>

\* A millisecond passes.
Pass ==
    /\ time < MaxTime
    /\ time' = time + 1
    /\ UNCHANGED <<fast, hlc, progress, changed, file, applied, saves, notes, seen, wrong>>

\* The clock of a device is set right.
Correct(d) ==
    /\ d \in fast
    /\ fast' = fast \ {d}
    /\ UNCHANGED <<time, hlc, progress, changed, file, applied, saves, notes, seen, wrong>>

Next ==
    \/ Pass
    \/ \E d \in Device : \/ Save(d)
                         \/ Note(d)
                         \/ Upload(d)
                         \/ Correct(d)
                         \/ \E p \in Device : Merge(d, p)

Spec == Init /\ [][Next]_vars

-----------------------------------------------------------------------------
(* Properties *)

\* Every variable has its type.
TypeOK ==
    /\ time \in Nat
    /\ fast \subseteq Device
    /\ hlc \in [Device -> Clock]
    /\ progress \in [Device -> SUBSET Event]
    /\ changed \in [Device -> BOOLEAN]
    /\ file \in [Device -> File]
    /\ applied \in [Device -> [Device -> Nat]]
    /\ saves \in [Device -> Nat]
    /\ notes \in Nat
    /\ seen \in [Device -> SUBSET Id]
    /\ wrong \subseteq Device

Events == UNION ({progress[d] : d \in Device} \cup {file[d].progress : d \in Device})

\* Two events never carry the same timestamp, so every device that compares
\* them (merge_progress) chooses alike, whatever the clocks show.
StampsUnique ==
    \A e, f \in Events :
        e.wall = f.wall /\ e.counter = f.counter /\ e.device = f.device => IdOf(e) = IdOf(f)

\* No device goes back to a position that was known where its present position
\* was saved.
KeepsNewest ==
    \A d \in Device : \A e \in progress[d], f \in progress'[d] : IdOf(f) \notin e.saw

\* "The newest reading event wins", whatever the clocks show.
NewestWins == [][KeepsNewest]_vars

\* The newest reading event wins as long as all clocks agree.
NewestWinsSynced == [][wrong = {} => KeepsNewest]_vars

\* All changes are uploaded and all files are merged.
Settled ==
    \A d \in Device : /\ ~changed[d]
                      /\ \A p \in Device \ {d} : applied[d][p] = file[p].number

\* Devices that have exchanged everything agree on the position, as long as all
\* clocks agree.
ConvergedSynced ==
    wrong = {} /\ Settled => \A d, e \in Device : progress[d] = progress[e]
==============================================================================
