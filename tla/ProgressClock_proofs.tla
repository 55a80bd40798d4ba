------------------------ MODULE ProgressClock_proofs ------------------------
(***************************************************************************)
(* Timestamps are unique whatever the clocks show, and the newest reading  *)
(* event wins as long as all clocks agree and a file takes any time at all *)
(* to travel.                                                              *)
(*                                                                         *)
(* A device's timestamp dominates the events it made, so a new event is    *)
(* after them.  An event it has merged was made strictly before the        *)
(* present, so a new event is after that as well.  Hence an event is       *)
(* always after what was known where it was saved, and a merge, which      *)
(* moves to later events only, cannot go back.                             *)
(***************************************************************************)
EXTENDS ProgressClock, TLAPS

\* A new timestamp is after the device's last one, and not behind its clock
\* or the observed one.
LEMMA TickAdvances ==
  ASSUME TypeOK, NEW d \in Device, NEW observed \in Nat
  PROVE  /\ Tick(d, observed) \in Clock
         /\ \/ hlc[d].wall < Tick(d, observed).wall
            \/ /\ hlc[d].wall = Tick(d, observed).wall
               /\ hlc[d].counter < Tick(d, observed).counter
         /\ Now(d) <= Tick(d, observed).wall
         /\ \A bound \in Nat : Now(d) <= bound /\ hlc[d].wall <= bound /\ observed <= bound
                                  => Tick(d, observed).wall <= bound
  <1>1. Now(d) \in Nat BY ClockAssumption DEF Now, TypeOK
  <1>2. hlc[d] \in Clock BY DEF TypeOK
  <1>. DEFINE wall == Greater(Greater(Now(d), hlc[d].wall), observed)
  <1>3. /\ wall \in Nat /\ Now(d) <= wall /\ hlc[d].wall <= wall
        /\ \A bound \in Nat : Now(d) <= bound /\ hlc[d].wall <= bound /\ observed <= bound
                                 => wall <= bound
    BY <1>1, <1>2 DEF Greater, Clock
  <1>4. Tick(d, observed) =
            [wall |-> wall, counter |-> IF wall = hlc[d].wall THEN hlc[d].counter + 1 ELSE 0]
    BY DEF Tick
  <1>. HIDE DEF wall
  <1>5. CASE wall = hlc[d].wall BY <1>2, <1>3, <1>4, <1>5 DEF Clock
  <1>6. CASE wall # hlc[d].wall BY <1>2, <1>3, <1>4, <1>6 DEF Clock
  <1>. QED BY <1>5, <1>6

LEMMA IdParts ==
  ASSUME NEW i \in Id
  PROVE  i[1] \in Device /\ i[2] \in Nat
  BY DEF Id

-----------------------------------------------------------------------------
(* Types *)

LEMMA InitTypeOK == Init => TypeOK
  BY ClockAssumption DEF Init, TypeOK, Clock, File

\* The event a save makes.
Saved(d) == [device |-> d, n |-> saves[d] + 1, wall |-> Tick(d, 0).wall,
             counter |-> Tick(d, 0).counter, saw |-> seen[d]]

LEMMA SavedType ==
  ASSUME TypeOK, NEW d \in Device
  PROVE  Saved(d) \in Event /\ IdOf(Saved(d)) \in Id /\ IdOf(Saved(d)) = <<d, saves[d] + 1>>
  <1>1. Tick(d, 0) \in Clock BY TickAdvances
  <1>. QED BY <1>1 DEF Saved, TypeOK, Event, Clock, Id, IdOf

LEMMA StepTypeOK == TypeOK /\ [Next]_vars => TypeOK'
  <1>. SUFFICES ASSUME TypeOK, [Next]_vars PROVE TypeOK' OBVIOUS
  <1>1. CASE Pass BY <1>1 DEF Pass, TypeOK
  <1>2. ASSUME NEW d \in Device, Save(d) PROVE TypeOK'
    <2>1. Tick(d, 0) \in Clock BY TickAdvances
    <2>2. /\ progress' = [progress EXCEPT ![d] = {Saved(d)}]
          /\ seen' = [seen EXCEPT ![d] = @ \cup {IdOf(Saved(d))}]
      BY <1>2 DEF Save, Saved
    <2>3. progress' \in [Device -> SUBSET Event] /\ seen' \in [Device -> SUBSET Id]
      BY <2>2, SavedType DEF TypeOK
    <2>. QED BY <1>2, <2>1, <2>3 DEF Save, TypeOK
  <1>3. ASSUME NEW d \in Device, Note(d) PROVE TypeOK'
    <2>1. Tick(d, 0) \in Clock BY TickAdvances
    <2>. QED BY <1>3, <2>1 DEF Note, TypeOK
  <1>4. ASSUME NEW d \in Device, Upload(d) PROVE TypeOK'
    <2>1. Tick(d, 0) \in Clock BY TickAdvances
    <2>2. file' \in [Device -> File]
      <3>. DEFINE f == [number |-> file[d].number + 1, at |-> time,
                        progress |-> {e \in progress[d] : e.device = d}]
      <3>1. f \in File BY DEF TypeOK, File
      <3>2. file' = [file EXCEPT ![d] = f] BY <1>4 DEF Upload
      <3>. QED BY <3>1, <3>2 DEF TypeOK
    <2>. QED BY <1>4, <2>1, <2>2 DEF Upload, TypeOK
  <1>5. ASSUME NEW d \in Device, Correct(d) PROVE TypeOK' BY <1>5 DEF Correct, TypeOK
  <1>6. ASSUME NEW d \in Device, NEW p \in Device, Merge(d, p) PROVE TypeOK'
    <2>1. file[p] \in File BY DEF TypeOK
    <2>2. UNCHANGED <<time, fast, changed, file, saves, notes, wrong>> BY <1>6 DEF Merge
    <2>3. applied' \in [Device -> [Device -> Nat]]
      <3>1. applied' = [applied EXCEPT ![d][p] = file[p].number] BY <1>6 DEF Merge
      <3>. QED BY <2>1, <3>1 DEF TypeOK, File
    <2>4. CASE UNCHANGED <<hlc, progress, seen>> BY <2>2, <2>3, <2>4 DEF TypeOK
    <2>5. ASSUME NEW e \in file[p].progress,
                 hlc' = [hlc EXCEPT ![d] = Tick(d, e.wall)],
                 progress' = [progress EXCEPT ![d] = IF Wins(e, d) THEN {e} ELSE @],
                 seen' = [seen EXCEPT ![d] = @ \cup {IdOf(e)}]
          PROVE  TypeOK'
      <3>1. e \in Event /\ IdOf(e) \in Id BY <2>1 DEF File, Event, IdOf, Id
      <3>2. Tick(d, e.wall) \in Clock BY <3>1, TickAdvances DEF Event
      <3>. QED BY <2>2, <2>3, <2>5, <3>1, <3>2 DEF TypeOK
    <2>. QED BY <1>6, <2>4, <2>5 DEF Merge
  <1>7. CASE UNCHANGED vars BY <1>7 DEF vars, TypeOK
  <1>. QED BY <1>1, <1>2, <1>3, <1>4, <1>5, <1>6, <1>7 DEF Next

\* Every variable keeps its type.
THEOREM ClockTypeCorrect == Spec => []TypeOK
  BY InitTypeOK, StepTypeOK, PTL DEF Spec

-----------------------------------------------------------------------------
(* What every step does to events and clocks *)

\* The event is not after the last timestamp of the device.
NotAfter(e, d) ==
    \/ e.wall < hlc[d].wall
    \/ e.wall = hlc[d].wall /\ e.counter <= hlc[d].counter

\* Only a save makes an event.
LEMMA StepEvents ==
  ASSUME TypeOK, [Next]_vars
  PROVE  /\ \/ \E d \in Device : Save(d) /\ Events' \subseteq Events \cup {Saved(d)}
            \/ Events' \subseteq Events /\ saves' = saves
         /\ wrong' = wrong
         /\ fast' \subseteq fast
         /\ time <= time' /\ time' \in Nat
  <1>. USE DEF Events
  <1>1. Pass => UNCHANGED <<Events, saves, wrong, fast>> BY DEF Pass
  <1>2. ASSUME NEW d \in Device, Save(d)
        PROVE  Events' \subseteq Events \cup {Saved(d)} /\ UNCHANGED <<wrong, fast, time>>
    <2>1. progress' = [progress EXCEPT ![d] = {Saved(d)}] BY <1>2 DEF Save, Saved
    <2>. QED BY <1>2, <2>1 DEF Save, TypeOK
  <1>3. ASSUME NEW d \in Device, Note(d)
        PROVE  UNCHANGED <<Events, saves, wrong, fast, time>>
    BY <1>3 DEF Note
  <1>4. ASSUME NEW d \in Device, Upload(d)
        PROVE  Events' \subseteq Events /\ UNCHANGED <<saves, wrong, fast, time>>
    <2>1. file'[d].progress \subseteq progress[d] /\ UNCHANGED progress
      BY <1>4 DEF Upload, TypeOK
    <2>2. \A p \in Device \ {d} : file'[p] = file[p] BY <1>4 DEF Upload, TypeOK
    <2>. QED BY <1>4, <2>1, <2>2 DEF Upload
  <1>5. ASSUME NEW d \in Device, Correct(d)
        PROVE  Events' = Events /\ UNCHANGED <<saves, wrong, time>> /\ fast' \subseteq fast
    BY <1>5 DEF Correct
  <1>6. ASSUME NEW d \in Device, NEW p \in Device, Merge(d, p)
        PROVE  Events' \subseteq Events /\ UNCHANGED <<saves, wrong, fast, time>>
    <2>1. UNCHANGED <<file, saves, wrong, fast, time>> BY <1>6 DEF Merge
    <2>2. \A q \in Device : progress'[q] \subseteq progress[q] \cup file[p].progress
      BY <1>6 DEF Merge, TypeOK
    <2>3. ASSUME NEW e \in Events' PROVE e \in Events
      <3>1. CASE \E q \in Device : e \in progress'[q] BY <2>2, <3>1
      <3>2. CASE \E q \in Device : e \in file[q].progress BY <3>2
      <3>. QED BY <2>1, <3>1, <3>2
    <2>. QED BY <2>1, <2>3
  <1>7. UNCHANGED vars => UNCHANGED <<Events, saves, wrong, fast>> BY DEF vars
  <1>8. CASE \E d \in Device : Save(d)
    <2>1. PICK d \in Device : Save(d) BY <1>8
    <2>2. Events' \subseteq Events \cup {Saved(d)} /\ UNCHANGED <<wrong, fast, time>>
      BY <1>2, <2>1
    <2>. HIDE DEF Events
    <2>. QED BY <2>1, <2>2 DEF TypeOK
  <1>9. CASE Pass \/ UNCHANGED vars
    <2>1. UNCHANGED <<Events, saves, wrong, fast>> BY <1>1, <1>7, <1>9 DEF Pass, vars
    <2>2. time <= time' /\ time' \in Nat BY <1>1, <1>7, <1>9 DEF Pass, vars, TypeOK
    <2>. HIDE DEF Events
    <2>. QED BY <2>1, <2>2
  <1>10. CASE \E d \in Device : \/ Note(d)
                                \/ Upload(d)
                                \/ Correct(d)
                                \/ \E p \in Device : Merge(d, p)
    <2>1. Events' \subseteq Events /\ UNCHANGED <<saves, wrong, time>> /\ fast' \subseteq fast
      BY <1>3, <1>4, <1>5, <1>6, <1>10
    <2>. HIDE DEF Events
    <2>. QED BY <2>1 DEF TypeOK
  <1>. QED BY <1>8, <1>9, <1>10 DEF Next

\* No device's clock runs backwards.
LEMMA StepClock ==
  ASSUME TypeOK, [Next]_vars, NEW e \in Event, NEW d \in Device, NotAfter(e, d)
  PROVE  NotAfter(e, d)'
  <1>1. ASSUME NEW o \in Nat, hlc'[d] = Tick(d, o) PROVE NotAfter(e, d)'
    <2>1. hlc[d] \in Clock /\ Tick(d, o) \in Clock BY TickAdvances DEF TypeOK
    <2>2. e.wall \in Nat /\ e.counter \in Nat BY DEF Event
    <2>. QED BY <1>1, <2>1, <2>2, TickAdvances DEF NotAfter, Clock
  <1>2. CASE UNCHANGED hlc[d] BY <1>2 DEF NotAfter
  <1>3. ASSUME NEW c \in Device, NEW o \in Nat, hlc' = [hlc EXCEPT ![c] = Tick(c, o)]
        PROVE  NotAfter(e, d)'
    <2>1. CASE c = d
      <3>1. hlc'[d] = Tick(d, o) BY <1>3, <2>1 DEF TypeOK
      <3>. QED BY <1>1, <3>1
    <2>2. CASE c # d
      <3>1. hlc'[d] = hlc[d] BY <1>3, <2>2 DEF TypeOK
      <3>. QED BY <1>2, <3>1
    <2>. QED BY <2>1, <2>2
  <1>4. \/ UNCHANGED hlc
        \/ \E c \in Device, o \in Nat : hlc' = [hlc EXCEPT ![c] = Tick(c, o)]
    <2>1. CASE Pass BY <2>1 DEF Pass
    <2>2. ASSUME NEW c \in Device, Save(c) \/ Note(c) \/ Upload(c)
          PROVE  hlc' = [hlc EXCEPT ![c] = Tick(c, 0)]
      BY <2>2 DEF Save, Note, Upload
    <2>3. ASSUME NEW c \in Device, Correct(c) PROVE UNCHANGED hlc BY <2>3 DEF Correct
    <2>4. ASSUME NEW c \in Device, NEW p \in Device, Merge(c, p)
          PROVE  \/ UNCHANGED hlc
                 \/ \E o \in Nat : hlc' = [hlc EXCEPT ![c] = Tick(c, o)]
      <3>1. \A f \in file[p].progress : f.wall \in Nat BY DEF TypeOK, File, Event
      <3>. QED BY <2>4, <3>1 DEF Merge
    <2>5. CASE UNCHANGED vars BY <2>5 DEF vars
    <2>. QED BY <2>1, <2>2, <2>3, <2>4, <2>5 DEF Next
  <1>5. CASE UNCHANGED hlc BY <1>2, <1>5
  <1>. QED BY <1>3, <1>4, <1>5

-----------------------------------------------------------------------------
(* Timestamps are unique *)

\* An event is not after the clock of the device that made it, and it and what
\* it knows of have been made.
Made ==
    \A e \in Events : /\ NotAfter(e, e.device)
                      /\ e.n <= saves[e.device]
                      /\ \A i \in e.saw : i[2] <= saves[i[1]]

\* What a device knows of has been made.
Known == \A d \in Device : \A i \in seen[d] : i[2] <= saves[i[1]]

IdsUnique == \A e, f \in Events : IdOf(e) = IdOf(f) => e = f

EventInv == Made /\ Known /\ IdsUnique /\ StampsUnique

LEMMA EventsTyped == TypeOK => Events \subseteq Event
  BY DEF TypeOK, Events, File

\* A new event is after the clock of its device, and known to nobody yet.
LEMMA SavedIsNew ==
  ASSUME TypeOK, EventInv, NEW d \in Device, NEW e \in Events
  PROVE  /\ IdOf(e) # IdOf(Saved(d))
         /\ IdOf(Saved(d)) \notin e.saw
         /\ e.device = d => \/ e.wall < Saved(d).wall
                            \/ e.wall = Saved(d).wall /\ e.counter < Saved(d).counter
  <1>1. e \in Event BY EventsTyped
  <1>2. saves[d] \in Nat BY DEF TypeOK
  <1>3. e.n \in Nat /\ IdOf(e) = <<e.device, e.n>> BY <1>1 DEF Event, IdOf
  <1>4. e.n <= saves[e.device] /\ \A i \in e.saw : i[2] <= saves[i[1]]
    BY DEF EventInv, Made
  <1>5. IdOf(Saved(d)) = <<d, saves[d] + 1>> BY SavedType
  <1>6. IdOf(e) # IdOf(Saved(d)) BY <1>2, <1>3, <1>4, <1>5
  <1>7. IdOf(Saved(d)) \notin e.saw BY <1>2, <1>4, <1>5
  <1>8. ASSUME e.device = d
        PROVE  \/ e.wall < Saved(d).wall
               \/ e.wall = Saved(d).wall /\ e.counter < Saved(d).counter
    <2>1. NotAfter(e, d) BY <1>8 DEF EventInv, Made
    <2>2. hlc[d] \in Clock /\ Tick(d, 0) \in Clock BY TickAdvances DEF TypeOK
    <2>3. Saved(d).wall = Tick(d, 0).wall /\ Saved(d).counter = Tick(d, 0).counter
      BY DEF Saved
    <2>4. e.wall \in Nat /\ e.counter \in Nat BY <1>1 DEF Event
    <2>5. \/ hlc[d].wall < Tick(d, 0).wall
          \/ hlc[d].wall = Tick(d, 0).wall /\ hlc[d].counter < Tick(d, 0).counter
      BY TickAdvances
    <2>. QED BY <2>1, <2>2, <2>3, <2>4, <2>5 DEF NotAfter, Clock
  <1>. QED BY <1>6, <1>7, <1>8

LEMMA InitEventInv == Init => EventInv
  BY DEF Init, EventInv, Made, Known, IdsUnique, StampsUnique, Events

LEMMA StepEventInv == TypeOK /\ EventInv /\ [Next]_vars => EventInv'
  <1>. SUFFICES ASSUME TypeOK, EventInv, [Next]_vars PROVE EventInv' OBVIOUS
  <1>1. TypeOK' /\ Events \subseteq Event BY StepTypeOK, EventsTyped
  <1>2. ASSUME NEW d \in Device, Save(d), Events' \subseteq Events \cup {Saved(d)}
        PROVE  EventInv'
    <2>1. /\ saves' = [saves EXCEPT ![d] = @ + 1]
          /\ hlc' = [hlc EXCEPT ![d] = Tick(d, 0)]
          /\ seen' = [seen EXCEPT ![d] = @ \cup {IdOf(Saved(d))}]
      BY <1>2 DEF Save, Saved
    <2>2. \A c \in Device : saves[c] \in Nat /\ saves[c] <= saves'[c]
      BY <2>1 DEF TypeOK
    <2>3. Saved(d).device = d /\ Saved(d).n = saves[d] + 1 /\ Saved(d).saw = seen[d]
      BY DEF Saved
    <2>4. ASSUME NEW i \in Id, i[2] <= saves[i[1]] PROVE i[2] <= saves'[i[1]]
      <3>1. i[1] \in Device /\ i[2] \in Nat BY IdParts
      <3>2. saves[i[1]] \in Nat /\ saves[i[1]] <= saves'[i[1]] /\ saves'[i[1]] \in Nat
        BY <1>1, <2>2, <3>1 DEF TypeOK
      <3>. QED BY <2>4, <3>1, <3>2
    <2>5. Known'
      <3>1. ASSUME NEW c \in Device, NEW i \in seen'[c] PROVE i[2] <= saves'[i[1]]
        <4>1. i \in Id BY <1>1, <3>1 DEF TypeOK
        <4>2. CASE i \in seen[c]
          <5>1. i[2] <= saves[i[1]] BY <4>2 DEF EventInv, Known
          <5>. QED BY <2>4, <4>1, <5>1
        <4>3. CASE i \notin seen[c]
          <5>1. i = <<d, saves[d] + 1>> BY <2>1, <3>1, <4>3, SavedType DEF TypeOK
          <5>. QED BY <2>1, <2>2, <5>1 DEF TypeOK
        <4>. QED BY <4>2, <4>3
      <3>. QED BY <3>1 DEF Known
    <2>6. ASSUME NEW e \in Events PROVE /\ NotAfter(e, e.device)'
                                        /\ e.n <= saves'[e.device]
                                        /\ \A i \in e.saw : i[2] <= saves'[i[1]]
      <3>1. e \in Event BY <1>1
      <3>2. NotAfter(e, e.device)' BY <3>1, StepClock DEF EventInv, Made, Event
      <3>3. e.n <= saves[e.device] /\ \A i \in e.saw : i[2] <= saves[i[1]]
        BY DEF EventInv, Made
      <3>4. e.n <= saves'[e.device] BY <1>1, <2>2, <3>1, <3>3 DEF Event, TypeOK
      <3>5. ASSUME NEW i \in e.saw PROVE i[2] <= saves'[i[1]]
        <4>1. i \in Id BY <3>1 DEF Event
        <4>. QED BY <2>4, <3>3, <4>1
      <3>. QED BY <3>2, <3>4, <3>5
    <2>7. ASSUME NEW e, e = Saved(d) PROVE /\ NotAfter(e, e.device)'
                                           /\ e.n <= saves'[e.device]
                                           /\ \A i \in e.saw : i[2] <= saves'[i[1]]
      <3>1. Tick(d, 0) \in Clock BY TickAdvances
      <3>2. hlc'[d] = Tick(d, 0) BY <2>1 DEF TypeOK
      <3>3. e.wall = hlc'[d].wall /\ e.counter = hlc'[d].counter BY <2>7, <3>2 DEF Saved
      <3>4. e.counter <= hlc'[d].counter BY <3>1, <3>2, <3>3 DEF Clock
      <3>5. e.device = d BY <2>3, <2>7
      <3>6. NotAfter(e, e.device)' BY <3>3, <3>4, <3>5 DEF NotAfter
      <3>7. e.n <= saves'[e.device] BY <2>1, <2>2, <2>3, <2>7 DEF TypeOK
      <3>8. \A i \in e.saw : i \in Id /\ i[2] <= saves[i[1]]
        BY <2>3, <2>7 DEF EventInv, Known, TypeOK
      <3>. QED BY <2>4, <3>6, <3>7, <3>8
    <2>8. Made'
      <3>1. \A e \in Events' : e \in Events \/ e = Saved(d) BY <1>2
      <3>. QED BY <2>6, <2>7, <3>1 DEF Made
    <2>9. IdsUnique' BY <1>2, SavedIsNew DEF EventInv, IdsUnique
    <2>10. StampsUnique'
      <3>1. ASSUME NEW e \in Events' \cap Events
            PROVE  ~(/\ e.wall = Saved(d).wall
                     /\ e.counter = Saved(d).counter
                     /\ e.device = Saved(d).device)
        <4>1. e.wall \in Nat /\ e.counter \in Nat BY <1>1 DEF Event
        <4>. QED BY <2>3, <4>1, SavedIsNew
      <3>. QED BY <1>2, <3>1 DEF EventInv, StampsUnique
    <2>. QED BY <2>5, <2>8, <2>9, <2>10 DEF EventInv
  <1>3. ASSUME Events' \subseteq Events, saves' = saves PROVE EventInv'
    <2>1. Made'
      <3>1. ASSUME NEW e \in Events PROVE NotAfter(e, e.device)'
        BY <1>1, StepClock DEF EventInv, Made, Event
      <3>. QED BY <1>3, <3>1 DEF EventInv, Made
    <2>2. Known'
      <3>1. ASSUME NEW d \in Device, NEW i \in seen'[d]
            PROVE  i \in seen[d] \/ \E e \in Events : i = IdOf(e)
        <4>1. ASSUME NEW c \in Device, NEW p \in Device, Merge(c, p)
              PROVE  i \in seen[d] \/ \E e \in Events : i = IdOf(e)
          <5>1. CASE UNCHANGED seen BY <3>1, <5>1
          <5>2. ASSUME NEW e \in file[p].progress,
                       seen' = [seen EXCEPT ![c] = @ \cup {IdOf(e)}]
                PROVE  i \in seen[d] \/ i = IdOf(e)
            BY <3>1, <5>2 DEF TypeOK
          <5>3. file[p].progress \subseteq Events BY DEF Events
          <5>. QED BY <4>1, <5>1, <5>2, <5>3 DEF Merge
        <4>2. ASSUME NEW c \in Device, Save(c) PROVE FALSE
          BY <1>3, <4>2 DEF Save, TypeOK
        <4>3. CASE Pass BY <3>1, <4>3 DEF Pass
        <4>4. ASSUME NEW c \in Device, Note(c) \/ Upload(c) \/ Correct(c) PROVE i \in seen[d]
          BY <3>1, <4>4 DEF Note, Upload, Correct
        <4>5. CASE UNCHANGED vars BY <3>1, <4>5 DEF vars
        <4>. QED BY <4>1, <4>2, <4>3, <4>4, <4>5 DEF Next
      <3>2. \A e \in Events : IdOf(e)[2] <= saves[IdOf(e)[1]]
        BY DEF EventInv, Made, IdOf
      <3>. QED BY <1>3, <3>1, <3>2 DEF EventInv, Known
    <2>3. IdsUnique' BY <1>3 DEF EventInv, IdsUnique
    <2>4. StampsUnique' BY <1>3 DEF EventInv, StampsUnique
    <2>. QED BY <2>1, <2>2, <2>3, <2>4 DEF EventInv
  <1>. QED BY <1>2, <1>3, StepEvents

LEMMA EventCorrect == Spec => [](TypeOK /\ EventInv)
  <1>1. Init => TypeOK /\ EventInv BY InitTypeOK, InitEventInv
  <1>2. TypeOK /\ EventInv /\ [Next]_vars => (TypeOK /\ EventInv)'
    BY StepTypeOK, StepEventInv
  <1>. QED BY <1>1, <1>2, PTL DEF Spec

\* StampsUnique: no two events carry the same timestamp, whatever the clocks show.
THEOREM StampsUniqueAlways == Spec => []StampsUnique
  BY EventCorrect, PTL DEF EventInv

-----------------------------------------------------------------------------
(* The newest event wins while clocks agree *)

\* No device's clock, and no event in a file, is ahead of the time it shows.
NoneAhead ==
    /\ \A d \in Device : hlc[d].wall <= time
    /\ \A d \in Device : file[d].at <= time
    /\ \A d \in Device : \A e \in file[d].progress : e.wall <= file[d].at

\* What a device has merged was made before the present millisecond.
MergedPast ==
    \A d \in Device : \A e \in Events : IdOf(e) \in seen[d] /\ e.device # d => e.wall < time

\* An event is after those known where it was saved.
AfterKnown == \A e, f \in Events : IdOf(e) \in f.saw => Before(e, f)

\* A device has one position.
OnePosition == \A d \in Device : \A e, f \in progress[d] : e = f

SyncInv ==
    /\ fast \subseteq wrong
    /\ OnePosition
    /\ wrong = {} => NoneAhead /\ MergedPast /\ AfterKnown

LEMMA BeforeIsStrict ==
  ASSUME NEW e \in Event, NEW f \in Event
  PROVE  ~(Before(e, f) /\ Before(f, e))
  <1>1. Rank[e.device] \in Nat /\ Rank[f.device] \in Nat BY ClockAssumption DEF Event
  <1>2. e.wall \in Nat /\ e.counter \in Nat /\ f.wall \in Nat /\ f.counter \in Nat BY DEF Event
  <1>. QED BY <1>1, <1>2 DEF Before

LEMMA InitSyncInv == Init => SyncInv
  BY DEF Init, SyncInv, OnePosition, NoneAhead, MergedPast, AfterKnown, Events

LEMMA StepOnePosition ==
  ASSUME TypeOK, OnePosition, [Next]_vars
  PROVE  OnePosition'
  <1>1. CASE UNCHANGED progress BY <1>1 DEF OnePosition
  <1>2. ASSUME NEW d \in Device, NEW e, progress' = [progress EXCEPT ![d] = {e}]
        PROVE  OnePosition'
    BY <1>2 DEF OnePosition, TypeOK
  <1>3. CASE Pass \/ UNCHANGED vars BY <1>1, <1>3 DEF Pass, vars
  <1>4. ASSUME NEW d \in Device, Save(d) PROVE OnePosition'
    <2>1. progress' = [progress EXCEPT ![d] = {Saved(d)}] BY <1>4 DEF Save, Saved
    <2>. QED BY <1>2, <2>1
  <1>5. ASSUME NEW d \in Device, Note(d) \/ Upload(d) \/ Correct(d) PROVE OnePosition'
    BY <1>1, <1>5 DEF Note, Upload, Correct
  <1>6. ASSUME NEW d \in Device, NEW p \in Device, Merge(d, p) PROVE OnePosition'
    <2>1. ASSUME NEW e \in file[p].progress,
                 progress' = [progress EXCEPT ![d] = IF Wins(e, d) THEN {e} ELSE @]
          PROVE  OnePosition'
      <3>1. CASE Wins(e, d)
        <4>1. progress' = [progress EXCEPT ![d] = {e}] BY <2>1, <3>1
        <4>. QED BY <1>2, <4>1
      <3>2. CASE ~Wins(e, d)
        <4>1. progress' = progress BY <2>1, <3>2 DEF TypeOK
        <4>. QED BY <1>1, <4>1
      <3>. QED BY <3>1, <3>2
    <2>. QED BY <1>1, <1>6, <2>1 DEF Merge
  <1>. QED BY <1>3, <1>4, <1>5, <1>6 DEF Next

\* While clocks agree, no event is ahead of them and no timestamp is.
LEMMA EventsNotAhead ==
  ASSUME TypeOK, EventInv, NoneAhead, NEW e \in Events
  PROVE  e \in Event /\ e.wall <= time
  <1>1. e \in Event BY EventsTyped
  <1>2. NotAfter(e, e.device) BY DEF EventInv, Made
  <1>3. hlc[e.device] \in Clock /\ hlc[e.device].wall <= time
    BY <1>1 DEF TypeOK, Event, NoneAhead
  <1>4. e.wall \in Nat /\ time \in Nat BY <1>1 DEF Event, TypeOK
  <1>. QED BY <1>1, <1>2, <1>3, <1>4 DEF NotAfter, Clock

LEMMA TickNotAhead ==
  ASSUME TypeOK, SyncInv, wrong = {}, NEW d \in Device, NEW observed \in Nat, observed <= time
  PROVE  Tick(d, observed).wall <= time
  <1>1. Now(d) = time BY DEF Now, SyncInv
  <1>2. hlc[d].wall <= time /\ time \in Nat BY DEF SyncInv, NoneAhead, TypeOK
  <1>3. \A bound \in Nat : Now(d) <= bound /\ hlc[d].wall <= bound /\ observed <= bound
                               => Tick(d, observed).wall <= bound
    BY TickAdvances
  <1>. QED BY <1>1, <1>2, <1>3

LEMMA StepNoneAhead ==
  ASSUME TypeOK, EventInv, SyncInv, wrong = {}, [Next]_vars
  PROVE  NoneAhead'
  <1>1. NoneAhead /\ time \in Nat /\ 0 <= time BY DEF SyncInv, TypeOK
  <1>2. ASSUME NEW d \in Device, NEW o \in Nat, o <= time,
               hlc' = [hlc EXCEPT ![d] = Tick(d, o)], UNCHANGED time
        PROVE  \A c \in Device : hlc'[c].wall <= time'
    BY <1>1, <1>2, TickNotAhead DEF NoneAhead, TypeOK
  <1>3. CASE Pass
    <2>1. \A d \in Device : hlc[d].wall \in Nat /\ file[d].at \in Nat BY DEF TypeOK, Clock, File
    <2>. QED BY <1>1, <1>3, <2>1 DEF Pass, NoneAhead
  <1>4. ASSUME NEW d \in Device, Save(d) \/ Note(d) PROVE NoneAhead'
    <2>1. hlc' = [hlc EXCEPT ![d] = Tick(d, 0)] /\ UNCHANGED <<time, file>>
      BY <1>4 DEF Save, Note
    <2>2. \A c \in Device : hlc'[c].wall <= time' BY <1>1, <1>2, <2>1
    <2>. QED BY <1>1, <2>1, <2>2 DEF NoneAhead
  <1>5. ASSUME NEW d \in Device, Upload(d) PROVE NoneAhead'
    <2>1. hlc' = [hlc EXCEPT ![d] = Tick(d, 0)] /\ UNCHANGED time BY <1>5 DEF Upload
    <2>2. \A c \in Device : hlc'[c].wall <= time' BY <1>1, <1>2, <2>1
    <2>3. file'[d].at = time /\ file'[d].progress \subseteq progress[d]
      BY <1>5 DEF Upload, TypeOK
    <2>4. \A c \in Device \ {d} : file'[c] = file[c] BY <1>5 DEF Upload, TypeOK
    <2>5. \A e \in file'[d].progress : e.wall <= time
      BY <1>1, <2>3, EventsNotAhead DEF Events
    <2>. QED BY <1>1, <2>1, <2>2, <2>3, <2>4, <2>5 DEF NoneAhead
  <1>6. ASSUME NEW d \in Device, NEW p \in Device, Merge(d, p) PROVE NoneAhead'
    <2>1. UNCHANGED <<time, file>> BY <1>6 DEF Merge
    <2>2. CASE UNCHANGED hlc BY <1>1, <2>1, <2>2 DEF NoneAhead
    <2>3. ASSUME NEW e \in file[p].progress, hlc' = [hlc EXCEPT ![d] = Tick(d, e.wall)]
          PROVE  NoneAhead'
      <3>1. e \in Events BY DEF Events
      <3>2. e.wall \in Nat /\ e.wall <= time BY <1>1, <3>1, EventsNotAhead DEF Event
      <3>3. \A c \in Device : hlc'[c].wall <= time' BY <1>2, <2>1, <2>3, <3>2
      <3>. QED BY <1>1, <2>1, <3>3 DEF NoneAhead
    <2>. QED BY <1>6, <2>2, <2>3 DEF Merge
  <1>7. CASE UNCHANGED vars BY <1>1, <1>7 DEF vars, NoneAhead
  <1>8. ASSUME NEW d \in Device, Correct(d) PROVE NoneAhead' BY <1>1, <1>8 DEF Correct, NoneAhead
  <1>. QED BY <1>3, <1>4, <1>5, <1>6, <1>7, <1>8 DEF Next

\* A merged event has spent at least Latency on the way.
LEMMA StepMergedPast ==
  ASSUME Latency > 0, TypeOK, EventInv, SyncInv, wrong = {}, [Next]_vars
  PROVE  MergedPast'
  <1>1. NoneAhead /\ MergedPast BY DEF SyncInv
  <1>2. time <= time' /\ time \in Nat /\ time' \in Nat BY StepEvents DEF TypeOK
  <1>3. SUFFICES ASSUME NEW d \in Device, NEW e \in Events', IdOf(e) \in seen'[d], e.device # d
                 PROVE  e.wall < time'
    BY DEF MergedPast
  <1>4. CASE e \in Events /\ IdOf(e) \in seen[d]
    <2>1. e.wall < time BY <1>1, <1>3, <1>4 DEF MergedPast
    <2>2. e.wall \in Nat BY <1>4, EventsTyped DEF Event
    <2>. QED BY <1>2, <2>1, <2>2
  <1>5. ASSUME NEW c \in Device, Save(c), Events' \subseteq Events \cup {Saved(c)}
        PROVE  e \in Events /\ IdOf(e) \in seen[d]
    <2>1. seen' = [seen EXCEPT ![c] = @ \cup {IdOf(Saved(c))}] BY <1>5 DEF Save, Saved
    <2>2. e # Saved(c)
      <3>1. CASE c = d BY <1>3, <3>1 DEF Saved
      <3>2. ASSUME c # d, e = Saved(c) PROVE FALSE
        <4>1. IdOf(e) = <<c, saves[c] + 1>> BY <3>2, SavedType
        <4>2. IdOf(e) \in seen[d] BY <1>3, <2>1, <3>2 DEF TypeOK
        <4>3. saves[c] + 1 <= saves[c] BY <4>1, <4>2 DEF EventInv, Known
        <4>. QED BY <4>3 DEF TypeOK
      <3>. QED BY <3>1, <3>2
    <2>3. e \in Events BY <1>5, <2>2
    <2>4. IdOf(e) # IdOf(Saved(c)) BY <2>3, SavedIsNew
    <2>. QED BY <1>3, <2>1, <2>3, <2>4 DEF TypeOK
  <1>6. ASSUME Events' \subseteq Events, saves' = saves, IdOf(e) \notin seen[d]
        PROVE  e.wall < time'
    <2>1. PICK p \in Device : /\ Merge(d, p)
                              /\ \E f \in file[p].progress : IdOf(e) = IdOf(f)
      <3>1. ASSUME NEW c \in Device, NEW p \in Device, Merge(c, p)
            PROVE  c = d /\ \E f \in file[p].progress : IdOf(e) = IdOf(f)
        <4>1. ~UNCHANGED seen BY <1>3, <1>6
        <4>2. PICK f \in file[p].progress : seen' = [seen EXCEPT ![c] = @ \cup {IdOf(f)}]
          BY <3>1, <4>1 DEF Merge
        <4>. QED BY <1>3, <1>6, <4>2 DEF TypeOK
      <3>2. ASSUME NEW c \in Device, Save(c) PROVE FALSE BY <1>6, <3>2 DEF Save, TypeOK
      <3>3. ASSUME NEW c \in Device, Note(c) \/ Upload(c) \/ Correct(c) PROVE FALSE
        BY <1>3, <1>6, <3>3 DEF Note, Upload, Correct
      <3>4. CASE Pass \/ UNCHANGED vars BY <1>3, <1>6, <3>4 DEF Pass, vars
      <3>. QED BY <3>1, <3>2, <3>3, <3>4 DEF Next
    <2>2. PICK f \in file[p].progress : IdOf(e) = IdOf(f) BY <2>1
    <2>3. f \in Events /\ e \in Events BY <1>6 DEF Events
    <2>4. e = f BY <2>2, <2>3 DEF EventInv, IdsUnique
    <2>5. e.wall <= file[p].at BY <1>1, <2>2, <2>4 DEF NoneAhead
    <2>6. file[p].at + Latency <= time BY <2>1 DEF Merge
    <2>7. e.wall \in Nat /\ file[p].at \in Nat /\ Latency \in Nat
      BY <2>3, EventsTyped, ClockAssumption DEF Event, TypeOK, File
    <2>. QED BY <1>2, <2>5, <2>6, <2>7
  <1>. QED BY <1>4, <1>5, <1>6, StepEvents

\* While clocks agree, a new event is after all the device knows of.
LEMMA SavedAfterSeen ==
  ASSUME TypeOK, EventInv, SyncInv, wrong = {}, NEW d \in Device, NEW e \in Events,
         IdOf(e) \in seen[d]
  PROVE  Before(e, Saved(d))
  <1>1. CASE e.device = d
    <2>1. Saved(d).device = d BY DEF Saved
    <2>. QED BY <1>1, <2>1, SavedIsNew DEF Before
  <1>2. CASE e.device # d
    <2>1. e.wall < time BY <1>2 DEF SyncInv, MergedPast
    <2>2. Saved(d).wall = Tick(d, 0).wall BY DEF Saved
    <2>3. time <= Saved(d).wall BY <2>2, TickAdvances DEF Now, SyncInv
    <2>4. e.wall \in Nat /\ Saved(d).wall \in Nat /\ time \in Nat
      BY SavedType, EventsTyped DEF Event, TypeOK
    <2>5. e.wall < Saved(d).wall BY <2>1, <2>3, <2>4
    <2>. QED BY <2>5 DEF Before
  <1>. QED BY <1>1, <1>2

LEMMA StepAfterKnown ==
  ASSUME TypeOK, EventInv, SyncInv, wrong = {}, [Next]_vars
  PROVE  AfterKnown'
  <1>1. NoneAhead /\ MergedPast /\ AfterKnown /\ fast = {} BY DEF SyncInv
  <1>2. ASSUME NEW d \in Device, Save(d), Events' \subseteq Events \cup {Saved(d)}
        PROVE  AfterKnown'
    <2>1. Saved(d).saw = seen[d] BY DEF Saved
    <2>3. \A e \in Events : IdOf(e) \in seen[d] => Before(e, Saved(d)) BY SavedAfterSeen
    <2>4. IdOf(Saved(d)) \notin seen[d]
      <3>1. IdOf(Saved(d)) = <<d, saves[d] + 1>> BY SavedType
      <3>2. ASSUME IdOf(Saved(d)) \in seen[d] PROVE FALSE
        <4>1. saves[d] + 1 <= saves[d] BY <3>1, <3>2 DEF EventInv, Known
        <4>. QED BY <4>1 DEF TypeOK
      <3>. QED BY <3>2
    <2>5. \A f \in Events : IdOf(Saved(d)) \notin f.saw BY SavedIsNew
    <2>6. ASSUME NEW e \in Events', NEW f \in Events', IdOf(e) \in f.saw PROVE Before(e, f)
      <3>1. e \in Events \/ e = Saved(d) BY <1>2
      <3>2. f \in Events \/ f = Saved(d) BY <1>2
      <3>. QED BY <1>1, <2>1, <2>3, <2>4, <2>5, <2>6, <3>1, <3>2 DEF AfterKnown
    <2>. QED BY <2>6 DEF AfterKnown, Before
  <1>3. ASSUME Events' \subseteq Events PROVE AfterKnown'
    BY <1>1, <1>3 DEF AfterKnown, Before
  <1>. QED BY <1>2, <1>3, StepEvents

LEMMA SyncCorrect ==
  ASSUME Latency > 0
  PROVE  Spec => [](TypeOK /\ EventInv /\ SyncInv)
  <1>1. TypeOK /\ EventInv /\ SyncInv /\ [Next]_vars => SyncInv'
    <2>. SUFFICES ASSUME TypeOK, EventInv, SyncInv, [Next]_vars PROVE SyncInv' OBVIOUS
    <2>1. wrong' = wrong /\ fast' \subseteq fast BY StepEvents
    <2>2. OnePosition' BY StepOnePosition DEF SyncInv
    <2>3. ASSUME wrong' = {} PROVE NoneAhead' /\ MergedPast' /\ AfterKnown'
      BY <2>1, <2>3, StepNoneAhead, StepMergedPast, StepAfterKnown
    <2>. QED BY <2>1, <2>2, <2>3 DEF SyncInv
  <1>2. Init => SyncInv BY InitSyncInv
  <1>. QED BY <1>1, <1>2, EventCorrect, PTL DEF Spec

LEMMA StepKeepsNewest ==
  ASSUME TypeOK, EventInv, SyncInv, wrong = {}, [Next]_vars
  PROVE  KeepsNewest
  <1>1. OnePosition /\ AfterKnown BY DEF SyncInv
  <1>2. SUFFICES ASSUME NEW d \in Device, NEW e \in progress[d], NEW f \in progress'[d],
                        IdOf(f) \in e.saw
                 PROVE  FALSE
    BY DEF KeepsNewest
  <1>3. e \in Events /\ e \in Event BY EventsTyped DEF Events
  <1>4. CASE f \in progress[d]
    <2>1. e = f BY <1>1, <1>4 DEF OnePosition
    <2>2. Before(e, e) BY <1>1, <1>2, <1>3, <2>1 DEF AfterKnown
    <2>. QED BY <1>3, <2>2, BeforeIsStrict
  <1>5. ASSUME NEW c \in Device, Save(c) PROVE f \in progress[d]
    <2>1. progress' = [progress EXCEPT ![c] = {Saved(c)}] BY <1>5 DEF Save, Saved
    <2>2. f # Saved(c) BY <1>2, <1>3, SavedIsNew
    <2>. QED BY <2>1, <2>2 DEF TypeOK
  <1>6. ASSUME NEW c \in Device, NEW p \in Device, Merge(c, p) PROVE FALSE
    <2>1. f \notin progress[d] BY <1>4
    <2>2. PICK g \in file[p].progress :
              progress' = [progress EXCEPT ![c] = IF Wins(g, c) THEN {g} ELSE @]
      BY <1>6, <2>1 DEF Merge
    <2>3. c = d /\ f = g /\ Wins(f, d) BY <2>1, <2>2 DEF TypeOK
    <2>4. Before(e, f) BY <2>3 DEF Wins
    <2>5. f \in Events /\ f \in Event BY <2>2, <2>3, EventsTyped DEF Events
    <2>6. Before(f, e) BY <1>1, <1>2, <1>3, <2>5 DEF AfterKnown
    <2>. QED BY <1>3, <2>4, <2>5, <2>6, BeforeIsStrict
  <1>7. ASSUME NEW c \in Device, Note(c) \/ Upload(c) \/ Correct(c) PROVE f \in progress[d]
    BY <1>7 DEF Note, Upload, Correct
  <1>8. CASE Pass \/ UNCHANGED vars BY <1>4, <1>8 DEF Pass, vars
  <1>. QED BY <1>4, <1>5, <1>6, <1>7, <1>8 DEF Next

\* NewestWinsSynced: if all clocks agree and a file takes at least a millisecond
\* to travel, no device goes back to a position its reader has left.
THEOREM NewestWinsSyncedAlways ==
  ASSUME Latency > 0
  PROVE  Spec => NewestWinsSynced
  <1>1. TypeOK /\ EventInv /\ SyncInv /\ [Next]_vars => [wrong = {} => KeepsNewest]_vars
    BY StepKeepsNewest
  <1>. QED BY <1>1, SyncCorrect, PTL DEF Spec, NewestWinsSynced

-----------------------------------------------------------------------------
(* Devices that have exchanged everything agree                              *)

\* The event f is e or a newer one.
Reaches(e, f) == e = f \/ Before(e, f)

\* A device holds f or a newer position.
HoldsFrom(d, f) == \E g \in progress[d] : Reaches(f, g)

\* A file has the position of its own device, if any.
FilesOwn == \A p \in Device : \A e, f \in file[p].progress : e = f /\ e.device = p

\* A position that the device made itself is in its file, or about to be.
OwnUploaded ==
    \A p \in Device : \A e \in progress[p] : e.device = p => changed[p] \/ e \in file[p].progress

PositionSeen == \A d \in Device : \A e \in progress[d] : IdOf(e) \in seen[d]

AppliedPast == \A d, p \in Device : applied[d][p] <= file[p].number

\* No event is newer than all positions held by the devices that made them: such
\* a position is only given up for a newer one, which has a holder of its own.
OwnerHolds ==
    \A e \in Events : \E p \in Device : \E g \in progress[p] : g.device = p /\ Reaches(e, g)

\* A device that has merged a file holds its position or a newer one.
MergedHeld ==
    \A d \in Device : \A p \in Device \ {d} :
        applied[d][p] = file[p].number => \A f \in file[p].progress : HoldsFrom(d, f)

ConvergeInv ==
    /\ FilesOwn
    /\ OwnUploaded
    /\ PositionSeen
    /\ AppliedPast
    /\ OwnerHolds
    /\ wrong = {} => MergedHeld

LEMMA ReachesTransitive ==
  ASSUME NEW e \in Event, NEW f \in Event, NEW g \in Event, Reaches(e, f), Reaches(f, g)
  PROVE  Reaches(e, g)
  <1>1. Rank[e.device] \in Nat /\ Rank[f.device] \in Nat /\ Rank[g.device] \in Nat
    BY ClockAssumption DEF Event
  <1>2. /\ e.wall \in Nat /\ f.wall \in Nat /\ g.wall \in Nat
        /\ e.counter \in Nat /\ f.counter \in Nat /\ g.counter \in Nat
    BY DEF Event
  <1>3. Before(e, f) /\ Before(f, g) => Before(e, g) BY <1>1, <1>2 DEF Before
  <1>. QED BY <1>3 DEF Reaches

\* Timestamps are unique, so they order all events.
LEMMA EventsOrdered ==
  ASSUME TypeOK, EventInv, NEW e \in Events, NEW f \in Events
  PROVE  Reaches(e, f) \/ Before(f, e)
  <1>1. e \in Event /\ f \in Event BY EventsTyped
  <1>2. Rank[e.device] \in Nat /\ Rank[f.device] \in Nat BY <1>1, ClockAssumption DEF Event
  <1>3. Rank[e.device] = Rank[f.device] => e.device = f.device
    BY <1>1, ClockAssumption DEF Event
  <1>4. e.wall \in Nat /\ f.wall \in Nat /\ e.counter \in Nat /\ f.counter \in Nat
    BY <1>1 DEF Event
  <1>5. CASE e.wall = f.wall /\ e.counter = f.counter /\ e.device = f.device
    BY <1>5 DEF EventInv, StampsUnique, IdsUnique, Reaches
  <1>6. CASE ~(e.wall = f.wall /\ e.counter = f.counter /\ e.device = f.device)
    BY <1>2, <1>3, <1>4, <1>6 DEF Before, Reaches
  <1>. QED BY <1>5, <1>6

\* A position changes when the device saves one and when it merges a newer one.
LEMMA StepProgress ==
  ASSUME TypeOK, [Next]_vars
  PROVE  \/ progress' = progress
         \/ \E d \in Device : Save(d) /\ progress' = [progress EXCEPT ![d] = {Saved(d)}]
         \/ \E d \in Device : \E p \in Device \ {d} : \E e \in file[p].progress :
               /\ Merge(d, p) /\ Wins(e, d)
               /\ progress' = [progress EXCEPT ![d] = {e}]
               /\ seen' = [seen EXCEPT ![d] = @ \cup {IdOf(e)}]
  <1>1. CASE Pass \/ UNCHANGED vars BY <1>1 DEF Pass, vars
  <1>2. ASSUME NEW d \in Device, Save(d)
        PROVE  progress' = [progress EXCEPT ![d] = {Saved(d)}]
    BY <1>2 DEF Save, Saved
  <1>3. ASSUME NEW d \in Device, Note(d) \/ Upload(d) \/ Correct(d) PROVE progress' = progress
    BY <1>3 DEF Note, Upload, Correct
  <1>4. ASSUME NEW d \in Device, NEW p \in Device, Merge(d, p), progress' # progress
        PROVE  /\ p \in Device \ {d}
               /\ \E e \in file[p].progress :
                     /\ Wins(e, d)
                     /\ progress' = [progress EXCEPT ![d] = {e}]
                     /\ seen' = [seen EXCEPT ![d] = @ \cup {IdOf(e)}]
    <2>1. PICK e \in file[p].progress :
              /\ progress' = [progress EXCEPT ![d] = IF Wins(e, d) THEN {e} ELSE @]
              /\ seen' = [seen EXCEPT ![d] = @ \cup {IdOf(e)}]
      BY <1>4 DEF Merge
    <2>2. Wins(e, d) BY <1>4, <2>1 DEF TypeOK
    <2>. QED BY <1>4, <2>1, <2>2 DEF Merge
  <1>. QED BY <1>1, <1>2, <1>3, <1>4 DEF Next

LEMMA StepSeen ==
  ASSUME TypeOK, [Next]_vars, NEW d \in Device
  PROVE  seen[d] \subseteq seen'[d]
  <1>1. CASE UNCHANGED seen BY <1>1
  <1>2. ASSUME NEW c \in Device, NEW i, seen' = [seen EXCEPT ![c] = @ \cup {i}]
        PROVE  seen[d] \subseteq seen'[d]
    BY <1>2 DEF TypeOK
  <1>3. ASSUME NEW c \in Device, Save(c)
        PROVE  seen' = [seen EXCEPT ![c] = @ \cup {IdOf(Saved(c))}]
    BY <1>3 DEF Save, Saved
  <1>4. CASE Pass \/ UNCHANGED vars BY <1>1, <1>4 DEF Pass, vars
  <1>5. ASSUME NEW c \in Device, Note(c) \/ Upload(c) \/ Correct(c) PROVE UNCHANGED seen
    BY <1>5 DEF Note, Upload, Correct
  <1>6. ASSUME NEW c \in Device, NEW p \in Device, Merge(c, p)
        PROVE  \/ UNCHANGED seen
               \/ \E e \in file[p].progress : seen' = [seen EXCEPT ![c] = @ \cup {IdOf(e)}]
    BY <1>6 DEF Merge
  <1>. QED BY <1>1, <1>2, <1>3, <1>4, <1>5, <1>6 DEF Next

\* Files and the numbers of the merged ones change in uploads and merges only.
LEMMA StepFiles ==
  ASSUME TypeOK, [Next]_vars
  PROVE  \/ UNCHANGED <<file, applied>>
         \/ \E d \in Device : Upload(d)
         \/ \E d \in Device : \E p \in Device \ {d} : Merge(d, p) /\ UNCHANGED file
  BY DEF Next, Pass, Save, Note, Correct, Merge, vars

LEMMA StepFilesOwn ==
  ASSUME TypeOK, OnePosition, FilesOwn, [Next]_vars
  PROVE  FilesOwn'
  <1>1. ASSUME NEW d \in Device, Upload(d) PROVE FilesOwn'
    <2>1. file'[d].progress = {e \in progress[d] : e.device = d} BY <1>1 DEF Upload, TypeOK
    <2>2. \A p \in Device \ {d} : file'[p] = file[p] BY <1>1 DEF Upload, TypeOK
    <2>. QED BY <2>1, <2>2 DEF FilesOwn, OnePosition
  <1>2. CASE UNCHANGED file BY <1>2 DEF FilesOwn
  <1>. QED BY <1>1, <1>2, StepFiles

LEMMA StepOwnUploaded ==
  ASSUME TypeOK, FilesOwn, OwnUploaded, [Next]_vars
  PROVE  OwnUploaded'
  <1>1. SUFFICES ASSUME NEW p \in Device, NEW e \in progress'[p], e.device = p
                 PROVE  changed'[p] \/ e \in file'[p].progress
    BY DEF OwnUploaded
  <1>2. CASE e \in progress[p]
    <2>1. changed[p] \/ e \in file[p].progress BY <1>1, <1>2 DEF OwnUploaded
    <2>2. CASE Upload(p)
      <3>1. file'[p].progress = {f \in progress[p] : f.device = p}
        BY <2>2 DEF Upload, TypeOK
      <3>. QED BY <1>1, <1>2, <3>1
    <2>3. CASE ~Upload(p)
      <3>1. ASSUME NEW d \in Device, Upload(d)
            PROVE  changed'[p] = changed[p] /\ file'[p] = file[p]
        BY <2>3, <3>1 DEF Upload, TypeOK
      <3>2. CASE Pass \/ UNCHANGED vars BY <2>1, <3>2 DEF Pass, vars
      <3>3. ASSUME NEW d \in Device, Save(d) \/ Note(d)
            PROVE  changed'[p] \/ e \in file'[p].progress
        BY <2>1, <3>3 DEF Save, Note, TypeOK
      <3>4. ASSUME NEW d \in Device, Correct(d) \/ \E q \in Device : Merge(d, q)
            PROVE  changed'[p] \/ e \in file'[p].progress
        BY <2>1, <3>4 DEF Correct, Merge
      <3>. QED BY <2>1, <3>1, <3>2, <3>3, <3>4 DEF Next
    <2>. QED BY <2>2, <2>3
  <1>3. CASE e \notin progress[p]
    <2>1. ASSUME NEW d \in Device, Save(d), progress' = [progress EXCEPT ![d] = {Saved(d)}]
          PROVE  changed'[p]
      BY <1>3, <2>1 DEF Save, TypeOK
    <2>2. ASSUME NEW d \in Device, NEW q \in Device \ {d}, NEW f \in file[q].progress,
                 progress' = [progress EXCEPT ![d] = {f}]
          PROVE  FALSE
      BY <1>1, <1>3, <2>2 DEF FilesOwn, TypeOK
    <2>. QED BY <1>3, <2>1, <2>2, StepProgress
  <1>. QED BY <1>2, <1>3

LEMMA StepPositionSeen ==
  ASSUME TypeOK, PositionSeen, [Next]_vars
  PROVE  PositionSeen'
  <1>1. SUFFICES ASSUME NEW d \in Device, NEW e \in progress'[d] PROVE IdOf(e) \in seen'[d]
    BY DEF PositionSeen, IdOf
  <1>2. CASE e \in progress[d] BY <1>2, StepSeen DEF PositionSeen
  <1>3. ASSUME NEW c \in Device, Save(c), progress' = [progress EXCEPT ![c] = {Saved(c)}],
               e \notin progress[d]
        PROVE  IdOf(e) \in seen'[d]
    <2>1. seen' = [seen EXCEPT ![c] = @ \cup {IdOf(Saved(c))}] BY <1>3 DEF Save, Saved
    <2>. QED BY <1>1, <1>3, <2>1 DEF TypeOK
  <1>4. ASSUME NEW c \in Device, NEW f, progress' = [progress EXCEPT ![c] = {f}],
               seen' = [seen EXCEPT ![c] = @ \cup {IdOf(f)}], e \notin progress[d]
        PROVE  IdOf(e) \in seen'[d]
    BY <1>1, <1>4 DEF TypeOK
  <1>. QED BY <1>2, <1>3, <1>4, StepProgress

LEMMA StepAppliedPast ==
  ASSUME TypeOK, AppliedPast, [Next]_vars
  PROVE  AppliedPast'
  <1>. \A d, p \in Device : applied[d][p] \in Nat /\ file[p].number \in Nat
    BY DEF TypeOK, File
  <1>1. CASE UNCHANGED <<file, applied>> BY <1>1 DEF AppliedPast
  <1>2. ASSUME NEW d \in Device, Upload(d) PROVE AppliedPast'
    <2>1. file'[d].number = file[d].number + 1 /\ applied' = applied
      BY <1>2 DEF Upload, TypeOK
    <2>2. \A p \in Device \ {d} : file'[p] = file[p] BY <1>2 DEF Upload, TypeOK
    <2>. QED BY <2>1, <2>2 DEF AppliedPast
  <1>3. ASSUME NEW d \in Device, NEW p \in Device, Merge(d, p), UNCHANGED file
        PROVE  AppliedPast'
    <2>1. applied' = [applied EXCEPT ![d][p] = file[p].number] BY <1>3 DEF Merge
    <2>. QED BY <1>3, <2>1 DEF AppliedPast, TypeOK
  <1>. QED BY <1>1, <1>2, <1>3, StepFiles

LEMMA StepOwnerHolds ==
  ASSUME TypeOK, EventInv, OnePosition, FilesOwn, OwnerHolds, [Next]_vars
  PROVE  OwnerHolds'
  <1>0. Events \subseteq Event BY EventsTyped
  <1>1. CASE progress' = progress
    <2>1. Events' \subseteq Events
      <3>1. CASE \E d \in Device : Save(d)
        <4>1. PICK d \in Device : Save(d) BY <3>1
        <4>2. progress' = [progress EXCEPT ![d] = {Saved(d)}] BY <4>1 DEF Save, Saved
        <4>3. Saved(d) \in progress[d] BY <1>1, <4>2 DEF TypeOK
        <4>4. Saved(d) \in Events BY <4>3 DEF Events
        <4>. QED BY <4>4, SavedIsNew
      <3>2. CASE ~\E d \in Device : Save(d) BY <3>2, StepEvents
      <3>. QED BY <3>1, <3>2
    <2>. QED BY <1>1, <2>1 DEF OwnerHolds
  <1>2. ASSUME NEW d \in Device, Save(d), progress' = [progress EXCEPT ![d] = {Saved(d)}]
        PROVE  OwnerHolds'
    <2>1. Saved(d) \in progress'[d] /\ Saved(d) \in Event /\ Saved(d).device = d
      BY <1>2, SavedType DEF TypeOK, Saved
    <2>2. Events' \subseteq Events \cup {Saved(d)} BY <1>2 DEF Save, Events, TypeOK
    <2>3. ASSUME NEW e \in Events
          PROVE  \E p \in Device : \E g \in progress'[p] : g.device = p /\ Reaches(e, g)
      <3>1. PICK p \in Device : \E g \in progress[p] : g.device = p /\ Reaches(e, g)
        BY DEF OwnerHolds
      <3>2. PICK g \in progress[p] : g.device = p /\ Reaches(e, g) BY <3>1
      <3>3. CASE p # d BY <1>2, <3>2, <3>3 DEF TypeOK
      <3>4. CASE p = d
        <4>1. g \in Events /\ g \in Event BY <1>0 DEF Events
        <4>2. Reaches(g, Saved(d))
          BY <2>1, <3>2, <3>4, <4>1, SavedIsNew DEF Reaches, Before
        <4>3. Reaches(e, Saved(d)) BY <1>0, <2>1, <3>2, <4>1, <4>2, ReachesTransitive
        <4>. QED BY <2>1, <4>3
      <3>. QED BY <3>3, <3>4
    <2>4. Reaches(Saved(d), Saved(d)) BY DEF Reaches
    <2>. QED BY <2>1, <2>2, <2>3, <2>4 DEF OwnerHolds
  <1>3. ASSUME NEW d \in Device, NEW q \in Device \ {d}, NEW f \in file[q].progress,
               Wins(f, d), progress' = [progress EXCEPT ![d] = {f}], Merge(d, q)
        PROVE  OwnerHolds'
    <2>1. f \in Events /\ f \in Event BY <1>0 DEF Events
    <2>2. Events' \subseteq Events
      <3>1. UNCHANGED file BY <1>3 DEF Merge
      <3>. QED BY <1>3, <2>1, <3>1 DEF Events, TypeOK
    <2>3. PICK r \in Device : \E h \in progress[r] : h.device = r /\ Reaches(f, h)
      BY <2>1 DEF OwnerHolds
    <2>4. PICK h \in progress[r] : h.device = r /\ Reaches(f, h) BY <2>3
    <2>5. h \in Events /\ h \in Event BY <1>0 DEF Events
    <2>6. r # d
      <3>. SUFFICES ASSUME r = d PROVE FALSE OBVIOUS
      <3>1. Before(h, f) BY <1>3, <2>4 DEF Wins
      <3>2. Before(f, h) \/ f = h BY <2>4 DEF Reaches
      <3>. QED BY <2>1, <2>5, <3>1, <3>2, BeforeIsStrict
    <2>7. h \in progress'[r] BY <1>3, <2>4, <2>6 DEF TypeOK
    <2>8. ASSUME NEW e \in Events
          PROVE  \E p \in Device : \E g \in progress'[p] : g.device = p /\ Reaches(e, g)
      <3>1. PICK p \in Device : \E g \in progress[p] : g.device = p /\ Reaches(e, g)
        BY DEF OwnerHolds
      <3>2. PICK g \in progress[p] : g.device = p /\ Reaches(e, g) BY <3>1
      <3>3. CASE p # d BY <1>3, <3>2, <3>3 DEF TypeOK
      <3>4. CASE p = d
        <4>1. g \in Event BY <1>0 DEF Events
        <4>2. Reaches(g, f) BY <1>3, <3>2, <3>4 DEF Wins, Reaches
        <4>3. Reaches(e, f) BY <1>0, <2>1, <3>2, <4>1, <4>2, ReachesTransitive
        <4>4. Reaches(e, h) BY <1>0, <2>1, <2>4, <2>5, <4>3, ReachesTransitive
        <4>. QED BY <2>4, <2>7, <4>4
      <3>. QED BY <3>3, <3>4
    <2>. QED BY <2>2, <2>8 DEF OwnerHolds
  <1>. QED BY <1>1, <1>2, <1>3, StepProgress

\* Positions move to newer events while clocks agree.
LEMMA HoldsFromKept ==
  ASSUME TypeOK, EventInv, SyncInv, PositionSeen, wrong = {}, [Next]_vars,
         NEW d \in Device, NEW f \in Events, HoldsFrom(d, f)
  PROVE  HoldsFrom(d, f)'
  <1>0. Events \subseteq Event BY EventsTyped
  <1>1. PICK g \in progress[d] : Reaches(f, g) BY DEF HoldsFrom
  <1>2. g \in Events BY DEF Events
  <1>3. CASE progress'[d] = progress[d] BY <1>1, <1>3 DEF HoldsFrom
  <1>4. ASSUME NEW e \in Event, progress'[d] = {e}, Reaches(g, e) PROVE HoldsFrom(d, f)'
    <2>1. Reaches(f, e) BY <1>0, <1>1, <1>2, <1>4, ReachesTransitive
    <2>. QED BY <1>4, <2>1 DEF HoldsFrom
  <1>5. ASSUME NEW c \in Device, Save(c), progress' = [progress EXCEPT ![c] = {Saved(c)}]
        PROVE  HoldsFrom(d, f)'
    <2>1. CASE c = d
      <3>1. Before(g, Saved(d)) BY <1>2, SavedAfterSeen DEF PositionSeen
      <3>2. progress'[d] = {Saved(d)} BY <1>5, <2>1 DEF TypeOK
      <3>. QED BY <1>4, <3>1, <3>2, SavedType DEF Reaches
    <2>2. CASE c # d BY <1>3, <1>5, <2>2 DEF TypeOK
    <2>. QED BY <2>1, <2>2
  <1>6. ASSUME NEW c \in Device, NEW p \in Device, NEW e \in file[p].progress, Wins(e, c),
               progress' = [progress EXCEPT ![c] = {e}]
        PROVE  HoldsFrom(d, f)'
    <2>1. CASE c = d
      <3>1. Before(g, e) BY <1>6, <2>1 DEF Wins
      <3>2. e \in Event BY <1>0 DEF Events
      <3>3. progress'[d] = {e} BY <1>6, <2>1 DEF TypeOK
      <3>. QED BY <1>4, <3>1, <3>2, <3>3 DEF Reaches
    <2>2. CASE c # d BY <1>3, <1>6, <2>2 DEF TypeOK
    <2>. QED BY <2>1, <2>2
  <1>. QED BY <1>3, <1>5, <1>6, StepProgress

LEMMA StepMergedHeld ==
  ASSUME TypeOK, EventInv, SyncInv, FilesOwn, PositionSeen, AppliedPast, MergedHeld,
         wrong = {}, [Next]_vars
  PROVE  MergedHeld'
  <1>1. SUFFICES ASSUME NEW d \in Device, NEW p \in Device \ {d},
                        applied'[d][p] = file'[p].number, NEW f \in file'[p].progress
                 PROVE  HoldsFrom(d, f)'
    BY DEF MergedHeld, HoldsFrom
  <1>2. CASE applied[d][p] = file[p].number /\ file'[p] = file[p]
    <2>1. HoldsFrom(d, f) /\ f \in Events BY <1>1, <1>2 DEF MergedHeld, Events
    <2>. QED BY <2>1, HoldsFromKept
  <1>3. ASSUME NEW c \in Device, Upload(c) PROVE HoldsFrom(d, f)'
    <2>1. applied' = applied /\ file'[c].number = file[c].number + 1
      BY <1>3 DEF Upload, TypeOK
    <2>2. applied[d][p] <= file[p].number /\ applied[d][p] \in Nat /\ file[p].number \in Nat
      BY DEF AppliedPast, TypeOK, File
    <2>3. c # p BY <1>1, <2>1, <2>2
    <2>4. file'[p] = file[p] BY <1>3, <2>3 DEF Upload, TypeOK
    <2>. QED BY <1>1, <1>2, <2>1, <2>4
  <1>4. ASSUME NEW c \in Device, NEW q \in Device \ {c}, Merge(c, q), UNCHANGED file
        PROVE  HoldsFrom(d, f)'
    <2>1. applied' = [applied EXCEPT ![c][q] = file[q].number] BY <1>4 DEF Merge
    <2>2. CASE c # d \/ q # p
      <3>1. applied'[d][p] = applied[d][p] BY <2>1, <2>2 DEF TypeOK
      <3>. QED BY <1>1, <1>2, <1>4, <3>1
    <2>3. CASE c = d /\ q = p
      <3>1. f \in file[p].progress /\ f \in Events BY <1>1, <1>4 DEF Events
      <3>2. progress' = [progress EXCEPT ![d] = IF Wins(f, d) THEN {f} ELSE @]
        <4>1. PICK e \in file[p].progress :
                 progress' = [progress EXCEPT ![d] = IF Wins(e, d) THEN {e} ELSE @]
          BY <1>4, <2>3, <3>1 DEF Merge
        <4>2. e = f BY <3>1, <4>1 DEF FilesOwn
        <4>. QED BY <4>1, <4>2
      <3>3. CASE Wins(f, d)
        BY <3>2, <3>3 DEF HoldsFrom, Reaches, TypeOK
      <3>4. CASE ~Wins(f, d)
        <4>1. PICK g \in progress[d] : ~Before(g, f) BY <3>4 DEF Wins
        <4>2. g \in Events BY DEF Events
        <4>3. Reaches(f, g) BY <3>1, <4>1, <4>2, EventsOrdered
        <4>4. progress'[d] = progress[d] BY <3>2, <3>4 DEF TypeOK
        <4>. QED BY <4>3, <4>4 DEF HoldsFrom
      <3>. QED BY <3>3, <3>4
    <2>. QED BY <2>2, <2>3
  <1>. QED BY <1>1, <1>2, <1>3, <1>4, StepFiles

LEMMA InitConvergeInv == Init => ConvergeInv
  BY DEF Init, ConvergeInv, FilesOwn, OwnUploaded, PositionSeen, AppliedPast, OwnerHolds,
         MergedHeld, Events

LEMMA ConvergeCorrect ==
  ASSUME Latency > 0
  PROVE  Spec => [](TypeOK /\ EventInv /\ SyncInv /\ ConvergeInv)
  <1>1. TypeOK /\ EventInv /\ SyncInv /\ ConvergeInv /\ [Next]_vars => ConvergeInv'
    <2>. SUFFICES ASSUME TypeOK, EventInv, SyncInv, ConvergeInv, [Next]_vars
                  PROVE  ConvergeInv'
      OBVIOUS
    <2>1. wrong' = wrong BY StepEvents
    <2>2. FilesOwn' /\ OwnUploaded' /\ PositionSeen' /\ AppliedPast' /\ OwnerHolds'
      BY StepFilesOwn, StepOwnUploaded, StepPositionSeen, StepAppliedPast, StepOwnerHolds
         DEF ConvergeInv, SyncInv
    <2>3. wrong' = {} => MergedHeld' BY <2>1, StepMergedHeld DEF ConvergeInv
    <2>. QED BY <2>2, <2>3 DEF ConvergeInv
  <1>2. Init => ConvergeInv BY InitConvergeInv
  <1>. QED BY <1>1, <1>2, SyncCorrect, PTL DEF Spec

\* Once all is exchanged, every device holds what any other holds, or newer.
LEMMA SettledReaches ==
  ASSUME TypeOK, EventInv, ConvergeInv, wrong = {}, Settled,
         NEW d \in Device, NEW e \in Device, NEW x \in progress[d]
  PROVE  HoldsFrom(e, x)
  <1>0. Events \subseteq Event /\ x \in Events BY EventsTyped DEF Events
  <1>1. PICK q \in Device : \E g \in progress[q] : g.device = q /\ Reaches(x, g)
    BY <1>0 DEF ConvergeInv, OwnerHolds
  <1>2. PICK g \in progress[q] : g.device = q /\ Reaches(x, g) BY <1>1
  <1>3. g \in file[q].progress BY <1>2 DEF ConvergeInv, OwnUploaded, Settled
  <1>4. CASE e = q BY <1>2, <1>4 DEF HoldsFrom
  <1>5. CASE e # q
    <2>1. HoldsFrom(e, g) BY <1>3, <1>5 DEF ConvergeInv, MergedHeld, Settled
    <2>2. PICK y \in progress[e] : Reaches(g, y) BY <2>1 DEF HoldsFrom
    <2>3. g \in Event /\ y \in Event BY <1>0 DEF Events
    <2>4. Reaches(x, y) BY <1>0, <1>2, <2>2, <2>3, ReachesTransitive
    <2>. QED BY <2>4 DEF HoldsFrom
  <1>. QED BY <1>4, <1>5

\* ConvergedSynced: if all clocks agree and a file takes at least a millisecond to
\* travel, devices that have exchanged everything are at the same position.
THEOREM ConvergedSyncedAlways ==
  ASSUME Latency > 0
  PROVE  Spec => []ConvergedSynced
  <1>1. TypeOK /\ EventInv /\ SyncInv /\ ConvergeInv => ConvergedSynced
    <2>. SUFFICES ASSUME TypeOK, EventInv, SyncInv, ConvergeInv, wrong = {}, Settled
                  PROVE  \A d, e \in Device : progress[d] = progress[e]
      BY DEF ConvergedSynced
    <2>1. ASSUME NEW d \in Device, NEW e \in Device, NEW x \in progress[d]
          PROVE  x \in progress[e]
      <3>1. PICK y \in progress[e] : Reaches(x, y) BY SettledReaches DEF HoldsFrom
      <3>2. PICK z \in progress[d] : Reaches(y, z) BY SettledReaches DEF HoldsFrom
      <3>3. x = z BY DEF SyncInv, OnePosition
      <3>4. x \in Event /\ y \in Event BY EventsTyped DEF Events
      <3>5. x = y BY <3>1, <3>2, <3>3, <3>4, BeforeIsStrict DEF Reaches
      <3>. QED BY <3>5
    <2>. QED BY <2>1
  <1>. QED BY <1>1, ConvergeCorrect, PTL
=============================================================================
