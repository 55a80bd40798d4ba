-------------------------- MODULE AiScheduler_proofs --------------------------
(***************************************************************************)
(* The limits of the scheduler and its wake-ups, for every set of calls    *)
(* and every size of the queue.                                            *)
(***************************************************************************)
EXTENDS AiScheduler, FiniteSetTheorems, TLAPS

\* A call sleeps without a timer only when its deadline is over.
ParkedDue == \A c \in Call : phase[c] = "parked" => Due(c)

Safe == TypeOK /\ LaneExclusive /\ EvictedTold /\ QueueBounded

LEMMA RankRange ==
  ASSUME NEW c \in Call
  PROVE  Rank(c) \in {0, 1, 3, 4, 5, 6}
  BY AiAssumption DEF Rank, Kinds

\* A lane has visible requests of one rank only.
LEMMA OnePrimaryRank ==
  ASSUME NEW c \in Call, NEW d \in Call, Lane(c) = Lane(d), Rank(c) <= 1, Rank(d) <= 1
  PROVE  Rank(c) = Rank(d)
  BY AiAssumption DEF Rank, Lane, Kinds

LEMMA QueuedFinite ==
  ASSUME TypeOK
  PROVE  /\ Queued \subseteq Call /\ Active \subseteq Call
         /\ IsFiniteSet(Queued) /\ IsFiniteSet(Active)
         /\ Cardinality(Queued) \in Nat /\ Cardinality(Active \ cancelled) \in Nat
  <1>1. Queued \subseteq Call /\ Active \subseteq Call BY DEF TypeOK, Queued, Active
  <1>2. IsFiniteSet(Queued) /\ IsFiniteSet(Active) /\ IsFiniteSet(Active \ cancelled)
    BY <1>1, CallFinite, FS_Subset
  <1>. QED BY <1>1, <1>2, FS_CardinalityType

LEMMA InitSafe == Init => Safe /\ ParkedDue /\ NoLostWakeup
  <1>. SUFFICES ASSUME Init PROVE Safe /\ ParkedDue /\ NoLostWakeup OBVIOUS
  <1>1. TypeOK /\ LaneExclusive /\ EvictedTold /\ ParkedDue /\ NoLostWakeup
    BY DEF Init, TypeOK, Queueing, Sleeping, LaneExclusive, EvictedTold, Active, ParkedDue,
           NoLostWakeup
  <1>2. QueueBounded
    <2>1. Queued = {} BY DEF Init, Queued
    <2>. QED BY <2>1, AiAssumption, FS_EmptySet DEF QueueBounded
  <1>. QED BY <1>1, <1>2 DEF Safe
------------------------------------------------------------------------------
(* What each action does to the sets the properties speak of.              *)

\* A notification leaves nobody asleep.
LEMMA WokenAwake ==
  ASSUME NEW p \in [Call -> {"idle", "run"} \cup Queueing]
  PROVE  /\ Woken(p) \in [Call -> {"idle", "run"} \cup Queueing]
         /\ \A c \in Call : Woken(p)[c] # "parked"
         /\ \A c \in Call : Woken(p)[c] = "run" <=> p[c] = "run"
         /\ \A c \in Call : Woken(p)[c] = "idle" <=> p[c] = "idle"
  BY DEF Woken, Sleeping, Queueing

LEMMA LeaveEffect ==
  ASSUME TypeOK, NEW c \in Call, Leave(c)
  PROVE  /\ TypeOK'
         /\ \A d \in Call : phase'[d] # "parked"
         /\ \A d \in Call \ {c} : phase'[d] = "run" <=> phase[d] = "run"
         /\ \A d \in Call \ {c} : phase'[d] = "idle" <=> phase[d] = "idle"
         /\ phase'[c] = "idle"
         /\ Active' = Active \ {c}
         /\ Queued' = Queued \ {c}
  <1>. DEFINE p == [phase EXCEPT ![c] = "idle"]
  <1>1. /\ p \in [Call -> {"idle", "run"} \cup Queueing]
        /\ p[c] = "idle" /\ \A d \in Call \ {c} : p[d] = phase[d]
    BY DEF TypeOK
  <1>2. phase' = Woken(p) BY DEF Leave
  <1>. HIDE DEF p
  <1>3. /\ phase' \in [Call -> {"idle", "run"} \cup Queueing]
        /\ \A d \in Call : phase'[d] # "parked"
        /\ \A d \in Call \ {c} : phase'[d] = "run" <=> phase[d] = "run"
        /\ \A d \in Call \ {c} : phase'[d] = "idle" <=> phase[d] = "idle"
        /\ phase'[c] = "idle"
    BY <1>1, <1>2, WokenAwake
  <1>4. TypeOK' BY <1>3 DEF TypeOK, Leave
  <1>5. Active' = Active \ {c} BY <1>3 DEF Active, Leave, TypeOK
  <1>6. Queued' = Queued \ {c} BY <1>5 DEF Queued, Leave
  <1>. QED BY <1>3, <1>4, <1>5, <1>6

LEMMA EnterEffect ==
  ASSUME TypeOK, NEW c \in Call, phase[c] = "idle", NEW evicted \in SUBSET Queued,
         Enter(c, evicted), UNCHANGED <<view, paused, moving, busy>>
  PROVE  /\ TypeOK'
         /\ \A d \in Call : phase'[d] # "parked"
         /\ \A d \in Call \ {c} : phase'[d] = "idle" <=> phase[d] = "idle"
         /\ c \in entries'
         /\ Active' = Active
         /\ Queued' = (Queued \ evicted) \cup {c}
  <1>. DEFINE p == [phase EXCEPT ![c] = "check"]
  <1>1. /\ p \in [Call -> {"idle", "run"} \cup Queueing]
        /\ p[c] = "check" /\ \A d \in Call \ {c} : p[d] = phase[d]
    BY DEF TypeOK, Queueing
  <1>2. phase' = Woken(p) BY DEF Enter
  <1>. HIDE DEF p
  <1>3. /\ phase' \in [Call -> {"idle", "run"} \cup Queueing]
        /\ \A d \in Call : phase'[d] # "parked"
        /\ \A d \in Call \ {c} : phase'[d] = "run" <=> phase[d] = "run"
        /\ \A d \in Call \ {c} : phase'[d] = "idle" <=> phase[d] = "idle"
        /\ phase'[c] \notin {"idle", "run"}
    BY <1>1, <1>2, WokenAwake
  <1>4. evicted \subseteq Call /\ evicted \cap Active = {} /\ c \notin entries
    BY DEF TypeOK, Queued
  <1>5. TypeOK' BY <1>3, <1>4 DEF TypeOK, Enter
  <1>6. Active' = Active BY <1>3, <1>4 DEF Active, Enter, TypeOK
  <1>7. Queued' = (Queued \ evicted) \cup {c} BY <1>4, <1>6 DEF Queued, Enter, Active
  <1>. QED BY <1>3, <1>5, <1>6, <1>7 DEF Enter

\* Check when the call stays: its entry is one of the queue, and it is
\* admitted or falls asleep.
Stays(c) ==
    /\ phase[c] = "check"
    /\ c \in Queued \ cancelled
    /\ cancelled' = cancelled \cup Preempted(c)
    /\ \E p \in IF Ready(c) THEN {"run"} ELSE Asleep(c) :
          phase' = [phase EXCEPT ![c] = p]
    /\ UNCHANGED <<entries, older, stale, view, paused, moving, busy>>

LEMMA CheckCases ==
  ASSUME TypeOK, NEW c \in Call, Check(c)
  PROVE  Leave(c) \/ Stays(c)
  BY DEF Check, Stays, Queued, Active

LEMMA StaysEffect ==
  ASSUME TypeOK, NEW c \in Call, Stays(c)
  PROVE  /\ TypeOK'
         /\ \A d \in Call \ {c} : phase'[d] = phase[d]
         /\ phase'[c] \in {"run", "timed", "parked"}
         /\ phase'[c] = "run" => Ready(c) /\ Preempted(c) = {}
         /\ phase'[c] # "run" => ~Ready(c)
         /\ ~ClockTears /\ phase'[c] = "parked" => Due(c)
         /\ Active' = IF phase'[c] = "run" THEN Active \cup {c} ELSE Active
         /\ Queued' = IF phase'[c] = "run" THEN Queued \ {c} ELSE Queued
         /\ Preempted(c) \subseteq Active \ cancelled
  <1>1. /\ \A d \in Call \ {c} : phase'[d] = phase[d]
        /\ phase'[c] \in {"run", "timed", "parked"}
        /\ phase'[c] = "run" => Ready(c)
        /\ phase'[c] # "run" => ~Ready(c)
        /\ ~ClockTears /\ phase'[c] = "parked" => Due(c)
        /\ phase' \in [Call -> {"idle", "run"} \cup Queueing]
    BY DEF Stays, Asleep, TypeOK, Queueing, Sleeping
  <1>2. Preempted(c) \subseteq Active \ cancelled /\ (Ready(c) => Preempted(c) = {})
    BY DEF Preempted, Blockers, Ready
  <1>3. TypeOK' BY <1>1, <1>2 DEF TypeOK, Stays, Active
  <1>4. c \in entries /\ c \notin Active BY DEF Stays, Queued
  <1>5. Active' = IF phase'[c] = "run" THEN Active \cup {c} ELSE Active
    BY <1>1, <1>4 DEF Active, Stays, TypeOK
  <1>6. Queued' = IF phase'[c] = "run" THEN Queued \ {c} ELSE Queued
    BY <1>4, <1>5 DEF Queued, Stays
  <1>. QED BY <1>1, <1>2, <1>3, <1>5, <1>6
------------------------------------------------------------------------------
(* The steps, by their effect: a call leaves, enters, stays in its loop, or  *)
(* the reader and the clock act.                                           *)

Clock == Settle \/ Quiet

LEMMA StepCases ==
  ASSUME TypeOK, Next
  PROVE  \/ \E c \in Call : Leave(c) /\ phase[c] # "idle"
         \/ \E c \in Call, evicted \in SUBSET Queued :
               /\ phase[c] = "idle"
               /\ Enter(c, evicted)
               /\ \/ evicted = {} /\ Cardinality(Queued) < MaxQueued
                  \/ \E d \in Queued : evicted = {d}
               /\ UNCHANGED <<view, paused, moving, busy>>
         \/ \E c \in Call : Stays(c) \/ Timer(c)
         \/ \E place \in Place, pause \in BOOLEAN : Update(place, pause)
         \/ Invalidate
         \/ Clock
  <1>1. ASSUME NEW c \in Call, Submit(c)
        PROVE  \E evicted \in SUBSET Queued :
                 /\ phase[c] = "idle"
                 /\ Enter(c, evicted)
                 /\ \/ evicted = {} /\ Cardinality(Queued) < MaxQueued
                    \/ \E d \in Queued : evicted = {d}
                 /\ UNCHANGED <<view, paused, moving, busy>>
    <2>1. CASE Cardinality(Queued) < MaxQueued /\ Enter(c, {})
      <3>. WITNESS {} \in SUBSET Queued
      <3>. QED BY <1>1, <2>1 DEF Submit
    <2>2. CASE \E d \in Queued : Worst(d) /\ Rank(d) > Rank(c) /\ Enter(c, {d})
      <3>1. PICK d \in Queued : Enter(c, {d}) BY <2>2
      <3>. WITNESS {d} \in SUBSET Queued
      <3>. QED BY <1>1, <3>1 DEF Submit
    <2>. QED BY <1>1, <2>1, <2>2 DEF Submit
  <1>2. ASSUME NEW c \in Call, Loop(c)
        PROVE  (Leave(c) /\ phase[c] # "idle") \/ Stays(c) \/ Timer(c)
    BY <1>2, CheckCases DEF Loop, Superseded, Finish, Check, Sleeping
  <1>3. ASSUME NEW c \in Call, Abandon(c) PROVE Leave(c) /\ phase[c] # "idle"
    BY <1>3 DEF Abandon, Queueing, Sleeping
  <1>. QED BY <1>1, <1>2, <1>3 DEF Next, Clock

LEMMA StepSafe ==
  ASSUME Safe, [Next]_vars
  PROVE  Safe'
  <1>. USE DEF Safe
  <1>1. ASSUME NEW c \in Call, Leave(c), phase[c] # "idle" PROVE Safe'
    <2>1. /\ TypeOK'
          /\ \A d \in Call \ {c} : phase'[d] = "idle" <=> phase[d] = "idle"
          /\ phase'[c] = "idle"
          /\ Active' = Active \ {c}
          /\ Queued' = Queued \ {c}
      BY <1>1, LeaveEffect
    <2>2. LaneExclusive' BY <1>1, <2>1 DEF LaneExclusive, Leave, Lane
    <2>3. EvictedTold' BY <1>1, <2>1 DEF EvictedTold, Leave
    <2>4. QueueBounded'
      <3>1. Cardinality(Queued \ {c}) <= Cardinality(Queued) /\ Cardinality(Queued \ {c}) \in Nat
        BY QueuedFinite, FS_Subset, FS_CardinalityType
      <3>. QED BY <2>1, <3>1, QueuedFinite, AiAssumption DEF QueueBounded
    <2>. QED BY <2>1, <2>2, <2>3, <2>4
  <1>2. ASSUME NEW c \in Call, NEW evicted \in SUBSET Queued, phase[c] = "idle",
               Enter(c, evicted),
               \/ evicted = {} /\ Cardinality(Queued) < MaxQueued
               \/ \E d \in Queued : evicted = {d},
               UNCHANGED <<view, paused, moving, busy>>
        PROVE  Safe'
    <2>1. /\ TypeOK'
          /\ \A d \in Call \ {c} : phase'[d] = "idle" <=> phase[d] = "idle"
          /\ c \in entries'
          /\ Active' = Active
          /\ Queued' = (Queued \ evicted) \cup {c}
      BY <1>2, EnterEffect
    <2>2. LaneExclusive' BY <1>2, <2>1 DEF LaneExclusive, Enter, Lane
    <2>3. EvictedTold' BY <1>2, <2>1 DEF EvictedTold, Enter
    <2>4. QueueBounded'
      <3>1. c \notin Queued BY <1>2 DEF TypeOK, Queued
      <3>2. CASE evicted = {} /\ Cardinality(Queued) < MaxQueued
        <4>1. Cardinality(Queued \cup {c}) = Cardinality(Queued) + 1
          BY <3>1, QueuedFinite, FS_AddElement
        <4>2. Queued' = Queued \cup {c} BY <2>1, <3>2
        <4>. QED BY <3>2, <4>1, <4>2, QueuedFinite, AiAssumption DEF QueueBounded
      <3>3. ASSUME NEW d \in Queued, evicted = {d} PROVE QueueBounded'
        <4>1. /\ IsFiniteSet(Queued \ {d})
              /\ Cardinality(Queued \ {d}) = Cardinality(Queued) - 1
          BY QueuedFinite, FS_RemoveElement
        <4>2. Cardinality((Queued \ {d}) \cup {c}) = Cardinality(Queued \ {d}) + 1
          BY <3>1, <4>1, FS_AddElement
        <4>. QED BY <2>1, <3>3, <4>1, <4>2, QueuedFinite, AiAssumption DEF QueueBounded
      <3>. QED BY <1>2, <3>2, <3>3
    <2>. QED BY <2>1, <2>2, <2>3, <2>4
  <1>3. ASSUME NEW c \in Call, Stays(c) PROVE Safe'
    <2>1. /\ TypeOK'
          /\ \A d \in Call \ {c} : phase'[d] = phase[d]
          /\ phase'[c] \in {"run", "timed", "parked"}
          /\ phase'[c] = "run" => Ready(c) /\ Preempted(c) = {}
          /\ Active' = IF phase'[c] = "run" THEN Active \cup {c} ELSE Active
          /\ Queued' = IF phase'[c] = "run" THEN Queued \ {c} ELSE Queued
      BY <1>3, StaysEffect
    <2>2. c \in entries BY <1>3 DEF Stays, Queued
    <2>3. LaneExclusive'
      <3>1. CASE phase'[c] = "run"
        <4>1. cancelled' = cancelled BY <1>3, <2>1, <3>1 DEF Stays
        <4>2. \A d \in Active \ cancelled : Lane(d) # Lane(c)
          BY <2>1, <3>1 DEF Ready, Blockers
        <4>3. Active' \ cancelled' = (Active \ cancelled) \cup {c}
          BY <1>3, <2>1, <3>1, <4>1 DEF Stays
        <4>4. \A a, b \in Active \ cancelled : Lane(a) = Lane(b) => a = b BY DEF LaneExclusive
        <4>. QED BY <4>2, <4>3, <4>4 DEF LaneExclusive
      <3>2. CASE phase'[c] # "run"
        BY <1>3, <2>1, <3>2 DEF LaneExclusive, Stays, Lane
      <3>. QED BY <3>1, <3>2
    <2>4. EvictedTold' BY <1>3, <2>1, <2>2 DEF EvictedTold, Stays
    <2>5. QueueBounded'
      <3>1. Cardinality(Queued \ {c}) <= Cardinality(Queued) /\ Cardinality(Queued \ {c}) \in Nat
        BY QueuedFinite, FS_Subset, FS_CardinalityType
      <3>. QED BY <2>1, <3>1, QueuedFinite, AiAssumption DEF QueueBounded
    <2>. QED BY <2>1, <2>3, <2>4, <2>5
  <1>4. ASSUME NEW c \in Call, Timer(c) PROVE Safe'
    <2>1. TypeOK' BY <1>4 DEF TypeOK, Timer, Queueing
    <2>2. Active' = Active /\ Queued' = Queued
      BY <1>4 DEF Active, Queued, Timer, TypeOK
    <2>3. UNCHANGED <<entries, cancelled>> BY <1>4 DEF Timer
    <2>4. LaneExclusive' BY <2>2, <2>3 DEF LaneExclusive, Lane
    <2>5. EvictedTold' BY <1>4, <2>3 DEF Timer, EvictedTold, TypeOK
    <2>6. QueueBounded' BY <2>2 DEF QueueBounded
    <2>. QED BY <2>1, <2>4, <2>5, <2>6
  <1>5. ASSUME UNCHANGED <<entries, stale, older>>, cancelled \subseteq cancelled', cancelled' \subseteq Call,
               phase' = Woken(phase),
               view' \in Place, paused' \in BOOLEAN, moving' \in BOOLEAN, busy' \in BOOLEAN
        PROVE  Safe'
    <2>1. /\ phase' \in [Call -> {"idle", "run"} \cup Queueing]
          /\ \A d \in Call : phase'[d] = "run" <=> phase[d] = "run"
          /\ \A d \in Call : phase'[d] = "idle" <=> phase[d] = "idle"
      BY <1>5, WokenAwake DEF TypeOK
    <2>2. TypeOK' BY <1>5, <2>1 DEF TypeOK
    <2>3. Active' = Active /\ Queued' = Queued BY <1>5, <2>1 DEF Active, Queued, TypeOK
    <2>4. LaneExclusive' BY <1>5, <2>3 DEF LaneExclusive, Lane
    <2>5. EvictedTold' BY <1>5, <2>1 DEF EvictedTold
    <2>6. QueueBounded' BY <2>3 DEF QueueBounded
    <2>. QED BY <2>2, <2>4, <2>5, <2>6
  <1>6. ASSUME NEW place \in Place, NEW pause \in BOOLEAN, Update(place, pause) PROVE Safe'
    BY <1>5, <1>6 DEF Update, TypeOK
  <1>7. CASE Invalidate
    <2>1. /\ phase' \in [Call -> {"idle", "run"} \cup Queueing]
          /\ \A d \in Call : phase'[d] = "run" <=> phase[d] = "run"
          /\ \A d \in Call : phase'[d] = "idle" <=> phase[d] = "idle"
      BY <1>7, WokenAwake DEF TypeOK, Invalidate
    <2>2. TypeOK' BY <1>7, <2>1 DEF TypeOK, Invalidate
    <2>3. Active' = Active /\ Queued' = Queued BY <1>7, <2>1 DEF Active, Queued, TypeOK, Invalidate
    <2>4. LaneExclusive' BY <1>7, <2>3 DEF LaneExclusive, Lane, Invalidate
    <2>5. EvictedTold' BY <1>7, <2>1 DEF EvictedTold, Invalidate
    <2>6. QueueBounded' BY <2>3 DEF QueueBounded
    <2>. QED BY <2>2, <2>4, <2>5, <2>6
  <1>8. ASSUME UNCHANGED <<phase, entries, older, cancelled, stale, view, paused>>,
               moving' \in BOOLEAN, busy' \in BOOLEAN
        PROVE  Safe'
    <2>1. Active' = Active /\ Queued' = Queued BY <1>8 DEF Active, Queued
    <2>. QED BY <1>8, <2>1 DEF TypeOK, LaneExclusive, EvictedTold, QueueBounded, Lane
  <1>9. CASE Clock BY <1>8, <1>9 DEF Clock, Settle, Quiet, TypeOK
  <1>10. CASE UNCHANGED vars BY <1>8, <1>10 DEF vars, TypeOK
  <1>. QED BY <1>1, <1>2, <1>3, <1>4, <1>6, <1>7, <1>9, <1>10, StepCases

\* TypeOK, LaneExclusive, EvictedTold, QueueBounded: the limits of lanes and
\* queue hold, and a call without an entry has been told.
THEOREM SchedulerSafe == Spec => [](TypeOK /\ LaneExclusive /\ EvictedTold /\ QueueBounded)
  <1>1. Init => Safe BY InitSafe
  <1>2. Safe /\ [Next]_vars => Safe' BY StepSafe
  <1>3. Safe => TypeOK /\ LaneExclusive /\ EvictedTold /\ QueueBounded BY DEF Safe
  <1>. QED BY <1>1, <1>2, <1>3, PTL DEF Spec

\* Types: the tables keep theirs, and only calls in progress have entries, of
\* which the stale ones are some (the drop of a registration, invalidate).
THEOREM AiTypeCorrect == Spec => []TypeOK
  BY SchedulerSafe, PTL

\* A call in progress that lost its entry to an eviction has been told (submit).
THEOREM EvictedToldAlways == Spec => []EvictedTold
  BY SchedulerSafe, PTL

\* The queue never exceeds its capacity, whatever is admitted, evicted and
\* cancelled (submit).
THEOREM QueueBoundedAlways == Spec => []QueueBounded
  BY SchedulerSafe, PTL
------------------------------------------------------------------------------
(* Wake-ups.                                                               *)

\* A step that notifies leaves nobody parked.
LEMMA NobodyParked ==
  ASSUME TypeOK, \A c \in Call : phase'[c] # "parked"
  PROVE  ParkedDue' /\ (TypeOK' => NoLostWakeup')
  BY DEF ParkedDue, NoLostWakeup, TypeOK

\* Admission: whoever could be admitted now could be before, or waits for the
\* end of the request just admitted.
LEMMA AdmissionWakeful ==
  ASSUME TypeOK, NoLostWakeup, NEW c \in Call, Stays(c), phase'[c] = "run",
         NEW d \in entries' \ cancelled', phase'[d] = "parked", Ready(d)'
  PROVE  \E e \in Active' : e \in cancelled' \/ (Rank(d)' >= 3 /\ Rank(e)' <= 1)
  <1>1. /\ Active' = Active \cup {c}
        /\ Queued' = Queued \ {c}
        /\ cancelled' = cancelled
        /\ UNCHANGED <<entries, older, view, paused, moving, busy>>
        /\ c \in Queued \ cancelled
    BY StaysEffect DEF Stays
  <1>2. d # c /\ phase[d] = "parked" /\ d \in entries \ cancelled
    BY <1>1, StaysEffect DEF TypeOK, Stays
  <1>3. \A e \in Call : Rank(e)' = Rank(e) BY <1>1 DEF Rank
  <1>4. d \in Call /\ Queued \subseteq Call /\ Active \subseteq Call
    BY <1>2, QueuedFinite DEF TypeOK
  <1>5. CASE Rank(d) >= 3 /\ Rank(c) <= 1 BY <1>1, <1>3, <1>4, <1>5
  <1>6. CASE ~(Rank(d) >= 3 /\ Rank(c) <= 1)
    <2>1. Lane(c) # Lane(d) BY <1>1, <1>4 DEF Ready, Blockers
    <2>2. Best(d) BY <1>1, <1>3, <1>4, <2>1 DEF Ready, Best, Precedes
    <2>3. Blockers(d) = {} BY <1>1 DEF Ready, Blockers
    <2>4. Cardinality(Active \ cancelled) < 3
      <3>1. /\ IsFiniteSet(Active' \ cancelled')
            /\ Active \ cancelled \subseteq Active' \ cancelled'
        BY <1>1, <1>4, CallFinite, FS_Subset
      <3>2. Cardinality(Active' \ cancelled') < 3 BY DEF Ready
      <3>. QED BY <3>1, <3>2, FS_Subset, FS_CardinalityType
    <2>5. Due(d) /\ ~paused BY <1>1, <1>3, <1>4 DEF Ready, Due
    <2>6. Rank(d) >= 3 => ~PrimaryWaiting
      BY <1>1, <1>3, <1>4, <1>6 DEF Ready, PrimaryWaiting
    <2>7. Rank(d) = 4 => ~BodyActive BY <1>1, <1>3, <1>4 DEF Ready, BodyActive
    <2>8. Ready(d) BY <2>2, <2>3, <2>4, <2>5, <2>6, <2>7 DEF Ready
    <2>9. \E e \in Active : e \in cancelled \/ (Rank(d) >= 3 /\ Rank(e) <= 1)
      BY <1>2, <2>8 DEF NoLostWakeup
    <2>. QED BY <1>1, <1>3, <1>4, <2>9
  <1>. QED BY <1>5, <1>6

\* Nothing that readiness depends on changes except the phases of calls that
\* do not run: who sleeps is as ready as before.
LEMMA ReadyKept ==
  ASSUME TypeOK, UNCHANGED <<entries, older, cancelled, view, paused, moving, busy>>,
         Active' = Active, NEW d \in Call
  PROVE  Ready(d)' = Ready(d) /\ Rank(d)' = Rank(d) /\ Due(d)' = Due(d)
  <1>1. \A e \in Call : Rank(e)' = Rank(e) BY DEF Rank
  <1>2. Queued' = Queued BY DEF Queued
  <1>3. Queued \subseteq Call /\ Active \subseteq Call BY QueuedFinite
  <1>4. Best(d)' = Best(d) BY <1>1, <1>2, <1>3 DEF Best, Precedes
  <1>5. Blockers(d)' = Blockers(d) BY DEF Blockers
  <1>6. PrimaryWaiting' = PrimaryWaiting /\ BodyActive' = BodyActive
    BY <1>1, <1>2, <1>3 DEF PrimaryWaiting, BodyActive
  <1>7. Due(d)' = Due(d) BY <1>1 DEF Due
  <1>. QED BY <1>1, <1>4, <1>5, <1>6, <1>7 DEF Ready

LEMMA SleepWakeful ==
  ASSUME TypeOK, NoLostWakeup, NEW c \in Call, Stays(c), phase'[c] # "run",
         NEW d \in entries' \ cancelled', phase'[d] = "parked", Ready(d)'
  PROVE  \E e \in Active' : e \in cancelled' \/ (Rank(d)' >= 3 /\ Rank(e)' <= 1)
  <1>1. /\ Active' = Active
        /\ Preempted(c) \subseteq Active
        /\ cancelled' = cancelled \cup Preempted(c)
        /\ ~Ready(c)
        /\ UNCHANGED <<entries, older, view, paused, moving, busy>>
        /\ d # c => phase[d] = "parked"
    BY StaysEffect DEF Stays, TypeOK
  <1>2. CASE Preempted(c) # {} BY <1>1, <1>2
  <1>3. CASE Preempted(c) = {}
    <2>1. cancelled' = cancelled BY <1>1, <1>3
    <2>2. d \in Call /\ d \in entries \ cancelled BY <1>1, <2>1 DEF TypeOK
    <2>3. /\ Ready(d)' = Ready(d) /\ Rank(d)' = Rank(d)
          /\ \A e \in Active : Rank(e)' = Rank(e)
      BY <1>1, <2>1, <2>2, ReadyKept, QueuedFinite
    <2>4. d # c BY <1>1, <2>3
    <2>5. \E e \in Active : e \in cancelled \/ (Rank(d) >= 3 /\ Rank(e) <= 1)
      BY <1>1, <2>2, <2>3, <2>4 DEF NoLostWakeup
    <2>. QED BY <1>1, <2>1, <2>3, <2>5
  <1>. QED BY <1>2, <1>3

LEMMA StepWakeful ==
  ASSUME ~ClockTears, TypeOK, TypeOK', ParkedDue, NoLostWakeup, [Next]_vars
  PROVE  ParkedDue' /\ NoLostWakeup'
  <1>1. ASSUME NEW c \in Call, Leave(c) PROVE ParkedDue' /\ NoLostWakeup'
    BY <1>1, LeaveEffect, NobodyParked
  <1>2. ASSUME NEW c \in Call, NEW evicted \in SUBSET Queued, phase[c] = "idle",
               Enter(c, evicted), UNCHANGED <<view, paused, moving, busy>>
        PROVE  ParkedDue' /\ NoLostWakeup'
    BY <1>2, EnterEffect, NobodyParked
  <1>3. ASSUME NEW c \in Call, Stays(c) PROVE ParkedDue' /\ NoLostWakeup'
    <2>1. NoLostWakeup'
      <3>. SUFFICES ASSUME NEW d \in entries' \ cancelled', phase'[d] = "parked", Ready(d)'
                    PROVE  \E e \in Active' : e \in cancelled' \/ (Rank(d)' >= 3 /\ Rank(e)' <= 1)
        BY DEF NoLostWakeup
      <3>. QED BY <1>3, AdmissionWakeful, SleepWakeful
    <2>2. \A d \in Call : Due(d)' = Due(d) BY <1>3 DEF Stays, Due, Rank
    <2>3. ParkedDue' BY <1>3, <2>2, StaysEffect DEF ParkedDue
    <2>. QED BY <2>1, <2>3
  <1>4. ASSUME NEW c \in Call, Timer(c) PROVE ParkedDue' /\ NoLostWakeup'
    <2>1. Active' = Active BY <1>4 DEF Active, Timer, TypeOK
    <2>2. \A d \in Call : Ready(d)' = Ready(d) /\ Rank(d)' = Rank(d) /\ Due(d)' = Due(d)
      BY <1>4, <2>1, ReadyKept DEF Timer
    <2>3. \A d \in Call : phase'[d] = "parked" => phase[d] = "parked"
      BY <1>4 DEF Timer, TypeOK
    <2>. QED BY <1>4, <2>1, <2>2, <2>3, QueuedFinite DEF ParkedDue, NoLostWakeup, Timer, TypeOK
  <1>5. ASSUME phase' = Woken(phase) PROVE ParkedDue' /\ NoLostWakeup'
    BY <1>5, WokenAwake, NobodyParked DEF TypeOK
  <1>6. CASE Clock
    <2>1. /\ UNCHANGED <<phase, entries, older, cancelled, view, paused>>
          /\ \A d \in Call : Rank(d)' = Rank(d)
          /\ \A d \in Call : Due(d) => Due(d)'
          /\ Active' = Active /\ Queued' = Queued
      BY <1>6 DEF Clock, Settle, Quiet, Rank, Due, Active, Queued
    <2>2. ParkedDue' BY <2>1 DEF ParkedDue
    <2>3. ASSUME NEW d \in Call, Due(d), Ready(d)' PROVE Ready(d)
      <3>1. Best(d) BY <2>1, <2>3, QueuedFinite DEF Ready, Best, Precedes
      <3>2. Blockers(d) = {} BY <2>1, <2>3 DEF Ready, Blockers
      <3>3. /\ Rank(d) >= 3 => ~PrimaryWaiting
            /\ Rank(d) = 4 => ~BodyActive
        BY <2>1, <2>3, QueuedFinite DEF Ready, PrimaryWaiting, BodyActive
      <3>. QED BY <2>1, <2>3, <3>1, <3>2, <3>3 DEF Ready
    <2>4. NoLostWakeup'
      BY <2>1, <2>3, QueuedFinite DEF NoLostWakeup, ParkedDue, TypeOK
    <2>. QED BY <2>2, <2>4
  <1>7. CASE UNCHANGED vars
    <2>1. \A d \in Call : Ready(d)' = Ready(d) /\ Rank(d)' = Rank(d) /\ Due(d)' = Due(d)
      BY <1>7, ReadyKept DEF vars, Active
    <2>2. Active' = Active BY <1>7 DEF vars, Active
    <2>. QED BY <1>7, <2>1, <2>2, QueuedFinite DEF ParkedDue, NoLostWakeup, vars, TypeOK
  <1>8. (\E place \in Place, pause \in BOOLEAN : Update(place, pause)) \/ Invalidate
          => phase' = Woken(phase)
    BY DEF Update, Invalidate
  <1>. QED BY <1>1, <1>2, <1>3, <1>4, <1>5, <1>6, <1>7, <1>8, StepCases

\* NoLostWakeup: if no deadline passes between the two looks at the clock, a
\* call that sleeps without a timer will be woken once it can be admitted.
THEOREM NobodyForgotten ==
  ASSUME ~ClockTears
  PROVE  Spec => []NoLostWakeup
  <1>. DEFINE I == Safe /\ ParkedDue /\ NoLostWakeup
  <1>1. Init => I BY InitSafe
  <1>2. I /\ [Next]_vars => I' BY StepSafe, StepWakeful DEF Safe
  <1>. QED BY <1>1, <1>2, PTL DEF Spec
------------------------------------------------------------------------------
(* Requests that were sent.                                                *)

LEMMA StepPaid ==
  ASSUME TypeOK, [Next]_vars, NEW d \in Active \ cancelled, d \in cancelled'
  PROVE  \/ d \in stale'
         \/ ~moving /\ \E c \in Queued : Lane(c) = Lane(d) /\ Rank(c) <= 1 /\ Rank(d) > 1
  <1>. d \in Call /\ d \in entries /\ d \notin Queued
    BY QueuedFinite DEF Active, Queued
  <1>1. ASSUME NEW c \in Call, Stays(c)
        PROVE  ~moving /\ \E b \in Queued : Lane(b) = Lane(d) /\ Rank(b) <= 1 /\ Rank(d) > 1
    <2>1. d \in Preempted(c) /\ c \in Queued BY <1>1 DEF Stays
    <2>2. ~moving /\ Rank(c) <= 1 /\ Lane(d) = Lane(c) /\ Rank(d) > Rank(c)
      BY <2>1 DEF Preempted, Due, Blockers
    <2>3. Rank(d) > 1 BY <2>2, OnePrimaryRank, RankRange
    <2>. QED BY <2>1, <2>2, <2>3
  <1>2. ASSUME NEW c \in Call, Leave(c) PROVE FALSE BY <1>2 DEF Leave
  <1>3. ASSUME NEW c \in Call, NEW evicted \in SUBSET Queued, Enter(c, evicted) PROVE FALSE
    BY <1>3 DEF Enter
  <1>4. CASE Invalidate BY <1>4 DEF Invalidate
  <1>5. UNCHANGED cancelled => FALSE OBVIOUS
  <1>. QED BY <1>1, <1>2, <1>3, <1>4, <1>5, StepCases
         DEF Timer, Update, Clock, Settle, Quiet, vars

\* PaidRequestKept: scrolling does not stop a request that was sent.
THEOREM PaidRequestsStay == Spec => PaidRequestKept
  <1>1. TypeOK /\ [Next]_vars =>
          \A d \in Active \ cancelled : d \in cancelled' =>
             \/ d \in stale'
             \/ ~moving /\ \E c \in Queued : Lane(c) = Lane(d) /\ Rank(c) <= 1 /\ Rank(d) > 1
    BY StepPaid
  <1>2. Spec => []TypeOK BY SchedulerSafe, PTL
  <1>. QED BY <1>1, <1>2, PTL DEF Spec, PaidRequestKept
==============================================================================
