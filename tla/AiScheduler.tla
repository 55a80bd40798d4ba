----------------------------- MODULE AiScheduler -----------------------------
(***************************************************************************)
(* The scheduler of AI requests of the reader (reading_ai.rs): calls of    *)
(* Scheduler::run enter a bounded queue, wait for their lane, their rank   *)
(* and the reader's rest, are preempted, evicted, invalidated or           *)
(* abandoned, and leave.  All of them share one mutex and one Notify.      *)
(*                                                                         *)
(* Time is what the code asks of it: whether the 200 ms after the last     *)
(* move of the reader (settled) and the 250 ms after the last visible      *)
(* request (last_primary) are over.  The models called, the timeout of a   *)
(* request and the hosts that submit requests are left to the environment: *)
(* a request ends, and the host may submit it again.  Ids are the order in *)
(* which calls entered.                                                    *)
(***************************************************************************)
EXTENDS Integers, FiniteSets

CONSTANTS Call,       \* calls a host makes, each again and again
          Place,      \* what the reader may look at
          KindOf, PlaceOf, KeyOf, \* the task of a call
          MaxQueued,  \* MAX_QUEUED
          ClockTears  \* may a deadline pass between the two looks at the clock?

Kinds == {"Structure", "Translation", "Contents", "Enhancement"}

ASSUME AiAssumption ==
    /\ KindOf \in [Call -> Kinds]
    /\ PlaceOf \in [Call -> Place]
    /\ MaxQueued \in Nat \ {0}
    /\ ClockTears \in BOOLEAN

ASSUME CallFinite == IsFiniteSet(Call)

VARIABLES phase,     \* where a call of run is
          entries,   \* the calls that have an entry in State::entries
          older,     \* older[c]: the entries with a smaller id than c's
          cancelled, \* the calls whose own token is cancelled
          stale,     \* the entries of an earlier epoch
          view,      \* State::demand
          paused,    \* State::paused
          moving,    \* is the clock before State::settled?
          busy       \* is the clock before State::last_primary + IDLE_GRACE?

vars == <<phase, entries, older, cancelled, stale, view, paused, moving, busy>>

Sleeping == {"timed", "parked"}
Queueing == {"check"} \cup Sleeping

Init ==
    /\ phase = [c \in Call |-> "idle"]
    /\ entries = {}
    /\ older = [c \in Call |-> {}]
    /\ cancelled = {}
    /\ stale = {}
    /\ view \in Place
    /\ paused = FALSE
    /\ moving = FALSE
    /\ busy = TRUE
------------------------------------------------------------------------------
(* What the scheduler computes from its state.                             *)

Lane(c) ==
    CASE KindOf[c] = "Structure" -> 0
      [] KindOf[c] \in {"Translation", "Contents"} -> 1
      [] KindOf[c] = "Enhancement" -> 2

Rank(c) ==
    CASE KindOf[c] = "Contents" -> 4
      [] KindOf[c] = "Translation" -> IF PlaceOf[c] = view THEN 0 ELSE 5
      [] KindOf[c] = "Structure" -> IF PlaceOf[c] = view THEN 1 ELSE 5
      [] KindOf[c] = "Enhancement" -> IF PlaceOf[c] = view THEN 3 ELSE 6

Active == {c \in entries : phase[c] = "run"}
Queued == entries \ Active

Due(c) == ~moving /\ (Rank(c) >= 3 => ~busy)

\* The order of (rank, id).
Precedes(c, d) == Rank(c) < Rank(d) \/ (Rank(c) = Rank(d) /\ c \in older[d])

Best(c) == \A d \in Queued \ cancelled : Lane(d) = Lane(c) => ~Precedes(d, c)

Blockers(c) == {d \in Active \ cancelled : Lane(d) = Lane(c)}

PrimaryWaiting == \E d \in Queued \ cancelled : Rank(d) <= 1
BodyActive == \E d \in Active \ cancelled : Rank(d) <= 1

\* Mutant: only the number of requests is limited.
ReadyUnblocked(c) ==
    /\ ~paused
    /\ Best(c)
    /\ Cardinality(Active \ cancelled) < 3
    /\ Due(c)
    /\ Rank(c) >= 3 => ~PrimaryWaiting
    /\ Rank(c) = 4 => ~BodyActive

Ready(c) ==
    /\ ~paused
    /\ Best(c)
    /\ Blockers(c) = {}
    /\ Cardinality(Active \ cancelled) < 3
    /\ Due(c)
    /\ Rank(c) >= 3 => ~PrimaryWaiting
    /\ Rank(c) = 4 => ~BodyActive

\* Mutant: a visible request interrupts before the reader has come to rest.
PreemptedAtOnce(c) ==
    IF ~paused /\ Best(c) /\ Rank(c) <= 1
    THEN {d \in Blockers(c) : Rank(d) > Rank(c)}
    ELSE {}

\* Active entries of its lane that a visible request interrupts.
Preempted(c) ==
    IF ~paused /\ Best(c) /\ Rank(c) <= 1 /\ Due(c)
    THEN {d \in Blockers(c) : Rank(d) > Rank(c)}
    ELSE {}
------------------------------------------------------------------------------
(* Entering and leaving.                                                   *)

\* notify_waiters: calls that have enabled their Notified look again.
Woken(p) == [c \in Call |-> IF p[c] \in Sleeping THEN "check" ELSE p[c]]

Duplicate(c) == \E d \in entries \ stale : KeyOf[d] = KeyOf[c]

Worst(d) == \A o \in Queued \ {d} : Precedes(o, d)

\* Mutant: the caller of an evicted request is not told.
EnterSilently(c, evicted) ==
    /\ entries' = (entries \ evicted) \cup {c}
    /\ older' = [d \in Call |-> IF d = c THEN entries \ evicted ELSE older[d] \ evicted]
    /\ stale' = stale \ evicted
    /\ phase' = [phase EXCEPT ![c] = "check"]
    /\ UNCHANGED cancelled

Enter(c, evicted) ==
    /\ entries' = (entries \ evicted) \cup {c}
    /\ older' = [d \in Call |-> IF d = c THEN entries \ evicted ELSE older[d] \ evicted]
    /\ cancelled' = cancelled \cup evicted
    /\ stale' = stale \ evicted
    /\ phase' = Woken([phase EXCEPT ![c] = "check"])

\* Mutant: a better request enters a full queue in addition.
SubmitBeyond(c) ==
    /\ phase[c] = "idle"
    /\ ~Duplicate(c)
    /\ \/ Cardinality(Queued) < MaxQueued
       \/ \E d \in Queued : Worst(d) /\ Rank(d) > Rank(c)
    /\ Enter(c, {})
    /\ UNCHANGED <<view, paused, moving, busy>>

\* run, until the request waits: duplicates are refused, and so is a request
\* that finds the queue full of requests no worse than itself.
Submit(c) ==
    /\ phase[c] = "idle"
    /\ ~Duplicate(c)
    /\ \/ Cardinality(Queued) < MaxQueued /\ Enter(c, {})
       \/ /\ Cardinality(Queued) >= MaxQueued
          /\ \E d \in Queued : Worst(d) /\ Rank(d) > Rank(c) /\ Enter(c, {d})
    /\ UNCHANGED <<view, paused, moving, busy>>

\* Mutant: a call that ends wakes nobody.
LeaveSilently(c) ==
    /\ phase' = [phase EXCEPT ![c] = "idle"]
    /\ entries' = entries \ {c}
    /\ older' = [d \in Call |-> IF d = c THEN {} ELSE older[d] \ {c}]
    /\ cancelled' = cancelled \ {c}
    /\ stale' = stale \ {c}
    /\ busy' = (busy \/ (c \in Active /\ Rank(c) <= 1))
    /\ UNCHANGED <<view, paused, moving>>

\* Mutant: the entry of a call that ends is left behind.
LeaveEntry(c) ==
    /\ phase' = Woken([phase EXCEPT ![c] = "idle"])
    /\ cancelled' = cancelled \ {c}
    /\ UNCHANGED <<entries, older, stale, view, paused, moving, busy>>

\* Registration::drop, when run returns or its future is dropped.
Leave(c) ==
    /\ phase' = Woken([phase EXCEPT ![c] = "idle"])
    /\ entries' = entries \ {c}
    /\ older' = [d \in Call |-> IF d = c THEN {} ELSE older[d] \ {c}]
    /\ cancelled' = cancelled \ {c}
    /\ stale' = stale \ {c}
    /\ busy' = (busy \/ (c \in Active /\ Rank(c) <= 1))
    /\ UNCHANGED <<view, paused, moving>>
------------------------------------------------------------------------------
(* The loop of run.                                                        *)

\* Mutant: no timer is set.
AsleepForGood(c) == {"parked"}

\* How a call sleeps that is not admitted: the clock is read again, and a
\* timer is set if it is still before the deadline.  ClockTears lets the
\* deadline pass between the two looks.
Asleep(c) ==
    IF Due(c) THEN {"parked"}
    ELSE {"timed"} \cup (IF ClockTears THEN {"parked"} ELSE {})

\* One look at the state under the lock.
Check(c) ==
    /\ phase[c] = "check"
    /\ IF c \notin entries \/ c \in stale \/ c \in cancelled THEN Leave(c)
       ELSE /\ cancelled' = cancelled \cup Preempted(c)
            /\ \E p \in IF Ready(c) THEN {"run"} ELSE Asleep(c) :
                  phase' = [phase EXCEPT ![c] = p]
            /\ UNCHANGED <<entries, older, stale, view, paused, moving, busy>>

Timer(c) ==
    /\ phase[c] = "timed"
    /\ Due(c)
    /\ phase' = [phase EXCEPT ![c] = "check"]
    /\ UNCHANGED <<entries, older, cancelled, stale, view, paused, moving, busy>>

\* The call notices that it was evicted, invalidated or preempted.
Superseded(c) ==
    /\ phase[c] \in Sleeping \cup {"run"}
    /\ c \in cancelled
    /\ Leave(c)

\* The request is answered, fails or times out.
Finish(c) == phase[c] = "run" /\ Leave(c)

\* The host cancels its token or drops the call.
Abandon(c) == phase[c] \in Queueing /\ Leave(c)
------------------------------------------------------------------------------
(* The reader and the clock.                                               *)

Update(place, pause) ==
    /\ view' = place
    /\ paused' = pause
    /\ moving' = (moving \/ place # view)
    /\ phase' = Woken(phase)
    /\ UNCHANGED <<entries, older, cancelled, stale, busy>>

Invalidate ==
    /\ stale' = entries
    /\ cancelled' = cancelled \cup entries
    /\ phase' = Woken(phase)
    /\ UNCHANGED <<entries, older, view, paused, moving, busy>>

Settle ==
    /\ moving
    /\ moving' = FALSE
    /\ UNCHANGED <<phase, entries, older, cancelled, stale, view, paused, busy>>

Quiet ==
    /\ busy
    /\ busy' = FALSE
    /\ UNCHANGED <<phase, entries, older, cancelled, stale, view, paused, moving>>

Loop(c) == Check(c) \/ Timer(c) \/ Superseded(c) \/ Finish(c)

Next ==
    \/ \E c \in Call : Submit(c) \/ Loop(c) \/ Abandon(c)
    \/ \E place \in Place, pause \in BOOLEAN : Update(place, pause)
    \/ Invalidate
    \/ Settle
    \/ Quiet

Spec == Init /\ [][Next]_vars

\* Tasks are polled, a request ends within its timeout, and time passes.
FairSpec ==
    /\ Spec
    /\ \A c \in Call : WF_vars(Loop(c))
    /\ WF_vars(Settle)
    /\ WF_vars(Quiet)
------------------------------------------------------------------------------
(* Properties.                                                             *)

TypeOK ==
    /\ phase \in [Call -> {"idle", "run"} \cup Queueing]
    /\ entries \subseteq Call
    /\ older \in [Call -> SUBSET Call]
    /\ cancelled \subseteq Call
    /\ stale \subseteq entries
    /\ \A c \in entries : phase[c] # "idle"
    /\ view \in Place
    /\ paused \in BOOLEAN /\ moving \in BOOLEAN /\ busy \in BOOLEAN

\* Each lane has at most one request that has not been told to stop, and the
\* lane is free for the next one as soon as it has (run's blockers): through
\* preemption, invalidation and scrolling that changes every rank.
LaneExclusive ==
    \A c, d \in Active \ cancelled : Lane(c) = Lane(d) => c = d

\* A call whose entry another call's submission removed has been told, so it
\* returns to its host and does not wait without an entry.
EvictedTold ==
    \A c \in Call : phase[c] # "idle" => c \in entries \cup cancelled

\* The requests that wait never exceed the queue, also when a better request
\* takes the place of a worse one and when waiting requests were cancelled.
QueueBounded == Cardinality(Queued) <= MaxQueued

\* A call that sleeps without a timer cannot be admitted: what made it ready
\* has woken it.  Admission and preemption wake nobody; then the end of a
\* running request will: of the one preempted, or of the visible one whose
\* admission let requests of a worse rank pass.
NoLostWakeup ==
    \A c \in entries \ cancelled :
        phase[c] = "parked" /\ Ready(c) =>
            \E d \in Active : d \in cancelled \/ (Rank(c) >= 3 /\ Rank(d) <= 1)

\* A request that was sent is told to stop only by an invalidation, or by a
\* visible request of its lane while the reader rests: moving it off the
\* screen is not enough.
PaidRequestKept ==
    [][\A d \in Active \ cancelled : d \in cancelled' =>
          \/ d \in stale'
          \/ ~moving /\ \E c \in Queued : Lane(c) = Lane(d) /\ Rank(c) <= 1 /\ Rank(d) > 1]_vars

\* A call does not wait for ever while the reader rests and no request of a
\* better rank waits: cancelled or evicted neighbours free what they hold, and
\* calls of its own rank are served in their order.
Served ==
    \A c \in Call :
        phase[c] \in Queueing ~>
            \/ phase[c] \notin Queueing
            \/ paused \/ moving
            \/ \E d \in Call : phase[d] \in Queueing /\ Rank(d) < Rank(c)
==============================================================================
