------------------------- MODULE SyncSchedule_proofs -------------------------
(***************************************************************************)
(* Nothing asked for is forgotten and no limit is broken, for all delays.  *)
(***************************************************************************)
EXTENDS SyncSchedule, TLAPS

\* Schedule s asks for what is in o.
Asks(s, o) ==
    /\ "Forced" \in o => s.queued = "Forced"
    /\ "Full" \in o => s.queued \in FullModes
    /\ "Derived" \in o => ~s.seen \/ s.queued \in FullModes \cup {"Derived"}

\* A job in mode does what is in o, if it takes derived data along.
Does(mode, o) ==
    /\ "Forced" \in o => mode = "Forced"
    /\ "Full" \in o => mode \in FullModes
    /\ "Derived" \in o => mode \in FullModes \cup {"Derived"}

\* The schedule of the running job asks for what the job does not do.
JobAsks ==
    /\ "Forced" \in owed => job = "Forced" \/ local.queued = "Forced"
    /\ "Full" \in owed => job \in FullModes \/ local.queued \in FullModes
    /\ "Derived" \in owed =>
          \/ ~local.seen \/ local.queued \in FullModes \cup {"Derived"}
          \/ "Derived" \in covered /\ job \in FullModes \cup {"Derived"}

\* A file is the schedule in memory, or asks for a full check that the schedule
\* in memory asks for since it was restored.
Follows(file, memory) ==
    /\ memory.seen = file.seen
    /\ memory.queued # file.queued =>
          Overdue(file) /\ memory.queued = Request(file, "Full").queued

Linked == active # None /\ saved # None => Follows(saved, active)

OwedKept ==
    /\ active # None => Asks(active, owed)
    /\ saved # None => Asks(Restored(saved), owed)
    /\ saved = None => "Forced" \notin owed
    /\ job # None => active # None /\ saved # None /\ JobAsks
    /\ Linked

\* A schedule knows how long the server wants to be left alone.
Knows(s, q) == q <= s.limitIn /\ s.limitIn <= s.retryIn

LimitKept ==
    /\ active # None => Knows(active, quota)
    /\ saved # None => Knows(saved, quota)
    /\ saved = None => quota = 0 /\ (active # None => active.limitIn = 0)
    /\ job # None => quota = 0 /\ local.limitIn = 0

IInv == TypeOK /\ OwedKept /\ LimitKept
------------------------------------------------------------------------------
(* What the operations of a schedule do.                                   *)

LEMMA NoneApart == None \notin Schedule /\ None \notin Modes \cup {"Statistics"} \cup Int
  BY ScheduleAssumption DEF Schedule

LEMMA NewType == New \in Schedule /\ New.limitIn = 0 /\ New.retryIn = 0
  BY ScheduleAssumption DEF New, Schedule, Wait

LEMMA RequestFacts ==
  ASSUME NEW s \in Schedule, NEW mode \in Modes
  PROVE  LET r == Request(s, mode) IN
         /\ r \in Schedule
         /\ r.limitIn = s.limitIn /\ r.retryIn = s.retryIn /\ r.seen = s.seen
         /\ r.fullAge = s.fullAge
         /\ r.queued = "Forced" <=> mode = "Forced" \/ s.queued = "Forced"
         /\ r.queued \in FullModes <=> mode \in FullModes \/ s.queued \in FullModes
         /\ r.queued \in FullModes \cup {"Derived"} <=>
               \/ mode \in FullModes \cup {"Derived"}
               \/ s.queued \in FullModes \cup {"Derived"}
  BY NoneApart DEF Request, Schedule, Modes, FullModes

LEMMA ObservedFacts ==
  ASSUME NEW s \in Schedule, NEW o, Asks(s, o)
  PROVE  LET r == Observed(s) IN
         /\ r \in Schedule /\ r.seen /\ Asks(r, o)
         /\ r.limitIn = s.limitIn /\ r.retryIn = s.retryIn /\ r.fullAge = s.fullAge
  <1>1. "Derived" \in Modes BY DEF Modes
  <1>2. CASE s.seen BY <1>2 DEF Observed
  <1>3. CASE ~s.seen
    <2>. DEFINE q == Request(s, "Derived")
    <2>1. /\ q \in Schedule
          /\ q.limitIn = s.limitIn /\ q.retryIn = s.retryIn /\ q.fullAge = s.fullAge
          /\ q.queued \in FullModes \cup {"Derived"}
          /\ s.queued = "Forced" => q.queued = "Forced"
          /\ s.queued \in FullModes => q.queued \in FullModes
      BY <1>1, RequestFacts
    <2>2. Observed(s) = [q EXCEPT !.seen = TRUE] BY <1>3 DEF Observed
    <2>. HIDE DEF q
    <2>. QED BY <2>1, <2>2 DEF Asks, Schedule
  <1>. QED BY <1>2, <1>3

LEMMA StartedFacts ==
  ASSUME NEW s \in Schedule, NEW mode \in Modes \cup {"Statistics"}
  PROVE  LET r == Started(s, mode) IN
         /\ r \in Schedule
         /\ r.limitIn = s.limitIn /\ r.retryIn = s.retryIn /\ r.seen = s.seen
         /\ r.fullAge = s.fullAge
  BY NoneApart DEF Started, Schedule, Modes, FullModes

\* What is due when nothing is queued.
LEMMA NextUnqueuedFacts ==
  ASSUME NEW s \in Schedule, NEW rested \in BOOLEAN
  PROVE  LET n == NextUnqueued(s, rested) IN
         /\ n.mode \in Modes \cup {"Statistics", None}
         /\ n.schedule \in Schedule
         /\ n.schedule.limitIn = s.limitIn /\ n.schedule.retryIn = s.retryIn
         /\ n.schedule.seen = s.seen /\ n.schedule.queued = s.queued
         /\ n.schedule.fullAge = s.fullAge
  BY NoneApart, ScheduleAssumption DEF NextUnqueued, Schedule, Modes

LEMMA NextModeFacts ==
  ASSUME NEW s \in Schedule, s.seen, NEW o, Asks(s, o)
  PROVE  LET n == NextMode(s) IN
         /\ n.mode \in Modes \cup {"Statistics", None}
         /\ n.schedule \in Schedule
         /\ n.schedule.limitIn = s.limitIn /\ n.schedule.retryIn = s.retryIn
         /\ n.schedule.seen /\ n.schedule.fullAge = s.fullAge
         /\ n.mode = None => n.schedule.queued = s.queued
         /\ n.mode # None => s.retryIn = 0 /\ Does(n.mode, o)
  <1>. s.retryIn \in Wait /\ Wait \subseteq Int BY ScheduleAssumption DEF Schedule, Wait
  <1>1. CASE s.retryIn > 0
    BY <1>1 DEF NextMode
  <1>2. CASE s.retryIn = 0 /\ s.queued # None
    <2>1. s.queued \in Modes BY <1>2 DEF Schedule
    <2>2. NextMode(s).schedule = [s EXCEPT !.queued = None]
      BY <1>2 DEF NextMode
    <2>3. NextMode(s).mode = IF Overdue(s) /\ s.queued = "Derived" THEN "Full" ELSE s.queued
      BY <1>2 DEF NextMode
    <2>4. NextMode(s).mode \in Modes /\ NextMode(s).mode # None
      BY <2>1, <2>3, NoneApart DEF Modes
    <2>5. Does(NextMode(s).mode, o) BY <2>1, <2>3 DEF Does, Asks, FullModes
    <2>. QED BY <1>2, <2>2, <2>4, <2>5 DEF Schedule
  <1>3. CASE s.retryIn = 0 /\ s.queued = None
    <2>. DEFINE rested == latest = "quiet" \/ s.pendingAge = ReadingDelay
    <2>1. NextMode(s) = NextUnqueued(s, rested) BY <1>3 DEF NextMode
    <2>2. rested \in BOOLEAN OBVIOUS
    <2>3. \A mode : Does(mode, o) BY <1>3, NoneApart DEF Does, Asks, FullModes, Modes
    <2>. HIDE DEF rested
    <2>. QED BY <1>3, <2>1, <2>2, <2>3, NextUnqueuedFacts
  <1>. QED BY <1>1, <1>2, <1>3 DEF Wait

LEMMA FailedFacts ==
  ASSUME NEW s \in Schedule, NEW mode \in Modes \cup {"Statistics"}, NEW limited \in BOOLEAN
  PROVE  LET r == Failed(s, mode, limited) IN
         /\ r \in Schedule
         /\ limited => r.limitIn = LimitDelay /\ r.retryIn = LimitDelay
         /\ ~limited => r.limitIn = s.limitIn /\ (s.limitIn = 0 => r.limitIn <= r.retryIn)
         /\ r.seen = s.seen
         /\ mode = "Statistics" => r.queued = s.queued
         /\ mode # "Statistics" => r.queued = Request(s, mode).queued
  <1>. DEFINE delay == IF limited THEN LimitDelay ELSE RetryDelay
  <1>1. delay \in Wait BY ScheduleAssumption DEF Wait
  <1>2. \A n \in Wait : n >= 0 BY ScheduleAssumption DEF Wait
  <1>3. CASE mode = "Statistics"
    <2>1. Failed(s, mode, limited) =
            [s EXCEPT !.statisticsIn = delay,
                      !.retryIn = IF limited THEN delay ELSE @,
                      !.limitIn = IF limited THEN delay ELSE @]
      BY <1>3 DEF Failed
    <2>2. s.retryIn \in Wait /\ s.limitIn \in Wait BY DEF Schedule
    <2>3. CASE limited BY <1>1, <1>3, <2>1, <2>3 DEF Schedule
    <2>4. CASE ~limited
      <3>1. Failed(s, mode, limited) = [s EXCEPT !.statisticsIn = delay]
        BY <2>1, <2>4, <2>2 DEF Schedule
      <3>. QED BY <1>1, <1>2, <1>3, <2>2, <2>4, <3>1 DEF Schedule
    <2>. QED BY <2>3, <2>4
  <1>4. CASE mode # "Statistics"
    <2>. DEFINE q == Request(s, mode)
    <2>1. q \in Schedule /\ q.limitIn = s.limitIn /\ q.seen = s.seen
      BY <1>4, RequestFacts
    <2>2. Failed(s, mode, limited) =
            [q EXCEPT !.retryIn = delay, !.limitIn = IF limited THEN delay ELSE @]
      BY <1>4 DEF Failed
    <2>. HIDE DEF q
    <2>3. /\ Failed(s, mode, limited) \in Schedule
          /\ Failed(s, mode, limited).queued = q.queued
          /\ Failed(s, mode, limited).seen = q.seen
          /\ Failed(s, mode, limited).retryIn = delay
          /\ Failed(s, mode, limited).limitIn = IF limited THEN delay ELSE q.limitIn
      BY <1>1, <2>1, <2>2 DEF Schedule
    <2>. QED BY <1>1, <1>2, <1>4, <2>1, <2>3 DEF q
  <1>. QED BY <1>3, <1>4

LEMMA SucceededFacts ==
  ASSUME NEW s \in Schedule, NEW mode \in Modes \cup {"Statistics"}, s.limitIn = 0
  PROVE  LET r == Succeeded(s, mode) IN
         /\ r \in Schedule /\ r.limitIn = 0
         /\ r.queued = s.queued /\ r.seen = s.seen
  <1>1. CASE mode = "Statistics"
    BY <1>1 DEF Succeeded, Schedule
  <1>2. CASE mode # "Statistics"
    <2>1. 0 \in Wait /\ 0 \in 0..FullAfter BY ScheduleAssumption DEF Wait
    <2>. QED BY <1>2, <2>1 DEF Succeeded, Schedule
  <1>. QED BY <1>1, <1>2

LEMMA RestoredFacts ==
  ASSUME NEW s \in Schedule
  PROVE  LET r == Restored(s) IN
         /\ r \in Schedule
         /\ r.limitIn = s.limitIn /\ r.retryIn = s.retryIn /\ r.seen = s.seen
  BY RequestFacts DEF Restored, Modes

LEMMA RestoredAsks ==
  ASSUME NEW s \in Schedule, NEW o, Asks(s, o)
  PROVE  Asks(Restored(s), o)
  <1>. "Full" \in Modes BY DEF Modes
  <1>. QED BY RequestFacts DEF Restored, Asks

LEMMA AgedFacts ==
  ASSUME NEW s \in Schedule
  PROVE  /\ Aged(s) \in Schedule
         /\ Aged(s).queued = s.queued /\ Aged(s).seen = s.seen
         /\ Overdue(s) => Overdue(Aged(s))
         /\ Aged(s).limitIn = Fewer(s.limitIn) /\ Aged(s).retryIn = Fewer(s.retryIn)
  <1>1. \A n \in Wait : Fewer(n) \in Wait BY ScheduleAssumption DEF Wait, Fewer
  <1>2. \A n \in Wait \cup {None} : Fewer(n) \in Wait \cup {None}
    BY <1>1 DEF Fewer
  <1>3. More(s.fullAge, FullAfter) \in 0..FullAfter
    BY ScheduleAssumption DEF More, Schedule
  <1>4. More(s.pendingAge, ReadingDelay) \in 0..ReadingDelay \cup {None}
    BY ScheduleAssumption DEF More, Schedule
  <1>5. s # None BY NoneApart
  <1>6. Overdue(s) => More(s.fullAge, FullAfter) = FullAfter
    BY DEF More, Overdue
  <1>. QED BY <1>1, <1>2, <1>3, <1>4, <1>5, <1>6 DEF Aged, Schedule, Overdue

LEMMA UnseenFacts ==
  ASSUME NEW s \in Schedule
  PROVE  /\ Unseen(s) \in Schedule
         /\ Unseen(s).queued = s.queued /\ ~Unseen(s).seen /\ Unseen(s).fullAge = s.fullAge
         /\ Unseen(s).limitIn = s.limitIn /\ Unseen(s).retryIn = s.retryIn
  BY NoneApart DEF Unseen, Schedule
------------------------------------------------------------------------------
(* The steps of the host keep the invariant.                               *)

\* The schedule a call finds.
LEMMA LoadedFacts ==
  ASSUME IInv
  PROVE  /\ Loaded \in Schedule
         /\ Asks(Loaded, owed)
         /\ Knows(Loaded, quota)
         /\ saved = None => Loaded.limitIn = 0
         /\ active # None => Loaded = active
         /\ saved # None => Follows(saved, Loaded)
  <1>. "Full" \in Modes BY DEF Modes
  <1>1. CASE active # None
    BY <1>1 DEF Loaded, IInv, TypeOK, OwedKept, LimitKept, Linked
  <1>2. CASE active = None /\ saved # None
    <2>1. saved \in Schedule /\ Loaded = Restored(saved)
      BY <1>2 DEF Loaded, IInv, TypeOK
    <2>2. Follows(saved, Restored(saved))
      BY <2>1, RestoredFacts DEF Restored, Follows
    <2>. QED BY <1>2, <2>1, <2>2, RestoredFacts DEF IInv, OwedKept, LimitKept, Knows
  <1>3. CASE active = None /\ saved = None
    <2>1. Loaded = Request(New, "Full") BY <1>3 DEF Loaded
    <2>2. /\ Loaded \in Schedule /\ Loaded.limitIn = 0 /\ Loaded.retryIn = 0
          /\ Loaded.queued \in FullModes
      BY <2>1, NewType, RequestFacts DEF FullModes
    <2>3. "Forced" \notin owed /\ quota = 0 BY <1>3 DEF IInv, OwedKept, LimitKept
    <2>. QED BY <1>3, <2>2, <2>3 DEF Asks, Knows
  <1>. QED BY <1>1, <1>2, <1>3

\* The file asks for what the schedule in memory asks for.
LEMMA FileAsks ==
  ASSUME NEW a \in Schedule, NEW s \in Schedule, NEW o, Asks(a, o), Follows(s, a)
  PROVE  Asks(Restored(s), o)
  <1>. "Full" \in Modes BY DEF Modes
  <1>1. CASE a.queued = s.queued BY <1>1, RestoredAsks DEF Asks, Follows
  <1>2. CASE Overdue(s) /\ a.queued = Request(s, "Full").queued
    BY <1>2, RestoredFacts DEF Asks, Restored, Follows
  <1>. QED BY <1>1, <1>2 DEF Follows

\* No job runs and none begins.
LEMMA StepIdle ==
  ASSUME IInv, job = None, NEW s \in Schedule, Idle(s), owed' \subseteq Modes, Asks(s, owed'),
         Knows(s, quota), saved = None => s.limitIn = 0,
         s = Loaded /\ saved = None => "Forced" \notin owed'
  PROVE  IInv'
  <1>1. UNCHANGED <<local, job, latest, covered, quota>> /\ job' = None /\ local' = None
    BY DEF Idle, IInv, TypeOK
  <1>2. CASE s # Loaded
    <2>1. active' = s /\ saved' = s BY <1>2 DEF Idle, Save
    <2>2. s # None BY NoneApart
    <2>3. Asks(Restored(s), owed') BY RestoredAsks
    <2>4. TypeOK' BY <1>1, <2>1 DEF IInv, TypeOK
    <2>5. OwedKept' BY <1>1, <2>1, <2>2, <2>3 DEF OwedKept, Linked, Follows
    <2>6. LimitKept' BY <1>1, <2>1, <2>2 DEF LimitKept
    <2>. QED BY <2>4, <2>5, <2>6 DEF IInv
  <1>3. CASE s = Loaded
    <2>1. active' = s /\ UNCHANGED saved BY <1>3 DEF Idle
    <2>2. s # None BY NoneApart
    <2>3. ASSUME saved # None PROVE Asks(Restored(saved), owed')
      <3>1. saved \in Schedule BY <2>3 DEF IInv, TypeOK
      <3>2. Follows(saved, s)
        BY <1>3, <2>3, LoadedFacts
      <3>. QED BY <3>1, <3>2, FileAsks
    <2>4. TypeOK' BY <1>1, <2>1 DEF IInv, TypeOK
    <2>5. Linked' BY <1>1, <2>1, <1>3, LoadedFacts DEF Linked
    <2>6. OwedKept' BY <1>1, <1>3, <2>1, <2>2, <2>3, <2>5 DEF OwedKept
    <2>7. LimitKept' BY <1>1, <2>1, <2>2 DEF LimitKept, IInv
    <2>. QED BY <2>4, <2>6, <2>7 DEF IInv
  <1>. QED BY <1>2, <1>3

\* A job begins whose mode was asked for, or does all that is asked for.
LEMMA StepBegin ==
  ASSUME IInv, NEW s \in Schedule, NEW mode \in Modes \cup {"Statistics"}, Begin(s, mode),
         s.limitIn = 0, s.retryIn >= 0, quota = 0, owed' \subseteq Modes, Does(mode, owed')
  PROVE  IInv'
  <1>. DEFINE l == Started(s, mode)
             j == Request(l, mode)
  <1>1. /\ l \in Schedule
        /\ l.limitIn = 0 /\ l.retryIn = s.retryIn
    BY StartedFacts
  <1>2. /\ j \in Schedule /\ j.limitIn = 0 /\ j.retryIn >= 0
        /\ Asks(j, owed')
    <2>1. CASE mode \in Modes
      BY <1>1, <2>1, RequestFacts DEF Does, Asks, FullModes
    <2>2. CASE mode = "Statistics"
      <3>1. j = [l EXCEPT !.statisticsIn = IF @ = None THEN 0 ELSE @]
        BY <2>2 DEF Request
      <3>2. 0 \in Wait BY ScheduleAssumption DEF Wait
      <3>3. j \in Schedule /\ j.limitIn = l.limitIn /\ j.retryIn = l.retryIn
        BY <1>1, <3>1, <3>2 DEF Schedule
      <3>. QED BY <1>1, <2>2, <3>3 DEF Does, Asks, FullModes
    <2>. QED BY <2>1, <2>2
  <1>3. /\ job' = mode /\ local' = l /\ active' = j /\ saved' = j
        /\ covered' = {"Reading", "Derived"} /\ UNCHANGED <<latest, quota>>
    BY DEF Begin, Save
  <1>4. j # None /\ l # None /\ mode # None BY <1>1, <1>2, NoneApart
  <1>5. Asks(Restored(j), owed') BY <1>2, RestoredAsks
  <1>. HIDE DEF l, j
  <1>6. TypeOK' BY <1>1, <1>2, <1>3, <1>4 DEF IInv, TypeOK
  <1>7. OwedKept' BY <1>2, <1>3, <1>4, <1>5 DEF OwedKept, JobAsks, Linked, Follows, Does
  <1>8. LimitKept' BY <1>1, <1>2, <1>3, <1>4 DEF LimitKept, Knows
  <1>. QED BY <1>6, <1>7, <1>8 DEF IInv

\* A job ends with a schedule that asks for what is left.
LEMMA StepEnd ==
  ASSUME IInv, NEW s \in Schedule, End(s), latest' \in {None, "fresh", "quiet"},
         owed' \subseteq Modes, Asks(s, owed'), quota' \in Wait, Knows(s, quota')
  PROVE  IInv'
  <1>1. active' = s /\ saved' = s /\ job' = None /\ local' = None /\ covered' = {}
    BY DEF End, Save
  <1>2. s # None BY NoneApart
  <1>3. Asks(Restored(s), owed') BY RestoredAsks
  <1>4. TypeOK' BY <1>1 DEF TypeOK
  <1>5. OwedKept' BY <1>1, <1>2, <1>3 DEF OwedKept, Linked, Follows
  <1>6. LimitKept' BY <1>1, <1>2 DEF LimitKept
  <1>. QED BY <1>4, <1>5, <1>6 DEF IInv

LEMMA StepPoll ==
  ASSUME IInv, NEW flush \in BOOLEAN, Poll(flush)
  PROVE  IInv'
  <1>. DEFINE asked == IF flush THEN Request(Observed(Loaded), "Reading") ELSE Observed(Loaded)
             n == NextMode(asked)
  <1>1. LET r == Observed(Loaded)
        IN  /\ r \in Schedule /\ r.seen /\ Asks(r, owed)
            /\ r.limitIn = Loaded.limitIn /\ r.retryIn = Loaded.retryIn
    BY LoadedFacts, ObservedFacts
  <1>2. /\ asked \in Schedule /\ asked.seen /\ Asks(asked, owed)
        /\ asked.limitIn = Loaded.limitIn /\ asked.retryIn = Loaded.retryIn
    <2>1. "Reading" \in Modes BY DEF Modes
    <2>. QED BY <1>1, <2>1, RequestFacts DEF Asks
  <1>3. Knows(asked, quota) /\ (saved = None => asked.limitIn = 0)
    BY <1>2, LoadedFacts DEF Knows
  <1>4. /\ job = None /\ UNCHANGED owed
        /\ IF n.mode = None THEN Idle(n.schedule) ELSE Begin(n.schedule, n.mode)
    BY DEF Poll
  <1>5. owed' \subseteq Modes /\ (saved = None => "Forced" \notin owed')
    BY <1>4 DEF IInv, TypeOK, OwedKept
  <1>. HIDE DEF asked
  <1>6. /\ n.mode \in Modes \cup {"Statistics", None}
        /\ n.schedule \in Schedule
        /\ n.schedule.limitIn = asked.limitIn /\ n.schedule.retryIn = asked.retryIn
        /\ n.schedule.seen
        /\ n.mode = None => n.schedule.queued = asked.queued
        /\ n.mode # None => asked.retryIn = 0 /\ Does(n.mode, owed)
    BY <1>2, NextModeFacts
  <1>. HIDE DEF n
  <1>7. CASE n.mode = None
    <2>1. Asks(n.schedule, owed') BY <1>2, <1>4, <1>6, <1>7 DEF Asks
    <2>2. Knows(n.schedule, quota) BY <1>3, <1>6 DEF Knows
    <2>. QED BY <1>3, <1>4, <1>5, <1>6, <1>7, <2>1, <2>2, StepIdle
  <1>8. CASE n.mode # None
    <2>1. asked.limitIn = 0 /\ quota = 0
      BY <1>2, <1>3, <1>6, <1>8 DEF Knows, IInv, TypeOK, Wait, Schedule
    <2>. QED BY <1>4, <1>5, <1>6, <1>8, <2>1, StepBegin
  <1>. QED BY <1>7, <1>8

LEMMA StepManual ==
  ASSUME IInv, Manual
  PROVE  IInv'
  <1>. DEFINE s == Observed(Loaded)
             r == Request(s, "Forced")
  <1>1. /\ s \in Schedule /\ s.seen /\ Asks(s, owed)
        /\ s.limitIn = Loaded.limitIn /\ s.retryIn = Loaded.retryIn
    BY LoadedFacts, ObservedFacts
  <1>2. Knows(s, quota) /\ (saved = None => s.limitIn = 0)
    BY <1>1, LoadedFacts DEF Knows
  <1>3. /\ job = None /\ owed' = owed \cup {"Forced"}
        /\ IF s.limitIn > 0 THEN Idle(r) ELSE Begin(s, "Forced")
    BY DEF Manual
  <1>4. owed' \subseteq Modes BY <1>3 DEF IInv, TypeOK, Modes
  <1>5. "Forced" \in Modes BY DEF Modes
  <1>. HIDE DEF s
  <1>6. /\ r \in Schedule /\ r.limitIn = s.limitIn /\ r.retryIn = s.retryIn
        /\ r.queued = "Forced"
    BY <1>1, <1>5, RequestFacts
  <1>. HIDE DEF r
  <1>7. CASE s.limitIn > 0
    <2>1. saved # None BY <1>2, <1>7
    <2>2. Asks(r, owed') BY <1>6 DEF Asks, FullModes
    <2>3. Knows(r, quota) BY <1>2, <1>6 DEF Knows
    <2>. QED BY <1>3, <1>4, <1>6, <1>7, <2>1, <2>2, <2>3, StepIdle
  <1>8. CASE ~(s.limitIn > 0)
    <2>1. s.limitIn = 0 /\ s.retryIn >= 0 /\ quota = 0
      BY <1>1, <1>2, <1>8 DEF Knows, IInv, TypeOK, Wait, Schedule
    <2>2. Does("Forced", owed') BY DEF Does, FullModes
    <2>. QED BY <1>1, <1>3, <1>4, <1>5, <1>8, <2>1, <2>2, StepBegin
  <1>. QED BY <1>7, <1>8

LEMMA StepUnjournaled ==
  ASSUME IInv, Unjournaled
  PROVE  IInv'
  <1>1. active' = Loaded /\ UNCHANGED <<saved, local, job, latest, owed, covered, quota>>
    BY DEF Unjournaled
  <1>2. Loaded # None BY LoadedFacts, NoneApart
  <1>3. TypeOK' BY <1>1, LoadedFacts DEF IInv, TypeOK
  <1>4. OwedKept'
    <2>1. job' = None BY <1>1 DEF Unjournaled
    <2>. QED BY <1>1, <1>2, <2>1, LoadedFacts DEF IInv, OwedKept, Linked
  <1>5. LimitKept' BY <1>1, <1>2, LoadedFacts DEF IInv, LimitKept
  <1>. QED BY <1>3, <1>4, <1>5 DEF IInv

LEMMA StepLibrary ==
  ASSUME IInv, LibraryChanged
  PROVE  IInv'
  <1>. DEFINE s == Request(Loaded, "Full")
  <1>1. "Full" \in Modes BY DEF Modes
  <1>2. /\ s \in Schedule /\ s.limitIn = Loaded.limitIn /\ s.retryIn = Loaded.retryIn
        /\ s.queued \in FullModes /\ (Loaded.queued = "Forced" => s.queued = "Forced")
    BY <1>1, LoadedFacts, RequestFacts DEF FullModes
  <1>3. /\ active' = s /\ saved' = s /\ owed' = owed \cup {"Full"}
        /\ job = None /\ UNCHANGED <<local, job, latest, covered, quota>>
    BY DEF LibraryChanged, Save
  <1>. HIDE DEF s
  <1>4. Asks(s, owed') BY <1>2, <1>3, LoadedFacts DEF Asks
  <1>5. Knows(s, quota) BY <1>2, LoadedFacts DEF Knows
  <1>6. s # None /\ Asks(Restored(s), owed') BY <1>2, <1>4, NoneApart, RestoredAsks
  <1>7. TypeOK' BY <1>1, <1>2, <1>3 DEF IInv, TypeOK
  <1>8. OwedKept' BY <1>3, <1>4, <1>6 DEF OwedKept, Linked, Follows
  <1>9. LimitKept' BY <1>3, <1>5, <1>6 DEF LimitKept
  <1>. QED BY <1>7, <1>8, <1>9 DEF IInv

\* A running job's mode, with the schedule it was started from.
LEMMA JobFacts ==
  ASSUME IInv, job # None
  PROVE  /\ job \in Modes \cup {"Statistics"} /\ local \in Schedule /\ local.limitIn = 0
         /\ quota = 0 /\ JobAsks
  BY DEF IInv, TypeOK, OwedKept, LimitKept

\* A job that did not succeed is asked for again.
LEMMA AgainAsks ==
  ASSUME IInv, job # None, NEW s \in Schedule, s.seen = local.seen,
         s.queued = IF job = "Statistics" THEN local.queued ELSE Request(local, job).queued
  PROVE  Asks(s, owed)
  <1>1. CASE job = "Statistics"
    BY <1>1, JobFacts DEF JobAsks, Asks, FullModes
  <1>2. CASE job # "Statistics"
    <2>1. job \in Modes BY <1>2, JobFacts
    <2>2. /\ s.queued = "Forced" <=> job = "Forced" \/ local.queued = "Forced"
          /\ s.queued \in FullModes <=> job \in FullModes \/ local.queued \in FullModes
          /\ s.queued \in FullModes \cup {"Derived"} <=>
                \/ job \in FullModes \cup {"Derived"}
                \/ local.queued \in FullModes \cup {"Derived"}
      BY <1>2, <2>1, JobFacts, RequestFacts
    <2>. QED BY <2>2, JobFacts DEF JobAsks, Asks
  <1>. QED BY <1>1, <1>2

LEMMA StepFailure ==
  ASSUME IInv, NEW limited \in BOOLEAN, Failure(limited)
  PROVE  IInv'
  <1>. DEFINE s == Failed(local, job, limited)
  <1>1. /\ job # None /\ End(s) /\ quota' = IF limited THEN LimitDelay ELSE quota
        /\ UNCHANGED <<latest, owed>>
    BY DEF Failure
  <1>2. /\ s \in Schedule /\ s.seen = local.seen
        /\ s.queued = IF job = "Statistics" THEN local.queued ELSE Request(local, job).queued
        /\ limited => s.limitIn = LimitDelay /\ s.retryIn = LimitDelay
        /\ ~limited => s.limitIn = 0 /\ s.limitIn <= s.retryIn
    BY <1>1, JobFacts, FailedFacts
  <1>. HIDE DEF s
  <1>3. Asks(s, owed') BY <1>1, <1>2, AgainAsks
  <1>4. quota' \in Wait /\ Knows(s, quota')
    BY <1>1, <1>2, JobFacts, ScheduleAssumption DEF Knows, Wait
  <1>5. latest' \in {None, "fresh", "quiet"} /\ owed' \subseteq Modes
    BY <1>1 DEF IInv, TypeOK
  <1>. QED BY <1>1, <1>2, <1>3, <1>4, <1>5, StepEnd

LEMMA StepCancel ==
  ASSUME IInv, Cancel
  PROVE  IInv'
  <1>. DEFINE s == Request(local, job)
  <1>1. job # None /\ End(s) /\ UNCHANGED <<latest, owed, quota>> BY DEF Cancel
  <1>2. /\ s \in Schedule /\ s.seen = local.seen /\ s.limitIn = 0 /\ s.retryIn >= 0
        /\ s.queued = IF job = "Statistics" THEN local.queued ELSE Request(local, job).queued
    <2>1. local.retryIn >= 0 BY <1>1, JobFacts, ScheduleAssumption DEF Schedule, Wait
    <2>2. CASE job = "Statistics"
      <3>1. s = [local EXCEPT !.statisticsIn = IF @ = None THEN 0 ELSE @]
        BY <2>2 DEF Request
      <3>2. 0 \in Wait BY ScheduleAssumption DEF Wait
      <3>3. /\ s \in Schedule /\ s.seen = local.seen /\ s.limitIn = local.limitIn
            /\ s.retryIn = local.retryIn /\ s.queued = local.queued
        BY <1>1, <3>1, <3>2, JobFacts DEF Schedule
      <3>. QED BY <1>1, <2>1, <2>2, <3>3, JobFacts
    <2>3. CASE job # "Statistics"
      <3>1. job \in Modes BY <1>1, <2>3, JobFacts
      <3>. QED BY <1>1, <2>1, <2>3, <3>1, JobFacts, RequestFacts
    <2>. QED BY <2>2, <2>3
  <1>. HIDE DEF s
  <1>3. Asks(s, owed') BY <1>1, <1>2, AgainAsks
  <1>4. Knows(s, quota') /\ quota' \in Wait
    BY <1>1, <1>2, JobFacts DEF Knows, IInv, TypeOK
  <1>5. latest' \in {None, "fresh", "quiet"} /\ owed' \subseteq Modes
    BY <1>1 DEF IInv, TypeOK
  <1>. QED BY <1>1, <1>2, <1>3, <1>4, <1>5, StepEnd

LEMMA StepSuccess ==
  ASSUME IInv, Success
  PROVE  IInv'
  <1>. DEFINE done == Succeeded(local, job)
  <1>1. job # None BY DEF Success
  <1>2. /\ done \in Schedule /\ done.limitIn = 0
        /\ done.queued = local.queued /\ done.seen = local.seen
    BY <1>1, JobFacts, SucceededFacts
  <1>3. owed' = owed \ Done BY DEF Success
  <1>4. Asks(done, owed')
    <2>1. /\ job = "Forced" => owed' = owed \ (FullModes \cup (covered \ {"Reading"}))
          /\ job = "Full" => owed' = owed \ ({"Full"} \cup (covered \ {"Reading"}))
          /\ job = "Derived" => owed' = owed \ (covered \ {"Reading"})
      BY <1>3 DEF Done
    <2>2. owed' \subseteq owed BY <1>3
    <2>. QED BY <1>1, <1>2, <2>1, <2>2, JobFacts DEF JobAsks, Asks, FullModes
  <1>5. latest' \in {None, "fresh", "quiet"} /\ owed' \subseteq Modes
    BY <1>3 DEF Success, IInv, TypeOK
  <1>6. \A r \in Schedule : r.retryIn >= 0 BY ScheduleAssumption DEF Schedule, Wait
  <1>7. quota = 0 /\ 0 \in Wait /\ LimitDelay \in Wait
    BY <1>1, JobFacts, ScheduleAssumption DEF Wait
  <1>8. \/ End(done) /\ UNCHANGED quota
        \/ End(Succeeded(done, "Statistics")) /\ UNCHANGED quota
        \/ \E limited \in BOOLEAN :
              /\ End(Failed(done, "Statistics", limited))
              /\ quota' = IF limited THEN LimitDelay ELSE quota
    BY DEF Success
  <1>. HIDE DEF done
  <1>9. CASE End(done) /\ UNCHANGED quota
    <2>1. Knows(done, quota') BY <1>2, <1>6, <1>7, <1>9 DEF Knows
    <2>. QED BY <1>2, <1>4, <1>5, <1>7, <1>9, <2>1, StepEnd
  <1>10. CASE End(Succeeded(done, "Statistics")) /\ UNCHANGED quota
    <2>. DEFINE s == Succeeded(done, "Statistics")
    <2>1. /\ s \in Schedule /\ s.limitIn = 0
          /\ s.queued = done.queued /\ s.seen = done.seen
      BY <1>2, SucceededFacts
    <2>. HIDE DEF s
    <2>2. Asks(s, owed') BY <1>4, <2>1 DEF Asks
    <2>3. Knows(s, quota') BY <1>6, <1>7, <1>10, <2>1 DEF Knows
    <2>. QED BY <1>5, <1>7, <1>10, <2>1, <2>2, <2>3, StepEnd DEF s
  <1>11. ASSUME NEW limited \in BOOLEAN, End(Failed(done, "Statistics", limited)),
                quota' = IF limited THEN LimitDelay ELSE quota
         PROVE  IInv'
    <2>. DEFINE s == Failed(done, "Statistics", limited)
    <2>1. /\ s \in Schedule /\ s.queued = done.queued /\ s.seen = done.seen
          /\ limited => s.limitIn = LimitDelay /\ s.retryIn = LimitDelay
          /\ ~limited => s.limitIn = 0 /\ s.limitIn <= s.retryIn
      BY <1>2, FailedFacts
    <2>. HIDE DEF s
    <2>2. Asks(s, owed') BY <1>4, <2>1 DEF Asks
    <2>3. Knows(s, quota') /\ quota' \in Wait
      BY <1>7, <1>11, <2>1, ScheduleAssumption DEF Knows
    <2>. QED BY <1>5, <1>11, <2>1, <2>2, <2>3, StepEnd DEF s
  <1>. QED BY <1>8, <1>9, <1>10, <1>11

LEMMA StepUnsaved ==
  ASSUME IInv, Unsaved
  PROVE  IInv'
  <1>1. /\ job' = None /\ local' = None /\ covered' = {}
        /\ UNCHANGED <<active, saved, latest, owed, quota>>
    BY DEF Unsaved
  <1>2. TypeOK' BY <1>1 DEF IInv, TypeOK
  <1>3. OwedKept' BY <1>1 DEF IInv, OwedKept, Linked
  <1>4. LimitKept' BY <1>1 DEF IInv, LimitKept
  <1>. QED BY <1>2, <1>3, <1>4 DEF IInv

LEMMA StepKill ==
  ASSUME IInv, Kill
  PROVE  IInv'
  <1>1. /\ active' = None /\ job' = None /\ local' = None /\ covered' = {}
        /\ UNCHANGED <<saved, latest, owed, quota>>
    BY DEF Kill
  <1>2. TypeOK' BY <1>1 DEF IInv, TypeOK
  <1>3. OwedKept' BY <1>1 DEF IInv, OwedKept, Linked
  <1>4. LimitKept' BY <1>1 DEF IInv, LimitKept
  <1>. QED BY <1>2, <1>3, <1>4 DEF IInv

LEMMA StepRead ==
  ASSUME IInv, Read
  PROVE  IInv'
  <1>1. /\ latest' = "fresh" /\ covered' = covered \ {"Reading"}
        /\ UNCHANGED <<active, saved, local, job, owed, quota>>
    BY DEF Read
  <1>2. TypeOK' BY <1>1 DEF IInv, TypeOK
  <1>3. OwedKept' BY <1>1 DEF IInv, OwedKept, Linked, JobAsks
  <1>4. LimitKept' BY <1>1 DEF IInv, LimitKept
  <1>. QED BY <1>2, <1>3, <1>4 DEF IInv

\* Time and new data change neither what is queued nor what is overdue already.
LEMMA SameQueue ==
  ASSUME NEW s \in Schedule, NEW t \in Schedule, t.queued = s.queued,
         Overdue(s) => Overdue(t), NEW o, NEW p, Asks(Restored(s), o),
         \/ t.seen = s.seen /\ p = o
         \/ ~t.seen /\ p \subseteq o \cup {"Derived"}
  PROVE  Asks(Restored(t), p)
  <1>. "Full" \in Modes BY DEF Modes
  <1>1. CASE Overdue(s)
    <2>1. Restored(s) = Request(s, "Full") /\ Restored(t) = Request(t, "Full")
      BY <1>1 DEF Restored
    <2>2. /\ Restored(t).queued \in FullModes
          /\ Restored(t).queued = "Forced" <=> s.queued = "Forced"
      BY <2>1, RequestFacts DEF FullModes
    <2>3. Restored(s).queued = "Forced" <=> s.queued = "Forced"
      BY <2>1, RequestFacts
    <2>4. "Forced" \in p => "Forced" \in o OBVIOUS
    <2>. QED BY <2>2, <2>3, <2>4, RequestFacts, <2>1 DEF Asks, FullModes
  <1>2. CASE ~Overdue(s)
    <2>1. Restored(s) = s BY <1>2 DEF Restored
    <2>2. Asks(t, p) BY <2>1 DEF Asks
    <2>. QED BY <2>2, RestoredAsks
  <1>. QED BY <1>1, <1>2

LEMMA SameFollows ==
  ASSUME NEW a, NEW s, NEW b, NEW t, Follows(s, a),
         t.queued = s.queued, b.queued = a.queued, Overdue(s) => Overdue(t), b.seen = t.seen
  PROVE  Follows(t, b)
  <1>1. CASE a.queued = s.queued BY <1>1 DEF Follows
  <1>2. CASE a.queued # s.queued
    <2>1. Overdue(t) /\ a.queued = Request(s, "Full").queued BY <1>2 DEF Follows
    <2>2. a.queued = Request(t, "Full").queued
      BY <2>1 DEF Request
    <2>. QED BY <2>1, <2>2 DEF Follows
  <1>. QED BY <1>1, <1>2

LEMMA StepDerive ==
  ASSUME IInv, Derive
  PROVE  IInv'
  <1>1. /\ active' = Unseen(active) /\ saved' = Unseen(saved) /\ local' = Unseen(local)
        /\ owed' = owed \cup {"Derived"} /\ covered' = covered \ {"Derived"}
        /\ UNCHANGED <<job, latest, quota>>
    BY DEF Derive
  <1>2. \A s \in Schedule : s # None /\ Unseen(s) # None /\ Unseen(s) \in Schedule
    BY UnseenFacts, NoneApart
  <1>3. Unseen(None) = None BY DEF Unseen
  <1>4. TypeOK' BY <1>1, <1>2, <1>3 DEF IInv, TypeOK, Modes
  <1>5. OwedKept'
    <2>1. ASSUME active # None PROVE Asks(active', owed')
      <3>1. active \in Schedule /\ Asks(active, owed) BY <2>1 DEF IInv, TypeOK, OwedKept
      <3>. QED BY <1>1, <3>1, UnseenFacts DEF Asks
    <2>2. ASSUME saved # None PROVE Asks(Restored(saved'), owed')
      <3>1. saved \in Schedule /\ Asks(Restored(saved), owed)
        BY <2>2 DEF IInv, TypeOK, OwedKept
      <3>2. Overdue(saved) => Overdue(Unseen(saved)) BY <3>1, UnseenFacts DEF Overdue
      <3>. QED BY <1>1, <3>1, <3>2, UnseenFacts, SameQueue
    <2>3. ASSUME active # None, saved # None PROVE Follows(saved', active')
      <3>1. active \in Schedule /\ saved \in Schedule /\ Follows(saved, active)
        BY <2>3 DEF IInv, TypeOK, OwedKept, Linked
      <3>2. Overdue(saved) => Overdue(Unseen(saved)) BY <3>1, UnseenFacts DEF Overdue
      <3>3. Unseen(active).seen = Unseen(saved).seen
        BY <2>3 DEF Unseen
      <3>. QED BY <1>1, <3>1, <3>2, <3>3, UnseenFacts, SameFollows
    <2>4. ASSUME job # None PROVE JobAsks'
      <3>1. local \in Schedule /\ JobAsks BY <2>4, JobFacts
      <3>. QED BY <1>1, <3>1, UnseenFacts DEF JobAsks
    <2>. QED BY <1>1, <1>2, <1>3, <2>1, <2>2, <2>3, <2>4 DEF IInv, TypeOK, OwedKept, Linked
  <1>6. LimitKept'
    <2>1. active # None => Knows(active', quota) BY <1>1, UnseenFacts DEF IInv, TypeOK, LimitKept, Knows
    <2>2. saved # None => Knows(saved', quota) BY <1>1, UnseenFacts DEF IInv, TypeOK, LimitKept, Knows
    <2>3. saved = None => quota = 0 /\ (active # None => active'.limitIn = 0)
      BY <1>1, UnseenFacts DEF IInv, TypeOK, LimitKept
    <2>4. job # None => quota = 0 /\ local'.limitIn = 0
      BY <1>1, UnseenFacts, JobFacts
    <2>. QED BY <1>1, <1>2, <1>3, <2>1, <2>2, <2>3, <2>4 DEF IInv, TypeOK, LimitKept
  <1>. QED BY <1>4, <1>5, <1>6 DEF IInv

LEMMA StepTick ==
  ASSUME IInv, Tick
  PROVE  IInv'
  <1>1. /\ active' = Aged(active) /\ saved' = Aged(saved) /\ local' = Aged(local)
        /\ quota' = Fewer(quota) /\ UNCHANGED <<job, owed, covered>>
        /\ latest' \in {latest, "quiet"}
    BY DEF Tick
  <1>2. \A s \in Schedule : s # None /\ Aged(s) # None /\ Aged(s) \in Schedule
    BY AgedFacts, NoneApart
  <1>3. Aged(None) = None BY DEF Aged
  <1>4. \A n \in Wait : Fewer(n) \in Wait /\ Fewer(n) = IF n = 0 THEN 0 ELSE n - 1
    BY ScheduleAssumption DEF Wait, Fewer
  <1>5. TypeOK' BY <1>1, <1>2, <1>3, <1>4 DEF IInv, TypeOK
  <1>6. OwedKept'
    <2>1. ASSUME active # None PROVE Asks(active', owed')
      <3>1. active \in Schedule /\ Asks(active, owed) BY <2>1 DEF IInv, TypeOK, OwedKept
      <3>. QED BY <1>1, <3>1, AgedFacts DEF Asks
    <2>2. ASSUME saved # None PROVE Asks(Restored(saved'), owed')
      <3>1. saved \in Schedule /\ Asks(Restored(saved), owed)
        BY <2>2 DEF IInv, TypeOK, OwedKept
      <3>. QED BY <1>1, <3>1, AgedFacts, SameQueue
    <2>3. ASSUME active # None, saved # None PROVE Follows(saved', active')
      <3>1. active \in Schedule /\ saved \in Schedule /\ Follows(saved, active)
        BY <2>3 DEF IInv, TypeOK, OwedKept, Linked
      <3>2. active.seen = saved.seen BY <3>1 DEF Follows
      <3>. QED BY <1>1, <3>1, <3>2, AgedFacts, SameFollows
    <2>4. ASSUME job # None PROVE JobAsks'
      <3>1. local \in Schedule /\ JobAsks BY <2>4, JobFacts
      <3>. QED BY <1>1, <3>1, AgedFacts DEF JobAsks
    <2>. QED BY <1>1, <1>2, <1>3, <2>1, <2>2, <2>3, <2>4 DEF IInv, TypeOK, OwedKept, Linked
  <1>7. LimitKept'
    <2>1. ASSUME NEW s \in Schedule, Knows(s, quota) PROVE Knows(Aged(s), quota')
      <3>1. s.limitIn \in Wait /\ s.retryIn \in Wait /\ quota \in Wait
        BY DEF Schedule, IInv, TypeOK
      <3>2. /\ Aged(s).limitIn = IF s.limitIn = 0 THEN 0 ELSE s.limitIn - 1
            /\ Aged(s).retryIn = IF s.retryIn = 0 THEN 0 ELSE s.retryIn - 1
            /\ quota' = IF quota = 0 THEN 0 ELSE quota - 1
        BY <1>1, <1>4, <3>1, AgedFacts
      <3>. QED BY <2>1, <3>1, <3>2, ScheduleAssumption DEF Knows, Wait
    <2>2. \A s \in Schedule : s.limitIn = 0 => Aged(s).limitIn = 0
      BY AgedFacts DEF Fewer
    <2>3. quota = 0 => quota' = 0 BY <1>1 DEF Fewer
    <2>. QED BY <1>1, <1>2, <1>3, <2>1, <2>2, <2>3, JobFacts DEF IInv, TypeOK, LimitKept
  <1>. QED BY <1>5, <1>6, <1>7 DEF IInv
------------------------------------------------------------------------------
(* The theorems.                                                           *)

LEMMA InitIInv == Init => IInv
  BY ScheduleAssumption DEF Init, IInv, TypeOK, OwedKept, Linked, LimitKept, Modes, Wait

LEMMA StepIInv == IInv /\ [Next]_vars => IInv'
  <1>. SUFFICES ASSUME IInv, [Next]_vars PROVE IInv' OBVIOUS
  <1>1. CASE UNCHANGED vars
    BY <1>1 DEF vars, IInv, TypeOK, OwedKept, JobAsks, Linked, LimitKept
  <1>2. CASE Next
    BY <1>2, StepPoll, StepUnjournaled, StepManual, StepLibrary, StepSuccess, StepFailure,
       StepUnsaved, StepCancel, StepKill, StepRead, StepDerive, StepTick DEF Next
  <1>. QED BY <1>1, <1>2

LEMMA Invariant == Spec => []IInv
  BY InitIInv, StepIInv, PTL DEF Spec

\* Every variable keeps its type: deadlines and ages stay within their bounds.
THEOREM ScheduleTypeCorrect == Spec => []TypeOK
  <1>1. IInv => TypeOK BY DEF IInv
  <1>. QED BY <1>1, Invariant, PTL

\* NothingForgotten: what was asked for and not done is in the schedule, in
\* memory and on disk.
THEOREM NothingForgottenAlways == Spec => []NothingForgotten
  <1>1. IInv => NothingForgotten
    <2>. SUFFICES ASSUME IInv PROVE NothingForgotten OBVIOUS
    <2>1. active # None => AsksFor(active) BY DEF IInv, OwedKept, Asks, AsksFor
    <2>2. saved # None => AsksFor(Restored(saved)) BY DEF IInv, OwedKept, Asks, AsksFor
    <2>3. ASSUME saved = None, active = None PROVE AsksFor(Request(New, "Full"))
      <3>1. Loaded = Request(New, "Full") BY <2>3 DEF Loaded
      <3>. QED BY <3>1, LoadedFacts DEF Asks, AsksFor
    <2>. QED BY <2>1, <2>2, <2>3 DEF NothingForgotten
  <1>. QED BY <1>1, Invariant, PTL

\* LimitRespected: no job starts before the time a server has asked for.
THEOREM LimitRespectedAlways == Spec => LimitRespected
  <1>1. IInv' /\ job = None /\ job' # None /\ UNCHANGED quota => quota = 0
    BY DEF IInv, LimitKept
  <1>2. IInv /\ [Next]_vars => (job = None /\ job' # None => quota = 0)
    <2>. SUFFICES ASSUME IInv, [Next]_vars, job = None, job' # None PROVE quota = 0
      OBVIOUS
    <2>1. UNCHANGED quota
      BY DEF Next, Poll, Manual, Idle, Begin, Unjournaled, LibraryChanged, Success, Failure,
             End, Unsaved, Cancel, Kill, Read, Derive, Tick, vars
    <2>. QED BY <1>1, <2>1, StepIInv
  <1>. QED BY <1>2, Invariant, PTL DEF Spec, LimitRespected
------------------------------------------------------------------------------
(***************************************************************************)
(* A full check that is due stays due.  The file is as old as the schedule *)
(* in memory, so a killed process changes nothing; and a job's own copy,   *)
(* which it writes back when it ends, is as old and asks for a full check  *)
(* that the job does not make itself.                                      *)
(***************************************************************************)

DueInv ==
    /\ active # None /\ saved # None => active.fullAge = saved.fullAge
    /\ job # None =>
          /\ local.fullAge = active.fullAge
          /\ active.queued \in FullModes => local.queued \in FullModes \/ job \in FullModes

\* What a step may do to a full check.
Kept == Due(Loaded) => Due(Loaded)'

LEMMA RestoredDue ==
  ASSUME NEW s \in Schedule
  PROVE  /\ Restored(s).fullAge = s.fullAge
         /\ Due(Restored(s)) <=> Due(s)
  <1>. "Full" \in Modes BY DEF Modes
  <1>. QED BY RequestFacts DEF Restored, Due, Overdue

\* Memory and file have the same full check due.
LEMMA LoadedDue ==
  ASSUME IInv, DueInv, saved # None
  PROVE  Loaded.fullAge = saved.fullAge /\ (Due(Loaded) => Due(saved))
  <1>1. saved \in Schedule /\ Loaded \in Schedule /\ Follows(saved, Loaded)
    BY LoadedFacts DEF IInv, TypeOK
  <1>2. Loaded.fullAge = saved.fullAge
    <2>1. CASE active # None BY <2>1 DEF Loaded, DueInv
    <2>2. CASE active = None BY <1>1, <2>2, RestoredDue DEF Loaded
    <2>. QED BY <2>1, <2>2
  <1>. QED BY <1>1, <1>2 DEF Follows, Due, Overdue

\* What a new process would load then has a full check due if the file has.
LEMMA NewProcessDue ==
  ASSUME saved' \in Schedule \cup {None}, active' = None, saved' # None => Due(saved')
  PROVE  Due(Loaded')
  <1>1. CASE saved' # None BY <1>1, RestoredDue DEF Loaded
  <1>2. CASE saved' = None
    <2>1. "Full" \in Modes /\ "Full" \in FullModes BY DEF Modes, FullModes
    <2>. QED BY <1>2, <2>1, NewType, RequestFacts DEF Loaded, Due
  <1>. QED BY <1>1, <1>2

LEMMA IdleDue ==
  ASSUME IInv, DueInv, job = None, NEW s \in Schedule, Idle(s),
         s.fullAge = Loaded.fullAge, Due(Loaded) => Due(s)
  PROVE  DueInv' /\ Kept
  <1>1. job' = None /\ active' = s /\ saved' \in {s, saved} /\ (saved' = saved => s = Loaded \/ saved = s)
    BY DEF Idle, Save
  <1>2. s # None BY NoneApart
  <1>3. Loaded' = s BY <1>1, <1>2 DEF Loaded
  <1>4. DueInv' BY <1>1, <1>2, LoadedDue DEF DueInv
  <1>. QED BY <1>3, <1>4 DEF Kept, Due, Overdue

\* A job begins that makes the full check, or leaves it on the schedule.
LEMMA BeginDue ==
  ASSUME NEW s \in Schedule, NEW mode \in Modes \cup {"Statistics"}, Begin(s, mode),
         Due(Loaded) => mode \in FullModes \/ Due(s)
  PROVE  DueInv' /\ Kept
  <1>. DEFINE l == Started(s, mode)
              j == Request(l, mode)
  <1>1. /\ l \in Schedule /\ l.fullAge = s.fullAge
        /\ mode \notin FullModes /\ s.queued \in FullModes => l.queued = s.queued
    <2>1. mode \notin FullModes /\ s.queued \in FullModes => l.queued = s.queued
      BY DEF Started, Schedule, FullModes
    <2>. QED BY <2>1, StartedFacts
  <1>2. /\ j \in Schedule /\ j.fullAge = s.fullAge
        /\ j.queued \in FullModes <=> mode \in FullModes \/ l.queued \in FullModes
    <2>1. CASE mode \in Modes BY <1>1, <2>1, RequestFacts
    <2>2. CASE mode = "Statistics"
      <3>1. j = [l EXCEPT !.statisticsIn = IF @ = None THEN 0 ELSE @]
        BY <2>2 DEF Request
      <3>2. 0 \in Wait BY ScheduleAssumption DEF Wait
      <3>. QED BY <1>1, <2>2, <3>1, <3>2 DEF Schedule, FullModes
    <2>. QED BY <2>1, <2>2
  <1>3. job' = mode /\ local' = l /\ active' = j /\ saved' = j BY DEF Begin, Save
  <1>4. j # None BY <1>2, NoneApart
  <1>. HIDE DEF l, j
  <1>5. DueInv' BY <1>1, <1>2, <1>3 DEF DueInv
  <1>6. Loaded' = j BY <1>3, <1>4 DEF Loaded
  <1>7. mode \in FullModes \/ Due(s) => Due(j) BY <1>1, <1>2 DEF Due, Overdue
  <1>. QED BY <1>5, <1>6, <1>7 DEF Kept, Due, Overdue

\* A job ends with a schedule.
LEMMA EndDue ==
  ASSUME NEW s \in Schedule, End(s)
  PROVE  DueInv' /\ job' = None /\ active' = s /\ Loaded' = s
  <1>1. active' = s /\ saved' = s /\ job' = None BY DEF End, Save
  <1>2. s # None BY NoneApart
  <1>. QED BY <1>1, <1>2 DEF DueInv, Loaded

\* What the next question does to a full check that is due: it is what begins,
\* or it is due by time and stays so.
LEMMA NextModeDue ==
  ASSUME NEW s \in Schedule
  PROVE  LET n == NextMode(s)
         IN  /\ n.schedule.fullAge = s.fullAge
             /\ n.mode = None => n.schedule.queued = s.queued
             /\ n.mode # None /\ s.queued \in FullModes => n.mode \in FullModes
  <1>1. CASE s.retryIn > 0 BY <1>1 DEF NextMode
  <1>2. CASE ~(s.retryIn > 0) /\ s.queued # None
    <2>1. NextMode(s).schedule = [s EXCEPT !.queued = None]
      BY <1>2 DEF NextMode
    <2>2. NextMode(s).mode = IF Overdue(s) /\ s.queued = "Derived" THEN "Full" ELSE s.queued
      BY <1>2 DEF NextMode
    <2>3. NextMode(s).mode # None BY <1>2, <2>2, NoneApart DEF Modes
    <2>. QED BY <1>2, <2>1, <2>2, <2>3 DEF Schedule, FullModes
  <1>3. CASE ~(s.retryIn > 0) /\ s.queued = None
    <2>. DEFINE rested == latest = "quiet" \/ s.pendingAge = ReadingDelay
    <2>1. NextMode(s) = NextUnqueued(s, rested) BY <1>3 DEF NextMode
    <2>2. rested \in BOOLEAN OBVIOUS
    <2>3. None \notin FullModes BY NoneApart DEF FullModes, Modes
    <2>. HIDE DEF rested
    <2>. QED BY <1>3, <2>1, <2>2, <2>3, NextUnqueuedFacts
  <1>. QED BY <1>1, <1>2, <1>3

LEMMA ObservedDue ==
  ASSUME NEW s \in Schedule
  PROVE  /\ Observed(s) \in Schedule
         /\ Observed(s).fullAge = s.fullAge
         /\ s.queued \in FullModes => Observed(s).queued \in FullModes
  <1>1. Asks(s, {}) BY DEF Asks
  <1>2. Observed(s) \in Schedule /\ Observed(s).fullAge = s.fullAge BY <1>1, ObservedFacts
  <1>3. CASE s.seen BY <1>2, <1>3 DEF Observed
  <1>4. CASE ~s.seen
    <2>. DEFINE q == Request(s, "Derived")
    <2>1. q \in Schedule /\ (s.queued \in FullModes => q.queued \in FullModes)
      BY RequestFacts DEF Modes
    <2>2. Observed(s) = [q EXCEPT !.seen = TRUE] BY <1>4 DEF Observed
    <2>. HIDE DEF q
    <2>. QED BY <1>2, <2>1, <2>2 DEF Schedule
  <1>. QED BY <1>3, <1>4

LEMMA PollDue ==
  ASSUME IInv, DueInv, NEW flush \in BOOLEAN, Poll(flush)
  PROVE  DueInv' /\ Kept
  <1>. DEFINE asked == IF flush THEN Request(Observed(Loaded), "Reading") ELSE Observed(Loaded)
              n == NextMode(asked)
  <1>1. Loaded \in Schedule BY LoadedFacts
  <1>2. /\ asked \in Schedule /\ asked.fullAge = Loaded.fullAge
        /\ Loaded.queued \in FullModes => asked.queued \in FullModes
    <2>1. "Reading" \in Modes BY DEF Modes
    <2>. QED BY <1>1, <2>1, ObservedDue, RequestFacts
  <1>3. asked.seen /\ Asks(asked, {})
    <2>1. "Reading" \in Modes /\ Asks(Loaded, {}) BY DEF Modes, Asks
    <2>2. LET r == Observed(Loaded) IN r \in Schedule /\ r.seen
      BY <1>1, <2>1, ObservedFacts
    <2>. QED BY <2>1, <2>2, RequestFacts DEF Asks
  <1>4. job = None /\ IF n.mode = None THEN Idle(n.schedule) ELSE Begin(n.schedule, n.mode)
    BY DEF Poll
  <1>. HIDE DEF asked
  <1>5. n.schedule \in Schedule /\ n.mode \in Modes \cup {"Statistics", None}
    BY <1>2, <1>3, NextModeFacts
  <1>6. /\ n.schedule.fullAge = asked.fullAge
        /\ n.mode = None => n.schedule.queued = asked.queued
        /\ n.mode # None /\ asked.queued \in FullModes => n.mode \in FullModes
    BY <1>2, NextModeDue
  <1>. HIDE DEF n
  <1>7. CASE n.mode = None
    <2>1. Due(Loaded) => Due(n.schedule) BY <1>2, <1>6, <1>7 DEF Due, Overdue
    <2>. QED BY <1>2, <1>4, <1>5, <1>6, <1>7, <2>1, IdleDue
  <1>8. CASE n.mode # None
    <2>1. Due(Loaded) => n.mode \in FullModes \/ Due(n.schedule)
      BY <1>2, <1>6, <1>8 DEF Due, Overdue
    <2>. QED BY <1>4, <1>5, <1>8, <2>1, BeginDue
  <1>. QED BY <1>7, <1>8

LEMMA ManualDue ==
  ASSUME IInv, DueInv, Manual
  PROVE  DueInv' /\ Kept
  <1>. DEFINE s == Observed(Loaded)
              r == Request(s, "Forced")
  <1>1. s \in Schedule /\ s.fullAge = Loaded.fullAge BY LoadedFacts, ObservedDue
  <1>2. job = None /\ IF s.limitIn > 0 THEN Idle(r) ELSE Begin(s, "Forced") BY DEF Manual
  <1>3. "Forced" \in Modes /\ "Forced" \in FullModes BY DEF Modes, FullModes
  <1>. HIDE DEF s
  <1>4. r \in Schedule /\ r.fullAge = s.fullAge /\ Due(r)
    BY <1>1, <1>3, RequestFacts DEF Due
  <1>. HIDE DEF r
  <1>. QED BY <1>1, <1>2, <1>3, <1>4, IdleDue, BeginDue

\* A job that fails or is cancelled leaves its copy, asking for its mode again.
LEMMA AgainDue ==
  ASSUME IInv, DueInv, job # None, NEW s \in Schedule, End(s), s.fullAge = local.fullAge,
         s.queued = IF job = "Statistics" THEN local.queued ELSE Request(local, job).queued
  PROVE  DueInv' /\ Kept
  <1>1. s.queued \in FullModes <=> job \in FullModes \/ local.queued \in FullModes
    <2>1. CASE job = "Statistics" BY <2>1 DEF FullModes
    <2>2. CASE job # "Statistics"
      <3>1. job \in Modes /\ local \in Schedule BY <2>2, JobFacts
      <3>. QED BY <2>2, <3>1, RequestFacts
    <2>. QED BY <2>1, <2>2
  <1>2. Loaded = active BY DEF IInv, OwedKept, Loaded
  <1>3. Due(Loaded) => Due(s) BY <1>1, <1>2 DEF DueInv, Due, Overdue
  <1>. QED BY <1>3, EndDue DEF Kept, Due, Overdue

\* The age of the last full check survives what does not count as one.
LEMMA AgeFacts ==
  ASSUME NEW s \in Schedule, NEW mode \in Modes \cup {"Statistics"}, NEW limited \in BOOLEAN
  PROVE  /\ Request(s, mode).fullAge = s.fullAge
         /\ Failed(s, mode, limited).fullAge = s.fullAge
         /\ Succeeded(s, mode).fullAge = IF mode \in FullModes THEN 0 ELSE s.fullAge
  <1>1. Request(s, mode).fullAge = s.fullAge
    BY DEF Request, Schedule
  <1>2. Failed(s, mode, limited).fullAge = s.fullAge
    <2>1. CASE mode = "Statistics" BY <2>1 DEF Failed, Schedule
    <2>2. CASE mode # "Statistics"
      <3>. DEFINE q == Request(s, mode)
      <3>1. q \in Schedule /\ q.fullAge = s.fullAge BY <2>2, RequestFacts
      <3>. HIDE DEF q
      <3>2. Failed(s, mode, limited).fullAge = q.fullAge
        BY <2>2, <3>1 DEF Failed, Schedule, q
      <3>. QED BY <3>1, <3>2
    <2>. QED BY <2>1, <2>2
  <1>3. Succeeded(s, mode).fullAge = IF mode \in FullModes THEN 0 ELSE s.fullAge
    BY DEF Succeeded, Schedule, FullModes
  <1>. QED BY <1>1, <1>2, <1>3

LEMMA FailureDue ==
  ASSUME IInv, DueInv, NEW limited \in BOOLEAN, Failure(limited)
  PROVE  DueInv' /\ Kept
  <1>1. job # None /\ End(Failed(local, job, limited)) BY DEF Failure
  <1>. QED BY <1>1, JobFacts, FailedFacts, AgeFacts, AgainDue

LEMMA CancelDue ==
  ASSUME IInv, DueInv, Cancel
  PROVE  DueInv' /\ Kept
  <1>. DEFINE s == Request(local, job)
  <1>1. job # None /\ End(s) BY DEF Cancel
  <1>2. /\ s \in Schedule
        /\ s.queued = IF job = "Statistics" THEN local.queued ELSE Request(local, job).queued
    <2>1. CASE job = "Statistics"
      <3>1. s = [local EXCEPT !.statisticsIn = IF @ = None THEN 0 ELSE @]
        BY <2>1 DEF Request
      <3>2. 0 \in Wait BY ScheduleAssumption DEF Wait
      <3>. QED BY <1>1, <2>1, <3>1, <3>2, JobFacts DEF Schedule
    <2>2. CASE job # "Statistics"
      <3>1. job \in Modes BY <1>1, <2>2, JobFacts
      <3>. QED BY <1>1, <2>2, <3>1, JobFacts, RequestFacts
    <2>. QED BY <2>1, <2>2
  <1>3. s.fullAge = local.fullAge BY <1>1, JobFacts, AgeFacts
  <1>. HIDE DEF s
  <1>. QED BY <1>1, <1>2, <1>3, AgainDue

\* Only the success of a full sync may take the check off.
LEMMA SuccessDue ==
  ASSUME IInv, DueInv, Success
  PROVE  /\ DueInv'
         /\ Kept \/ (job \in FullModes /\ job' = None /\ active'.fullAge = 0)
  <1>. DEFINE done == Succeeded(local, job)
  <1>1. job # None /\ job \in Modes \cup {"Statistics"} /\ local \in Schedule
    BY JobFacts DEF Success
  <1>2. /\ done \in Schedule /\ done.limitIn = 0 /\ done.queued = local.queued
        /\ done.fullAge = IF job \in FullModes THEN 0 ELSE local.fullAge
    BY <1>1, JobFacts, SucceededFacts, AgeFacts
  <1>3. \/ job \notin FullModes /\ End(done)
        \/ job \in FullModes /\ End(Succeeded(done, "Statistics"))
        \/ job \in FullModes /\ \E limited \in BOOLEAN : End(Failed(done, "Statistics", limited))
    BY DEF Success
  <1>. HIDE DEF done
  <1>4. CASE job \notin FullModes /\ End(done)
    <2>1. Loaded = active BY <1>1 DEF IInv, OwedKept, Loaded
    <2>2. Due(Loaded) => Due(done) BY <1>1, <1>2, <1>4, <2>1 DEF DueInv, Due, Overdue
    <2>. QED BY <1>2, <1>4, <2>2, EndDue DEF Kept, Due, Overdue
  <1>5. CASE job \in FullModes /\ End(Succeeded(done, "Statistics"))
    <2>. DEFINE s == Succeeded(done, "Statistics")
    <2>1. s \in Schedule BY <1>2, SucceededFacts
    <2>2. s.fullAge = 0 BY <1>2, <1>5, AgeFacts DEF FullModes
    <2>. QED BY <1>5, <2>1, <2>2, EndDue
  <1>6. ASSUME NEW limited \in BOOLEAN, job \in FullModes, End(Failed(done, "Statistics", limited))
        PROVE  DueInv' /\ job' = None /\ active'.fullAge = 0
    <2>. DEFINE s == Failed(done, "Statistics", limited)
    <2>1. s \in Schedule BY <1>2, FailedFacts
    <2>2. s.fullAge = 0 BY <1>2, <1>6, AgeFacts
    <2>. QED BY <1>6, <2>1, <2>2, EndDue
  <1>. QED BY <1>3, <1>4, <1>5, <1>6

LEMMA UnjournaledDue ==
  ASSUME IInv, DueInv, Unjournaled
  PROVE  DueInv' /\ Kept
  <1>1. /\ active' = Loaded /\ saved' = saved /\ job' = None /\ Loaded # None
    BY LoadedFacts, NoneApart DEF Unjournaled
  <1>2. Loaded' = Loaded BY <1>1 DEF Loaded
  <1>3. DueInv' BY <1>1, LoadedDue DEF DueInv
  <1>. QED BY <1>2, <1>3 DEF Kept, Due, Overdue

LEMMA LibraryDue ==
  ASSUME IInv, LibraryChanged
  PROVE  DueInv' /\ Kept
  <1>. DEFINE s == Request(Loaded, "Full")
  <1>1. "Full" \in Modes /\ "Full" \in FullModes BY DEF Modes, FullModes
  <1>2. s \in Schedule /\ Due(s) /\ s # None
    BY <1>1, LoadedFacts, RequestFacts, NoneApart DEF Due
  <1>3. active' = s /\ saved' = s /\ job' = None BY DEF LibraryChanged, Save
  <1>. HIDE DEF s
  <1>4. Loaded' = s BY <1>2, <1>3 DEF Loaded
  <1>. QED BY <1>2, <1>3, <1>4 DEF Kept, DueInv, Due, Overdue

LEMMA KillDue ==
  ASSUME IInv, DueInv, Kill
  PROVE  DueInv' /\ Kept
  <1>1. active' = None /\ job' = None /\ saved' = saved BY DEF Kill
  <1>2. DueInv' BY <1>1 DEF DueInv
  <1>3. ASSUME Due(Loaded) PROVE Due(Loaded)'
    <2>1. saved' \in Schedule \cup {None} BY <1>1 DEF IInv, TypeOK
    <2>2. saved' # None => Due(saved') BY <1>1, <1>3, LoadedDue DEF Due, Overdue
    <2>. QED BY <1>1, <2>1, <2>2, NewProcessDue DEF Due, Overdue
  <1>. QED BY <1>2, <1>3 DEF Kept

\* Time and new data.
LEMMA PassingDue ==
  ASSUME IInv, DueInv, Derive \/ Tick
  PROVE  DueInv' /\ Kept
  <1>. DEFINE Moved(s, t) ==
          /\ (t = None) = (s = None)
          /\ s # None => /\ t \in Schedule /\ t.queued = s.queued
                         /\ Overdue(s) => Overdue(t)
  <1>1. job' = job BY DEF Derive, Tick
  <1>2. /\ active \in Schedule \cup {None} /\ saved \in Schedule \cup {None}
        /\ local \in Schedule \cup {None}
        /\ job # None => active # None /\ local # None
    BY DEF IInv, TypeOK, OwedKept
  <1>3. Moved(active, active') /\ Moved(saved, saved') /\ Moved(local, local')
    <2>1. CASE Derive
      <3>1. active' = Unseen(active) /\ saved' = Unseen(saved) /\ local' = Unseen(local)
        BY <2>1 DEF Derive
      <3>2. Unseen(None) = None BY DEF Unseen
      <3>. QED BY <1>2, <3>1, <3>2, UnseenFacts, NoneApart DEF Overdue
    <2>2. CASE Tick
      <3>1. active' = Aged(active) /\ saved' = Aged(saved) /\ local' = Aged(local)
        BY <2>2 DEF Tick
      <3>2. Aged(None) = None BY DEF Aged
      <3>. QED BY <1>2, <3>1, <3>2, AgedFacts, NoneApart
    <2>. QED BY <2>1, <2>2
  <1>4. /\ active # None /\ saved # None => active'.fullAge = saved'.fullAge
        /\ job # None => local'.fullAge = active'.fullAge
    <2>1. CASE Derive
      <3>1. active' = Unseen(active) /\ saved' = Unseen(saved) /\ local' = Unseen(local)
        BY <2>1 DEF Derive
      <3>. QED BY <1>2, <3>1, UnseenFacts DEF DueInv
    <2>2. CASE Tick
      <3>1. active' = Aged(active) /\ saved' = Aged(saved) /\ local' = Aged(local)
        BY <2>2 DEF Tick
      <3>2. \A s \in Schedule : Aged(s).fullAge = More(s.fullAge, FullAfter)
        BY NoneApart DEF Aged, Schedule
      <3>. QED BY <1>2, <3>1, <3>2 DEF DueInv
    <2>. QED BY <2>1, <2>2
  <1>5. DueInv' BY <1>1, <1>2, <1>3, <1>4 DEF DueInv
  <1>6. ASSUME Due(Loaded) PROVE Due(Loaded)'
    <2>1. CASE active # None
      <3>1. Loaded = active /\ Loaded' = active' BY <1>3, <2>1 DEF Loaded
      <3>. QED BY <1>3, <1>6, <2>1, <3>1 DEF Due, Overdue
    <2>2. CASE active = None
      <3>1. active' = None /\ saved' \in Schedule \cup {None} BY <1>2, <1>3, <2>2
      <3>2. saved' # None => Due(saved')
        BY <1>3, <1>6, LoadedDue DEF Due, Overdue
      <3>. QED BY <3>1, <3>2, NewProcessDue DEF Due, Overdue
    <2>. QED BY <2>1, <2>2
  <1>. QED BY <1>5, <1>6 DEF Kept

LEMMA StillDue ==
  ASSUME DueInv, UNCHANGED <<active, saved, local, job>> \/ Unsaved
  PROVE  DueInv' /\ Kept
  <1>1. UNCHANGED <<active, saved>> /\ (UNCHANGED <<local, job>> \/ job' = None)
    BY DEF Unsaved
  <1>2. Loaded' = Loaded BY <1>1 DEF Loaded
  <1>. QED BY <1>1, <1>2 DEF DueInv, Kept, Due, Overdue

LEMMA StepDue ==
  IInv /\ DueInv /\ [Next]_vars =>
      DueInv' /\ (Kept \/ (job \in FullModes /\ job' = None /\ active'.fullAge = 0))
  <1>. SUFFICES ASSUME IInv, DueInv, [Next]_vars
       PROVE  DueInv' /\ (Kept \/ (job \in FullModes /\ job' = None /\ active'.fullAge = 0))
    OBVIOUS
  <1>1. CASE UNCHANGED vars BY <1>1, StillDue DEF vars
  <1>2. CASE Read BY <1>2, StillDue DEF Read
  <1>3. CASE Next /\ ~Read
    BY <1>3, PollDue, UnjournaledDue, ManualDue, LibraryDue, SuccessDue, FailureDue, StillDue,
       CancelDue, KillDue, PassingDue DEF Next
  <1>. QED BY <1>1, <1>2, <1>3

\* FullStaysDue: nothing but a full sync that succeeds takes a full check off the
\* schedule that the host has or would load.
THEOREM FullStaysDueAlways == Spec => FullStaysDue
  <1>1. Init => IInv /\ DueInv BY InitIInv DEF Init, DueInv
  <1>2. IInv /\ DueInv /\ [Next]_vars => (IInv /\ DueInv)' BY StepIInv, StepDue
  <1>3. IInv /\ DueInv /\ [Next]_vars =>
          [Due(Loaded) /\ ~Due(Loaded)' =>
              job \in FullModes /\ job' = None /\ active'.fullAge = 0]_vars
    BY StepDue DEF Kept
  <1>. QED BY <1>1, <1>2, <1>3, PTL DEF Spec, FullStaysDue
==============================================================================
