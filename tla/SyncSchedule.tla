---------------------------- MODULE SyncSchedule ----------------------------
(***************************************************************************)
(* When a library is synchronised, and how much of it: the schedule of     *)
(* sync/schedule.rs, in the hands of the Android host (cloud.rs), which    *)
(* keeps it in memory and in a file, journals a job before it runs it, and *)
(* may be killed at any time.                                              *)
(*                                                                         *)
(* Deadlines are the ticks that are left until them, so the file ages with *)
(* the clock, as ScheduleSnapshot does.  The growth of the delays with the *)
(* number of failures is left out.  owed, covered and quota are history:   *)
(* the modes asked for and not yet done, the changes a running job takes   *)
(* along, and how long the server wants to be left alone.                  *)
(***************************************************************************)
EXTENDS Integers

CONSTANTS FullAfter,       \* FULL_CHECK_INTERVAL
          ReadingDelay,    \* MAX_READING_DELAY
          RetryDelay,      \* RETRY_DELAY
          LimitDelay,      \* the delay a server asks for
          None             \* no mode, no deadline, no file

Modes == {"Reading", "Derived", "Full", "Forced"} \* Forced: Full with statistics

FullModes == {"Full", "Forced"}

Wait == 0..LimitDelay

Schedule ==
    [queued : Modes \cup {None},
     retryIn : Wait, limitIn : Wait, statisticsIn : Wait \cup {None},
     fullAge : 0..FullAfter,
     pendingAge : 0..ReadingDelay \cup {None},
     seen : BOOLEAN]  \* is derived_token the token of the data there is now?

ASSUME ScheduleAssumption ==
    /\ FullAfter \in Nat \ {0} /\ ReadingDelay \in Nat \ {0}
    /\ RetryDelay \in Nat \ {0} /\ LimitDelay \in Nat /\ LimitDelay >= RetryDelay
    /\ None \notin Modes \cup {"Statistics"} \cup Int \cup Schedule

VARIABLES active,   \* ACTIVE_SCHEDULE, None in a new process
          saved,    \* cloud-schedule-v1.json
          local,    \* the schedule of the running job
          job,      \* the mode of the running job
          latest,   \* pending reading changes: None, "fresh" or "quiet"
          owed, covered, quota

vars == <<active, saved, local, job, latest, owed, covered, quota>>

Fewer(n) == IF n = None \/ n = 0 THEN n ELSE n - 1

\* Mutant: ages grow without a bound.
MoreUnbounded(n, most) == IF n = None THEN n ELSE n + 1

More(n, most) == IF n = None \/ n = most THEN n ELSE n + 1
------------------------------------------------------------------------------
(* SyncSchedule.                                                           *)

New ==
    [queued |-> None, retryIn |-> 0, limitIn |-> 0, statisticsIn |-> None,
     fullAge |-> 0, pendingAge |-> None, seen |-> FALSE]

\* The stronger of what is queued and mode.
Request(s, mode) ==
    IF mode = "Statistics"
    THEN [s EXCEPT !.statisticsIn = IF @ = None THEN 0 ELSE @]
    ELSE [s EXCEPT !.queued = IF "Forced" \in {@, mode} THEN "Forced"
                              ELSE IF "Full" \in {@, mode} THEN "Full"
                              ELSE IF "Derived" \in {@, mode} THEN "Derived"
                              ELSE mode]

Overdue(s) == s.fullAge = FullAfter

Observed(s) == IF s.seen THEN s ELSE [Request(s, "Derived") EXCEPT !.seen = TRUE]

Started(s, mode) ==
    [s EXCEPT
       !.queued = IF \/ mode \in FullModes
                     \/ mode # "Statistics" /\ @ = "Reading"
                     \/ mode = "Derived" /\ @ = "Derived" THEN None ELSE @,
       !.pendingAge = IF mode # "Statistics" THEN None ELSE @]

\* What is due when nothing is queued, reading changes are sent if rested, and
\* the schedule after the question.
NextUnqueued(s, rested) ==
    LET looked == [s EXCEPT !.pendingAge = IF latest = None THEN None
                                           ELSE IF @ = None THEN 0 ELSE @]
    IN  IF latest # None /\ rested
        THEN [mode |-> "Reading", schedule |-> [s EXCEPT !.pendingAge = None]]
        ELSE IF s.statisticsIn = 0 /\ ~Overdue(s)
        THEN [mode |-> "Statistics", schedule |-> looked]
        ELSE [mode |-> IF Overdue(s) THEN "Full" ELSE None, schedule |-> looked]

\* Mutant: an overdue check waits until nothing else is queued.
NextPolite(s) ==
    IF s.retryIn > 0 THEN [mode |-> None, schedule |-> s]
    ELSE IF s.queued # None
    THEN [mode |-> s.queued, schedule |-> [s EXCEPT !.queued = None]]
    ELSE NextUnqueued(s, latest = "quiet" \/ s.pendingAge = ReadingDelay)

\* next: what is due, and the schedule after the question.
NextMode(s) ==
    IF s.retryIn > 0 THEN [mode |-> None, schedule |-> s]
    ELSE IF s.queued # None
    THEN [mode |-> IF Overdue(s) /\ s.queued = "Derived" THEN "Full" ELSE s.queued,
          schedule |-> [s EXCEPT !.queued = None]]
    ELSE NextUnqueued(s, latest = "quiet" \/ s.pendingAge = ReadingDelay)

\* completed_with_limit: mode failed, perhaps because the server limits us.
Failed(s, mode, limited) ==
    LET delay == IF limited THEN LimitDelay ELSE RetryDelay
    IN  IF mode = "Statistics"
        THEN [s EXCEPT !.statisticsIn = delay,
                       !.retryIn = IF limited THEN delay ELSE @,
                       !.limitIn = IF limited THEN delay ELSE @]
        ELSE [Request(s, mode) EXCEPT
                 !.retryIn = delay, !.limitIn = IF limited THEN delay ELSE @]

\* Mutant: any success counts as a full check.
SucceededAny(s, mode) ==
    IF mode = "Statistics" THEN [s EXCEPT !.statisticsIn = None]
    ELSE [s EXCEPT !.fullAge = 0, !.retryIn = 0, !.limitIn = 0]

Succeeded(s, mode) ==
    IF mode = "Statistics" THEN [s EXCEPT !.statisticsIn = None]
    ELSE [s EXCEPT !.fullAge = IF mode \in FullModes THEN 0 ELSE @,
                   !.retryIn = 0, !.limitIn = 0]

\* A snapshot read in a new process.
Restored(s) == IF Overdue(s) THEN Request(s, "Full") ELSE s

Aged(s) ==
    IF s = None THEN None
    ELSE [s EXCEPT !.retryIn = Fewer(@), !.limitIn = Fewer(@), !.statisticsIn = Fewer(@),
                   !.fullAge = More(@, FullAfter),
                   !.pendingAge = More(@, ReadingDelay)]

Unseen(s) == IF s = None THEN None ELSE [s EXCEPT !.seen = FALSE]
------------------------------------------------------------------------------
(* The host.                                                               *)

Init ==
    /\ active = None /\ saved = None /\ local = None /\ job = None
    /\ latest = None
    /\ owed = {"Full"} /\ covered = {}
    /\ quota = 0

\* load_schedule.
Loaded ==
    IF active # None THEN active
    ELSE IF saved # None THEN Restored(saved)
    ELSE Request(New, "Full")

Save(s) == active' = s /\ saved' = s

\* Mutant: the mode is not journaled before the job runs.
BeginUnjournaled(s, mode) ==
    /\ job' = mode
    /\ local' = Started(s, mode)
    /\ Save(Started(s, mode))
    /\ covered' = {"Reading", "Derived"}
    /\ UNCHANGED <<latest, quota>>

\* The job is journaled, then it runs.
Begin(s, mode) ==
    /\ job' = mode
    /\ local' = Started(s, mode)
    /\ Save(Request(Started(s, mode), mode))
    /\ covered' = {"Reading", "Derived"}
    /\ UNCHANGED <<latest, quota>>

Idle(s) ==
    /\ IF s # Loaded THEN Save(s) ELSE active' = Loaded /\ UNCHANGED saved
    /\ UNCHANGED <<local, job, latest, covered, quota>>

\* sync_scheduled, called by a timer or a background wake, or by leaving a book.
Poll(flush) ==
    /\ job = None
    /\ LET asked == IF flush THEN Request(Observed(Loaded), "Reading") ELSE Observed(Loaded)
           n == NextMode(asked)
       IN  IF n.mode = None THEN Idle(n.schedule) ELSE Begin(n.schedule, n.mode)
    /\ UNCHANGED owed

\* The schedule cannot be saved, so nothing is begun or asked for.
Unjournaled ==
    /\ job = None
    /\ active' = Loaded
    /\ UNCHANGED <<saved, local, job, latest, owed, covered, quota>>

\* Mutant: a sync by hand does not care about limits.
ManualAnyway ==
    /\ job = None
    /\ Begin(Observed(Loaded), "Forced")
    /\ owed' = owed \cup {"Forced"}

Manual ==
    /\ job = None
    /\ LET s == Observed(Loaded)
       IN  IF s.limitIn > 0 THEN Idle(Request(s, "Forced")) ELSE Begin(s, "Forced")
    /\ owed' = owed \cup {"Forced"}

\* A book was imported or removed.
LibraryChanged ==
    /\ job = None
    /\ Save(Request(Loaded, "Full"))
    /\ owed' = owed \cup {"Full"}
    /\ UNCHANGED <<local, job, latest, covered, quota>>

\* A job ends and its outcome is saved.
End(s) ==
    /\ Save(s)
    /\ job' = None
    /\ local' = None
    /\ covered' = {}

\* What the running job has done if it succeeds.
Done ==
    CASE job = "Forced" -> FullModes \cup (covered \ {"Reading"})
      [] job = "Full" -> {"Full"} \cup (covered \ {"Reading"})
      [] job = "Derived" -> covered \ {"Reading"}
      [] OTHER -> {}

\* The job succeeds; statistics, which a full sync may bring along, may fail
\* on their own.
Success ==
    /\ job # None
    /\ LET done == Succeeded(local, job)
       IN  \/ job \notin FullModes /\ End(done) /\ UNCHANGED quota
           \/ job \in FullModes /\ End(Succeeded(done, "Statistics")) /\ UNCHANGED quota
           \/ /\ job \in FullModes
              /\ \E limited \in BOOLEAN :
                    /\ End(Failed(done, "Statistics", limited))
                    /\ quota' = IF limited THEN LimitDelay ELSE quota
    /\ latest' = IF job # "Statistics" /\ "Reading" \in covered THEN None ELSE latest
    /\ owed' = owed \ Done

Failure(limited) ==
    /\ job # None
    /\ End(Failed(local, job, limited))
    /\ quota' = IF limited THEN LimitDelay ELSE quota
    /\ UNCHANGED <<latest, owed>>

\* The outcome cannot be saved: the journal stands.
Unsaved ==
    /\ job # None
    /\ job' = None
    /\ local' = None
    /\ covered' = {}
    /\ UNCHANGED <<active, saved, latest, owed, quota>>

Cancel ==
    /\ job # None
    /\ End(Request(local, job))
    /\ UNCHANGED <<latest, owed, quota>>

Kill ==
    /\ active # None
    /\ active' = None /\ local' = None /\ job' = None /\ covered' = {}
    /\ UNCHANGED <<saved, latest, owed, quota>>
------------------------------------------------------------------------------
(* The reader, the tasks that derive data, and the clock.                  *)

Read ==
    /\ latest' = "fresh"
    /\ covered' = covered \ {"Reading"}
    /\ UNCHANGED <<active, saved, local, job, owed, quota>>

Derive ==
    /\ active' = Unseen(active) /\ saved' = Unseen(saved) /\ local' = Unseen(local)
    /\ owed' = owed \cup {"Derived"}
    /\ covered' = covered \ {"Derived"}
    /\ UNCHANGED <<job, latest, quota>>

Tick ==
    /\ active' = Aged(active) /\ saved' = Aged(saved) /\ local' = Aged(local)
    /\ quota' = Fewer(quota)
    /\ latest' = IF latest = "fresh" THEN "quiet" ELSE latest
    /\ UNCHANGED <<job, owed, covered>>

Next ==
    \/ \E flush \in BOOLEAN : Poll(flush)
    \/ Unjournaled \/ Manual \/ LibraryChanged
    \/ Success \/ (\E limited \in BOOLEAN : Failure(limited)) \/ Unsaved \/ Cancel \/ Kill
    \/ Read \/ Derive \/ Tick

Spec == Init /\ [][Next]_vars

\* The timer's question between two flushes of the reader.
Wake == Loaded.queued # "Reading" /\ Poll(FALSE)

\* The timer asks every second, between two flushes of the reader as well.  Time
\* passes, and no job hangs or fails for ever.
FairSpec ==
    /\ Spec
    /\ WF_vars(Tick)
    /\ SF_vars(Poll(FALSE))
    /\ SF_vars(Wake)
    /\ SF_vars(Success)
------------------------------------------------------------------------------
(* Properties.                                                             *)

TypeOK ==
    /\ active \in Schedule \cup {None}
    /\ saved \in Schedule \cup {None}
    /\ local \in Schedule \cup {None}
    /\ job \in Modes \cup {"Statistics", None}
    /\ (job = None) = (local = None)
    /\ latest \in {None, "fresh", "quiet"}
    /\ owed \subseteq Modes
    /\ covered \subseteq {"Reading", "Derived"}
    /\ quota \in Wait

\* A schedule asks for everything that is owed.
AsksFor(s) ==
    /\ "Forced" \in owed => s.queued = "Forced"
    /\ "Full" \in owed => s.queued \in FullModes
    /\ "Derived" \in owed => ~s.seen \/ s.queued \in FullModes \cup {"Derived"}

\* What was asked for and has not been done is in the schedule, in memory and
\* on disk: jobs that fail, are cancelled or killed, saves that fail and
\* requests merged with stronger or weaker ones lose nothing.
NothingForgotten ==
    /\ active # None => AsksFor(active)
    /\ saved # None => AsksFor(Restored(saved))
    /\ saved = None /\ active = None => AsksFor(Request(New, "Full"))

\* No job starts before the time a server has asked for, by hand or after a
\* restart either.
LimitRespected == [][job = None /\ job' # None => quota = 0]_vars

\* A full check is due, by time or on request.
Due(s) == Overdue(s) \/ s.queued \in FullModes

\* Nothing but a full sync that succeeds takes a full check off the schedule that
\* the host has or would load: not the jobs that go first, not a failure, a
\* cancellation or a save that fails, and not a process that is killed.
FullStaysDue ==
    [][Due(Loaded) /\ ~Due(Loaded)' =>
          job \in FullModes /\ job' = None /\ active'.fullAge = 0]_vars

\* A full check that is overdue is started although data is derived all the
\* time, statistics fail and processes are killed; only reading changes go first.
FullNotPostponed ==
    active # None /\ Overdue(active) ~> job \in FullModes \/ latest # None
==============================================================================
