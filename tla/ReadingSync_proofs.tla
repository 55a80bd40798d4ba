-------------------------- MODULE ReadingSync_proofs --------------------------
(***************************************************************************)
(* Proofs about ReadingSync, for any number of devices and books and any   *)
(* bounds: type correctness, and the safety of the upload half, whatever   *)
(* the jobs, aborts and lost files do: an acknowledged change is on the    *)
(* server and announced.                                                   *)
(*                                                                         *)
(* acked <= recorded.rev <= state.rev is what is kept: the local index     *)
(* stands between the acknowledgement and the file.  The published index   *)
(* only trails the local one, and while it does so the book is either      *)
(* unacknowledged or the index is flagged for publication.                 *)
(***************************************************************************)
EXTENDS ReadingSync, TLAPS

-----------------------------------------------------------------------------
(* Type correctness *)

LEMMA InitTypeOK == Init => TypeOK
  <1>1. NoStamp \in Stamp /\ NoIndex \in [Book -> Stamp] BY DEF NoStamp, Stamp, NoIndex
  <1>2. (CHOOSE b \in Book : TRUE) \in Book BY BoundsAssumption
  <1>3. NoPlan \in PlanType BY <1>1 DEF NoPlan, PlanType
  <1>. SUFFICES ASSUME Init PROVE TypeOK OBVIOUS
  <1>. USE BoundsAssumption, <1>1, <1>2, <1>3 DEF Init
  <1>4. StoreOK BY DEF StoreOK
  <1>5. CacheOK BY DEF CacheOK
  <1>6. ServerOK BY DEF ServerOK
  <1>7. JobOK BY DEF JobOK, Steps
  <1>8. EnvOK BY DEF EnvOK
  <1>. QED BY <1>4, <1>5, <1>6, <1>7, <1>8 DEF TypeOK

\* A helper of the job's end: all of its variables are reset within their types.
LEMMA ForgetOK ==
  ASSUME JobOK, NEW d \in Device, NEW s \in Steps, Goto(d, s), Forget(d),
         arrived' \in [Device -> SUBSET Book]
  PROVE  JobOK'
  <1>1. NoStamp \in Stamp BY DEF NoStamp, Stamp
  <1>2. NoPlan \in PlanType BY <1>1 DEF NoPlan, PlanType, NoIndex
  <1>. QED BY <1>1, <1>2, BoundsAssumption DEF JobOK, Forget, Goto

LEMMA LeavePublishOK ==
  ASSUME JobOK, NEW d \in Device, LeavePublish(d)
  PROVE  JobOK'
  <1>1. AfterPublish(d) \in Steps BY DEF AfterPublish, Steps
  <1>2. CASE AfterPublish(d) = "idle" BY <1>1, <1>2, ForgetOK DEF LeavePublish, JobOK
  <1>3. CASE AfterPublish(d) # "idle" BY <1>1, <1>3 DEF LeavePublish, Goto, JobOK, loopVars, handVars
  <1>. QED BY <1>2, <1>3

\* What a full job plans from the server's listing has the type of a plan.
LEMMA NewPlanOK ==
  ASSUME TypeOK, NEW d \in Device
  PROVE  /\ NewPlan(d) \in PlanType
         /\ Marks(d) \in [Book -> SUBSET [Device -> Stamp]]
         /\ Chosen(d) \subseteq Book
  <1>. USE DEF TypeOK, ServerOK, StoreOK, CacheOK
  <1>1. NoIndex \in [Book -> Stamp] BY DEF NoIndex, NoStamp, Stamp
  <1>2. Remote \subseteq Book /\ Local(d) \subseteq Book
    BY DEF Remote, Local, JobOK, PlanType
  <1>3. Peers(d) \subseteq Device BY DEF Peers
  <1>. DEFINE from == (Peers(d) \cup {d}) \cap indexed
              p == [books |-> Remote \cup Local(d), shelf |-> Local(d),
                    peers |-> Peers(d), from |-> from, reading |-> Chosen(d),
                    index |-> [q \in Device |-> IF q \in from THEN index[q] ELSE NoIndex],
                    audit |-> auditDue[d], resumable |-> Peers(d) \subseteq indexed]
              unfinished == {b \in p.reading : ~Completed(d, p, Marks(d), b)}
  <1>4. NewPlan(d) \in PlanType
    <2>1. NewPlan(d) = [p EXCEPT !.reading = unfinished] BY DEF NewPlan
    <2>2. Chosen(d) \subseteq Book BY <1>2 DEF Chosen
    <2>3. p \in PlanType BY <1>1, <1>2, <1>3, <2>2 DEF PlanType
    <2>4. unfinished \in SUBSET Book BY <2>2
    <2>. HIDE DEF unfinished, p
    <2>5. ASSUME NEW u \in SUBSET Book PROVE [p EXCEPT !.reading = u] \in PlanType
      BY <2>3 DEF PlanType
    <2>. QED BY <2>1, <2>4, <2>5
  <1>5. Marks(d) \in [Book -> SUBSET [Device -> Stamp]] BY DEF Marks
  <1>6. Chosen(d) \subseteq Book BY <1>2 DEF Chosen
  <1>. QED BY <1>4, <1>5, <1>6

\* Taking a book for comparison sets the variables of the book in hand.
LEMMA TakeOK ==
  ASSUME TypeOK, NEW d \in Device, NEW b \in Book, NEW P, Take(d, b, P)
  PROVE  /\ book' \in [Device -> Book]
         /\ snap' \in [Device -> Nat]
         /\ pushed' \in [Device -> BOOLEAN]
         /\ listing' \in [Device -> [Device -> Stamp]]
         /\ pc' \in [Device -> Steps]
  <1>. USE DEF TypeOK, StoreOK, ServerOK, JobOK
  <1>1. NoStamp \in Stamp BY DEF NoStamp, Stamp
  <1>2. book' \in [Device -> Book] BY DEF Take
  <1>3. snap' \in [Device -> Nat] BY DEF Take
  <1>4. pushed' \in [Device -> BOOLEAN]
    <2>1. \A repair \in Repairs(d, b) : (b \in P \/ repair) \in BOOLEAN BY DEF Repairs
    <2>. QED BY <2>1 DEF Take
  <1>5. listing' \in [Device -> [Device -> Stamp]] BY <1>1 DEF Take, ListFiles
  <1>6. pc' \in [Device -> Steps] BY DEF Take, Goto, Steps
  <1>. QED BY <1>2, <1>3, <1>4, <1>5, <1>6

LEMMA StepTypeOK == TypeOK /\ [Next]_vars => TypeOK'
  <1>. SUFFICES ASSUME TypeOK, [Next]_vars PROVE TypeOK' OBVIOUS
  <1>. USE DEF TypeOK, storeVars, cacheVars, indexVars, appliedVars, sessionVars, serverVars, jobVars,
             loopVars, handVars, planVars, envVars
  <1>1. ASSUME NEW d \in Device, NEW b \in Book, Edit(d, b) PROVE TypeOK'
    <2>1. StoreOK' BY <1>1 DEF Edit, StoreOK
    <2>. QED BY <1>1, <2>1 DEF Edit, CacheOK, ServerOK, JobOK, EnvOK
  <1>2. ASSUME NEW d \in Device, NEW b \in Book, RemoveBook(d, b) PROVE TypeOK'
    <2>1. StoreOK' BY <1>2 DEF RemoveBook, StoreOK
    <2>2. EnvOK' BY <1>2 DEF RemoveBook, EnvOK
    <2>. QED BY <1>2, <2>1, <2>2 DEF RemoveBook, CacheOK, ServerOK, JobOK
  <1>3. ASSUME NEW d \in Device, NEW b \in Book, RestoreBook(d, b) PROVE TypeOK'
    <2>1. StoreOK' BY <1>3 DEF RestoreBook, StoreOK
    <2>. QED BY <1>3, <2>1 DEF RestoreBook, CacheOK, ServerOK, JobOK, EnvOK
  <1>4. ASSUME NEW d \in Device, NEW m \in {"reading", "full"}, StartSync(d, m) PROVE TypeOK'
    <2>1. plan' \in [Device -> PlanType]
      <3>. DEFINE books == IF m = "full" THEN Shelf(d) ELSE {}
      <3>1. books \in SUBSET Book BY DEF Shelf
      <3>2. plan[d] \in PlanType /\ plan' = [plan EXCEPT ![d].shelf = books]
        BY <1>4 DEF StartSync, JobOK
      <3>. HIDE DEF books
      <3>3. [plan[d] EXCEPT !.shelf = books] \in PlanType BY <3>1, <3>2 DEF PlanType
      <3>. QED BY <3>2, <3>3 DEF JobOK
    <2>2. JobOK' BY <1>4, <2>1 DEF StartSync, JobOK, PendingReading, Goto, Steps
    <2>. QED BY <1>4, <2>2 DEF StartSync, StoreOK, CacheOK, ServerOK, EnvOK
  <1>5. ASSUME NEW d \in Device, Snapshot(d) PROVE TypeOK'
    <2>1. JobOK' BY <1>5 DEF Snapshot, TakeSnapshot, JobOK, StoreOK, Goto, Steps
    <2>. QED BY <1>5, <2>1 DEF Snapshot, TakeSnapshot, StoreOK, CacheOK, ServerOK, EnvOK
  <1>6. ASSUME NEW d \in Device, PutState(d) PROVE TypeOK'
    <2>1. ServerOK' BY <1>6 DEF PutState, ServerOK, JobOK, EnvOK, Stamp
    <2>2. JobOK' BY <1>6 DEF PutState, JobOK, Goto, Steps
    <2>3. EnvOK' BY <1>6 DEF PutState, EnvOK, JobOK
    <2>. QED BY <1>6, <2>1, <2>2, <2>3 DEF PutState, StoreOK, CacheOK
  <1>7. ASSUME NEW d \in Device, RecordToken(d) PROVE TypeOK'
    <2>1. CacheOK' BY <1>7 DEF RecordToken, NewToken, CacheOK, JobOK, EnvOK, Stamp
    <2>2. JobOK' BY <1>7 DEF RecordToken, NewToken, AfterRecord, JobOK, Goto, Steps
    <2>. QED BY <1>7, <2>1, <2>2 DEF RecordToken, NewToken, StoreOK, ServerOK, EnvOK
  <1>8. ASSUME NEW d \in Device, RecordFlag(d) PROVE TypeOK'
    <2>1. CacheOK' BY <1>8 DEF RecordFlag, CacheOK
    <2>2. JobOK' BY <1>8 DEF RecordFlag, AfterRecord, JobOK, Goto, Steps
    <2>. QED BY <1>8, <2>1, <2>2 DEF RecordFlag, StoreOK, ServerOK, EnvOK
  <1>9. ASSUME NEW d \in Device, ListStates(d) PROVE TypeOK'
    <2>1. JobOK' BY <1>9 DEF ListStates, JobOK, ListFiles, ServerOK, NoStamp, Stamp, Goto, Steps
    <2>. QED BY <1>9, <2>1 DEF ListStates, StoreOK, CacheOK, ServerOK, EnvOK
  <1>10. ASSUME NEW d \in Device, SkipState(d) PROVE TypeOK'
    <2>1. JobOK' BY <1>10 DEF SkipState, JobOK, Unlist, Listed, NoStamp, Stamp
    <2>. QED BY <1>10, <2>1 DEF SkipState, StoreOK, CacheOK, ServerOK, EnvOK
  <1>11. ASSUME NEW d \in Device, MergeState(d) PROVE TypeOK'
    <2>1. StoreOK' BY <1>11 DEF MergeState, StoreOK, Listed, Fetched, ServerOK, JobOK
    <2>2. JobOK' BY <1>11 DEF MergeState, JobOK, Listed, Fetched, ServerOK, NoStamp, Goto, Steps
    <2>. QED BY <1>11, <2>1, <2>2 DEF MergeState, CacheOK, ServerOK, EnvOK
  <1>12. ASSUME NEW d \in Device, MarkApplied(d) PROVE TypeOK'
    <2>1. CacheOK' BY <1>12, SMTT(20) DEF MarkApplied, CacheOK, JobOK
    <2>2. JobOK' BY <1>12 DEF MarkApplied, JobOK, Unlist, NoStamp, Stamp, Goto, Steps
    <2>. QED BY <1>12, <2>1, <2>2 DEF MarkApplied, StoreOK, ServerOK, EnvOK
  <1>13. ASSUME NEW d \in Device, AckReading(d) PROVE TypeOK'
    <2>1. StoreOK' BY <1>13 DEF AckReading, AtAcknowledge, StoreOK, JobOK, Acknowledged
    <2>2. JobOK' BY <1>13 DEF AckReading, AtAcknowledge, JobOK, Acknowledged, Goto, Steps
    <2>. QED BY <1>13, <2>1, <2>2 DEF AckReading, AtAcknowledge, Acknowledged, CacheOK, ServerOK, EnvOK
  <1>14. ASSUME NEW d \in Device, PublishNothing(d) PROVE TypeOK'
    <2>1. JobOK' BY <1>14, LeavePublishOK DEF PublishNothing
    <2>. QED BY <1>14, <2>1 DEF PublishNothing, StoreOK, CacheOK, ServerOK, EnvOK
  <1>15. ASSUME NEW d \in Device, PublishIndex(d) PROVE TypeOK'
    <2>1. ServerOK' BY <1>15 DEF PublishIndex, ServerOK, Extended, CacheOK
    <2>2. JobOK' BY <1>15 DEF PublishIndex, JobOK, Goto, Steps
    <2>. QED BY <1>15, <2>1, <2>2 DEF PublishIndex, StoreOK, CacheOK, EnvOK
  <1>16. ASSUME NEW d \in Device, PublishDone(d) PROVE TypeOK'
    <2>1. CacheOK' BY <1>16 DEF PublishDone, CacheOK, ServerOK
    <2>2. JobOK' BY <1>16, LeavePublishOK DEF PublishDone
    <2>. QED BY <1>16, <2>1, <2>2 DEF PublishDone, StoreOK, ServerOK, EnvOK
  <1>17. ASSUME NEW d \in Device, Prepare(d) PROVE TypeOK'
    <2>1. CacheOK' BY <1>17, NewPlanOK DEF Prepare, CacheOK, ServerOK, Peers
    <2>2. JobOK' BY <1>17, NewPlanOK DEF Prepare, JobOK, Goto, Steps
    <2>. QED BY <1>17, <2>1, <2>2 DEF Prepare, StoreOK, ServerOK, EnvOK
  <1>18. ASSUME NEW d \in Device, PublishLibrary(d) PROVE TypeOK'
    <2>1. ServerOK' BY <1>18 DEF PublishLibrary, ServerOK, Shelf
    <2>2. JobOK' BY <1>18 DEF PublishLibrary, JobOK, PlanType, Goto, Steps
    <2>. QED BY <1>18, <2>1, <2>2 DEF PublishLibrary, StoreOK, CacheOK, EnvOK
  <1>19. ASSUME NEW d \in Device, Download(d) PROVE TypeOK'
    <2>1. PICK b \in fetch[d] :
             /\ fetch' = [fetch EXCEPT ![d] = @ \ {b}]
             /\ IF b \in plan[d].reading
                THEN Take(d, b, PendingReading(d))
                ELSE /\ book' = [book EXCEPT ![d] = b]
                     /\ Goto(d, "deliver")
                     /\ UNCHANGED <<snap, pushed, listing>>
      BY <1>19 DEF Download
    <2>2. b \in Book /\ fetch' \in [Device -> SUBSET Book] BY <2>1 DEF JobOK
    <2>3. UNCHANGED <<mode, loop, todo, due, peer, plan, arrived>> BY <1>19 DEF Download
    <2>4. JobOK'
      <3>1. CASE b \in plan[d].reading
        BY <2>1, <2>2, <2>3, <3>1, TakeOK DEF JobOK
      <3>2. CASE b \notin plan[d].reading
        BY <2>1, <2>2, <2>3, <3>2, ZenonT(40) DEF JobOK, Goto, Steps
      <3>. QED BY <3>1, <3>2
    <2>. QED BY <1>19, <2>4 DEF Download, StoreOK, CacheOK, ServerOK, EnvOK
  <1>20. ASSUME NEW d \in Device, BeginPlan(d) PROVE TypeOK'
    <2>1. JobOK' BY <1>20 DEF BeginPlan, JobOK, PendingReading, PlanType, Goto, Steps
    <2>. QED BY <1>20, <2>1 DEF BeginPlan, StoreOK, CacheOK, ServerOK, EnvOK
  <1>21. ASSUME NEW d \in Device, PlanBook(d) PROVE TypeOK'
    <2>1. PICK b \in todo[d] : /\ todo' = [todo EXCEPT ![d] = @ \ {b}]
                               /\ Take(d, b, due[d])
      BY <1>21 DEF PlanBook
    <2>2. b \in Book /\ todo' \in [Device -> SUBSET Book] BY <2>1 DEF JobOK
    <2>3. UNCHANGED <<mode, loop, due, fetch, peer, plan, arrived>> BY <1>21 DEF PlanBook
    <2>4. JobOK' BY <2>1, <2>2, <2>3, TakeOK DEF JobOK
    <2>. QED BY <1>21, <2>4 DEF PlanBook, StoreOK, CacheOK, ServerOK, EnvOK
  <1>22. ASSUME NEW d \in Device, Checkpoint(d) PROVE TypeOK'
    <2>1. CacheOK' BY <1>22, SMTT(20) DEF Checkpoint, CacheOK, JobOK, CheckpointValue, NoStamp, PlanType, Stamp
    <2>2. JobOK' BY <1>22 DEF Checkpoint, JobOK, Goto, Steps
    <2>. QED BY <1>22, <2>1, <2>2 DEF Checkpoint, StoreOK, ServerOK, EnvOK
  <1>23. ASSUME NEW d \in Device, AckIndex(d) PROVE TypeOK'
    <2>1. CacheOK' BY <1>23 DEF AckIndex, CacheOK, JobOK, PlanType
    <2>2. JobOK'
      <3>1. PICK q \in plan[d].from :
                plan' = [plan EXCEPT ![d].from = plan[d].from \ {q}]
        BY <1>23 DEF AckIndex
      <3>2. plan[d] \in PlanType BY DEF JobOK
      <3>3. [plan[d] EXCEPT !.from = plan[d].from \ {q}] \in PlanType BY <3>2 DEF PlanType
      <3>. QED BY <1>23, <3>1, <3>3 DEF AckIndex, JobOK
    <2>. QED BY <1>23, <2>1, <2>2 DEF AckIndex, StoreOK, ServerOK, EnvOK
  <1>24. ASSUME NEW d \in Device, AckBooks(d) PROVE TypeOK'
    <2>1. CacheOK' BY <1>24 DEF AckBooks, CacheOK, JobOK, PlanType
    <2>2. JobOK' BY <1>24 DEF AckBooks, JobOK, Goto, Steps
    <2>. QED BY <1>24, <2>1, <2>2 DEF AckBooks, StoreOK, ServerOK, EnvOK
  <1>25. ASSUME NEW d \in Device, AckAudit(d) PROVE TypeOK'
    <2>1. CacheOK' BY <1>25 DEF AckAudit, CacheOK, EndSession
    <2>2. JobOK' BY <1>25 DEF AckAudit, JobOK, Goto, Steps
    <2>. QED BY <1>25, <2>1, <2>2 DEF AckAudit, StoreOK, ServerOK, EnvOK
  <1>26. ASSUME NEW d \in Device, AckSession(d) PROVE TypeOK'
    <2>1. CacheOK' BY <1>26 DEF AckSession, CacheOK, EndSession
    <2>2. JobOK' BY <1>26, ForgetOK DEF AckSession, JobOK, Steps
    <2>. QED BY <1>26, <2>1, <2>2 DEF AckSession, StoreOK, ServerOK, EnvOK
  <1>27. ASSUME NEW d \in Device, Abort(d) PROVE TypeOK'
    <2>1. JobOK' BY <1>27, ForgetOK DEF Abort, JobOK, Steps
    <2>2. EnvOK' BY <1>27 DEF Abort, EnvOK
    <2>. QED BY <1>27, <2>1, <2>2 DEF Abort, StoreOK, CacheOK, ServerOK
  <1>28. ASSUME NEW d \in Device, AuditExpires(d) PROVE TypeOK'
    <2>1. CacheOK' BY <1>28 DEF AuditExpires, CacheOK
    <2>. QED BY <1>28, <2>1 DEF AuditExpires, StoreOK, ServerOK, JobOK, EnvOK
  <1>29. ASSUME NEW d \in Device, NEW b \in Book, LoseState(d, b) PROVE TypeOK'
    <2>1. ServerOK' BY <1>29 DEF LoseState, ServerOK, NoStamp, Stamp
    <2>2. EnvOK' BY <1>29 DEF LoseState, EnvOK
    <2>. QED BY <1>29, <2>1, <2>2 DEF LoseState, StoreOK, CacheOK, JobOK
  <1>30. ASSUME NEW d \in Device, Import(d) PROVE TypeOK'
    <2>1. StoreOK' /\ JobOK' BY <1>30 DEF Import, StoreOK, JobOK
    <2>. QED BY <1>30, <2>1 DEF Import, CacheOK, ServerOK, EnvOK
  <1>31. ASSUME NEW d \in Device, Deliver(d) PROVE TypeOK'
    <2>1. JobOK' BY <1>31 DEF Deliver, JobOK, Goto, Steps
    <2>. QED BY <1>31, <2>1 DEF Deliver, StoreOK, CacheOK, ServerOK, EnvOK
  <1>32. CASE UNCHANGED vars
    BY <1>32 DEF vars, StoreOK, CacheOK, ServerOK, JobOK, EnvOK
  <1>. QED
    BY <1>1, <1>2, <1>3, <1>4, <1>5, <1>6, <1>7, <1>8, <1>9, <1>10, <1>11, <1>12, <1>13, <1>14, <1>15, <1>16, <1>17, <1>18, <1>19, <1>20, <1>21, <1>22, <1>23, <1>24, <1>25, <1>26, <1>27, <1>28, <1>29, <1>30, <1>31, <1>32
    DEF Next, Environment, Reader, Job, Upload, Merge, Publish, PlanAndAck

THEOREM TypeCorrect == Spec => []TypeOK
  <1>. QED BY InitTypeOK, StepTypeOK, PTL DEF Spec

-----------------------------------------------------------------------------
(* What no step undoes *)

\* Stores, uploads, the server's listings and the history only grow.
Grows ==
    /\ \A d, p \in Device, b \in Book : merged[d][p][b].ver <= merged'[d][p][b].ver
    /\ \A p \in Device, b \in Book : uploads[p][b] <= uploads'[p][b]
    /\ listedIn \subseteq listedIn' /\ indexed \subseteq indexed'
    /\ left \subseteq left' /\ lost \subseteq lost'

LEMMA StepGrows == TypeOK /\ [Next]_vars => Grows
  <1>. SUFFICES ASSUME TypeOK, [Next]_vars PROVE Grows OBVIOUS
  <1>. USE DEF TypeOK, StoreOK, ServerOK, EnvOK, Stamp, Grows,
               storeVars, serverVars, envVars
  <1>1. ASSUME NEW e \in Device, NEW b \in Book, Edit(e, b) PROVE Grows
    BY <1>1 DEF Edit
  <1>2. ASSUME NEW e \in Device, NEW b \in Book, RemoveBook(e, b) PROVE Grows
    BY <1>2 DEF RemoveBook
  <1>3. ASSUME NEW e \in Device, NEW b \in Book, RestoreBook(e, b) PROVE Grows
    BY <1>3 DEF RestoreBook
  <1>4. ASSUME NEW e \in Device, NEW m \in {"reading", "full"}, StartSync(e, m) PROVE Grows
    BY <1>4 DEF StartSync
  <1>5. ASSUME NEW e \in Device, Snapshot(e) PROVE Grows
    BY <1>5 DEF Snapshot, TakeSnapshot
  <1>6. ASSUME NEW e \in Device, PutState(e) PROVE Grows
    BY <1>6 DEF PutState
  <1>7. ASSUME NEW e \in Device, RecordToken(e) PROVE Grows
    BY <1>7 DEF RecordToken, NewToken
  <1>8. ASSUME NEW e \in Device, RecordFlag(e) PROVE Grows
    BY <1>8 DEF RecordFlag
  <1>9. ASSUME NEW e \in Device, ListStates(e) PROVE Grows
    BY <1>9 DEF ListStates
  <1>10. ASSUME NEW e \in Device, SkipState(e) PROVE Grows
    BY <1>10 DEF SkipState
  <1>11. ASSUME NEW e \in Device, MergeState(e) PROVE Grows
    <2>0. PICK p \in Listed(e) : \E f \in Fetched(e, p) :
             merged' = [merged EXCEPT ![e][p][book[e]] = IF AtLeast(@, f) THEN @ ELSE f]
      BY <1>11 DEF MergeState
    <2>1. PICK f \in Fetched(e, p) :
             merged' = [merged EXCEPT ![e][p][book[e]] = IF AtLeast(@, f) THEN @ ELSE f]
      BY <2>0
    <2>2. p \in Device /\ f \in Stamp /\ book[e] \in Book
      BY DEF Listed, Fetched, JobOK
    <2>3. merged[e][p][book[e]].ver <= merged'[e][p][book[e]].ver
      BY <2>1, <2>2 DEF AtLeast
    <2>4. \A d, q \in Device, b \in Book :
             merged[d][q][b].ver <= merged'[d][q][b].ver
      BY <2>1, <2>2, <2>3
    <2>. QED BY <1>11, <2>4 DEF MergeState
  <1>12. ASSUME NEW e \in Device, MarkApplied(e) PROVE Grows
    BY <1>12 DEF MarkApplied
  <1>13. ASSUME NEW e \in Device, AckReading(e) PROVE Grows
    BY <1>13 DEF AckReading, Acknowledged
  <1>14. ASSUME NEW e \in Device, PublishNothing(e) PROVE Grows
    BY <1>14 DEF PublishNothing
  <1>15. ASSUME NEW e \in Device, PublishIndex(e) PROVE Grows
    BY <1>15 DEF PublishIndex
  <1>16. ASSUME NEW e \in Device, PublishDone(e) PROVE Grows
    BY <1>16 DEF PublishDone
  <1>17. ASSUME NEW e \in Device, Prepare(e) PROVE Grows
    BY <1>17 DEF Prepare
  <1>18. ASSUME NEW e \in Device, PublishLibrary(e) PROVE Grows
    BY <1>18 DEF PublishLibrary
  <1>19. ASSUME NEW e \in Device, Download(e) PROVE Grows
    BY <1>19 DEF Download
  <1>20. ASSUME NEW e \in Device, BeginPlan(e) PROVE Grows
    BY <1>20 DEF BeginPlan
  <1>21. ASSUME NEW e \in Device, PlanBook(e) PROVE Grows
    BY <1>21 DEF PlanBook
  <1>22. ASSUME NEW e \in Device, Checkpoint(e) PROVE Grows
    BY <1>22 DEF Checkpoint
  <1>23. ASSUME NEW e \in Device, AckIndex(e) PROVE Grows
    BY <1>23 DEF AckIndex
  <1>24. ASSUME NEW e \in Device, AckBooks(e) PROVE Grows
    BY <1>24 DEF AckBooks
  <1>25. ASSUME NEW e \in Device, AckAudit(e) PROVE Grows
    BY <1>25 DEF AckAudit
  <1>26. ASSUME NEW e \in Device, AckSession(e) PROVE Grows
    BY <1>26 DEF AckSession
  <1>27. ASSUME NEW e \in Device, Abort(e) PROVE Grows
    BY <1>27 DEF Abort
  <1>28. ASSUME NEW e \in Device, AuditExpires(e) PROVE Grows
    BY <1>28 DEF AuditExpires
  <1>29. ASSUME NEW e \in Device, NEW b \in Book, LoseState(e, b) PROVE Grows
    BY <1>29 DEF LoseState
  <1>30. ASSUME NEW e \in Device, Import(e) PROVE Grows
    BY <1>30 DEF Import
  <1>31. ASSUME NEW e \in Device, Deliver(e) PROVE Grows
    BY <1>31 DEF Deliver
  <1>32. CASE UNCHANGED vars BY <1>32 DEF vars
  <1>. QED
    BY <1>1, <1>2, <1>3, <1>4, <1>5, <1>6, <1>7, <1>8, <1>9, <1>10, <1>11, <1>12, <1>13, <1>14, <1>15, <1>16, <1>17, <1>18, <1>19, <1>20, <1>21, <1>22, <1>23, <1>24, <1>25, <1>26, <1>27, <1>28, <1>29, <1>30, <1>31, <1>32
    DEF Next, Environment, Reader, Job, Upload, Merge, Publish, PlanAndAck

\* What the invariants say of a device's store, shelf, cache and job.
Same(d) ==
    UNCHANGED <<membership[d], merged[d], digest[d], applied[d], appliedFrom[d],
                known[d], checkpoint[d], pc[d], mode[d], loop[d], todo[d], book[d],
                pushed[d], listing[d], peer[d], plan[d], arrived[d]>>

\* No step of one device disturbs another.
LEMMA StepSame ==
  ASSUME TypeOK, NEW e \in Device, NEW d \in Device, d # e
  PROVE
    /\ \A b \in Book : Edit(e, b) => Same(d)
    /\ \A b \in Book : RemoveBook(e, b) => Same(d)
    /\ \A b \in Book : RestoreBook(e, b) => Same(d)
    /\ \A m \in {"reading", "full"} : StartSync(e, m) => Same(d)
    /\ Snapshot(e) => Same(d)
    /\ PutState(e) => Same(d)
    /\ RecordToken(e) => Same(d)
    /\ RecordFlag(e) => Same(d)
    /\ ListStates(e) => Same(d)
    /\ SkipState(e) => Same(d)
    /\ MergeState(e) => Same(d)
    /\ MarkApplied(e) => Same(d)
    /\ AckReading(e) => Same(d)
    /\ PublishNothing(e) => Same(d)
    /\ PublishIndex(e) => Same(d)
    /\ PublishDone(e) => Same(d)
    /\ Prepare(e) => Same(d)
    /\ PublishLibrary(e) => Same(d)
    /\ Download(e) => Same(d)
    /\ BeginPlan(e) => Same(d)
    /\ PlanBook(e) => Same(d)
    /\ Checkpoint(e) => Same(d)
    /\ AckIndex(e) => Same(d)
    /\ AckBooks(e) => Same(d)
    /\ AckAudit(e) => Same(d)
    /\ AckSession(e) => Same(d)
    /\ Abort(e) => Same(d)
    /\ AuditExpires(e) => Same(d)
    /\ \A b \in Book : LoseState(e, b) => Same(d)
    /\ Import(e) => Same(d)
    /\ Deliver(e) => Same(d)
  <1>. USE DEF TypeOK, StoreOK, CacheOK, JobOK, Same, Goto, storeVars, cacheVars, indexVars, appliedVars, sessionVars, serverVars,
             jobVars, loopVars, handVars, planVars, envVars
  <1>1. \A b \in Book : Edit(e, b) => Same(d) BY DEF Edit
  <1>2. \A b \in Book : RemoveBook(e, b) => Same(d) BY DEF RemoveBook
  <1>3. \A b \in Book : RestoreBook(e, b) => Same(d) BY DEF RestoreBook
  <1>4. \A m \in {"reading", "full"} : StartSync(e, m) => Same(d) BY DEF StartSync
  <1>5. Snapshot(e) => Same(d) BY DEF Snapshot, TakeSnapshot
  <1>6. PutState(e) => Same(d) BY DEF PutState
  <1>7. RecordToken(e) => Same(d) BY DEF RecordToken, NewToken
  <1>8. RecordFlag(e) => Same(d) BY DEF RecordFlag
  <1>9. ListStates(e) => Same(d) BY DEF ListStates, ListFiles
  <1>10. SkipState(e) => Same(d) BY DEF SkipState, Unlist
  <1>11. MergeState(e) => Same(d) BY DEF MergeState
  <1>12. MarkApplied(e) => Same(d) BY DEF MarkApplied, Unlist
  <1>13. AckReading(e) => Same(d) BY DEF AckReading, Acknowledged
  <1>14. PublishNothing(e) => Same(d) BY DEF PublishNothing, LeavePublish, Forget
  <1>15. PublishIndex(e) => Same(d) BY DEF PublishIndex
  <1>16. PublishDone(e) => Same(d) BY DEF PublishDone, LeavePublish, Forget
  <1>17. Prepare(e) => Same(d) BY DEF Prepare
  <1>18. PublishLibrary(e) => Same(d) BY DEF PublishLibrary
  <1>19. Download(e) => Same(d) BY DEF Download, Take, ListFiles
  <1>20. BeginPlan(e) => Same(d) BY DEF BeginPlan
  <1>21. PlanBook(e) => Same(d) BY DEF PlanBook, Take, ListFiles
  <1>22. Checkpoint(e) => Same(d) BY DEF Checkpoint
  <1>23. AckIndex(e) => Same(d) BY DEF AckIndex
  <1>24. AckBooks(e) => Same(d) BY DEF AckBooks
  <1>25. AckAudit(e) => Same(d) BY DEF AckAudit, EndSession
  <1>26. AckSession(e) => Same(d) BY DEF AckSession, EndSession, Forget
  <1>27. Abort(e) => Same(d) BY DEF Abort, Forget
  <1>28. AuditExpires(e) => Same(d) BY DEF AuditExpires
  <1>29. \A b \in Book : LoseState(e, b) => Same(d) BY DEF LoseState
  <1>30. Import(e) => Same(d) BY DEF Import
  <1>31. Deliver(e) => Same(d) BY DEF Deliver
  <1>. QED BY <1>1, <1>2, <1>3, <1>4, <1>5, <1>6, <1>7, <1>8, <1>9, <1>10, <1>11, <1>12, <1>13, <1>14, <1>15, <1>16, <1>17, <1>18, <1>19, <1>20, <1>21, <1>22, <1>23, <1>24, <1>25, <1>26, <1>27, <1>28, <1>29, <1>30, <1>31
------------------------------------------------------------------------------
(* Uploads *)

\* The published index trails the local one, which trails the uploads.
IndexTrails ==
    \A d \in Device, b \in Book :
        /\ index[d][b].ver <= recorded[d][b].ver
        /\ index[d][b].rev <= recorded[d][b].rev
        /\ recorded[d][b].ver <= uploads[d][b]

\* The server's file is the last upload, at the revision last recorded or
\* later, unless it was lost.
FileCurrent ==
    \A d \in Device, b \in Book :
        \/ <<d, b>> \in lost
        \/ /\ state[d][b].ver = uploads[d][b]
           /\ recorded[d][b].rev <= state[d][b].rev

\* Files and tokens are of the past, and acknowledged changes are recorded.
Recorded ==
    \A d \in Device, b \in Book :
        /\ state[d][b].rev <= revision[d][b]
        /\ recorded[d][b].rev <= revision[d][b]
        /\ acked[d][b] <= recorded[d][b].rev

\* An index that lacks an acknowledged change is flagged.
Flagged ==
    \A d \in Device, b \in Book : pending[d] \/ acked[d][b] <= index[d][b].rev

\* What the job has done for the book in hand.
Uploading(d) ==
    LET b == book[d]
    IN  /\ pc[d] \in {"put", "record"} =>
              recorded[d][b].rev <= snap[d] /\ snap[d] <= revision[d][b]
        /\ pc[d] = "put" => state[d][b].rev <= snap[d]
        /\ pc[d] = "record" => <<d, b>> \in lost \/ snap[d] <= state[d][b].rev
        /\ pc[d] \in {"flag", "list", "merge", "mark"} /\ pushed[d] =>
              snap[d] <= recorded[d][b].rev
        /\ pc[d] \in {"list", "merge", "mark"} /\ pushed[d] => pending[d]
        /\ pc[d] = "published" => index[d] = recorded[d]

UploadInv ==
    /\ IndexTrails
    /\ FileCurrent
    /\ Recorded
    /\ Flagged
    /\ \A d \in Device : Uploading(d)

LEMMA InitUploadInv == Init => UploadInv
  BY DEF Init, UploadInv, IndexTrails, FileCurrent, Recorded, Flagged, Uploading,
         NoIndex, NoStamp

\* Leaving the publication disturbs no other device's job.
LEMMA LeavePublishFrame ==
  ASSUME JobOK, NEW e \in Device, LeavePublish(e)
  PROVE  /\ pc'[e] \in {"idle", "prepare", "ackIndex"}
         /\ \A d \in Device \ {e} : /\ pc'[d] = pc[d]
                                    /\ book'[d] = book[d]
                                    /\ snap'[d] = snap[d]
                                    /\ pushed'[d] = pushed[d]
  <1>. USE DEF LeavePublish, Goto, JobOK, loopVars, handVars
  <1>1. pc'[e] \in {"idle", "prepare", "ackIndex"} BY DEF AfterPublish
  <1>2. CASE AfterPublish(e) = "idle" BY <1>1, <1>2 DEF Forget
  <1>3. CASE AfterPublish(e) # "idle" BY <1>1, <1>3
  <1>. QED BY <1>2, <1>3

\* Taking a book for comparison leaves every upload consistent.
LEMMA TakeUploading ==
  ASSUME TypeOK, UploadInv, NEW e \in Device, NEW b \in Book, NEW P, Take(e, b, P),
         UNCHANGED <<state, index, recorded, pending, revision, lost>>, NEW d \in Device
  PROVE  Uploading(d)'
  <1>. USE DEF TypeOK, StoreOK, CacheOK, ServerOK, JobOK, EnvOK, Stamp
  <1>1. Uploading(d) BY DEF UploadInv
  <1>2. /\ pc' = [pc EXCEPT ![e] = IF pushed'[e] THEN "put" ELSE "merge"]
        /\ book' = [book EXCEPT ![e] = b]
        /\ snap' = [snap EXCEPT ![e] = IF pushed'[e] THEN revision[e][b] ELSE 0]
        /\ \A f \in Device \ {e} : pushed'[f] = pushed[f]
    <2>1. PICK repair \in Repairs(e, b) :
             LET push == b \in P \/ repair
             IN  /\ book' = [book EXCEPT ![e] = b]
                 /\ pushed' = [pushed EXCEPT ![e] = push]
                 /\ snap' = [snap EXCEPT ![e] = IF push THEN revision[e][b] ELSE 0]
                 /\ Goto(e, IF push THEN "put" ELSE "merge")
      BY DEF Take
    <2>. DEFINE push == b \in P \/ repair
    <2>2. pushed'[e] = push BY <2>1
    <2>. QED BY <2>1, <2>2 DEF Goto
  <1>3. CASE d = e
    <2>1. recorded[e][b].rev <= revision[e][b] /\ state[e][b].rev <= revision[e][b]
      BY DEF Recorded, UploadInv
    <2>. QED BY <1>2, <1>3, <2>1 DEF Uploading
  <1>4. CASE d # e
    <2>1. UNCHANGED <<pc[d], book[d], snap[d], pushed[d]>> BY <1>2, <1>4
    <2>. QED BY <1>1, <2>1 DEF Uploading
  <1>. QED BY <1>3, <1>4

\* A step that touches none of this keeps the invariant.
LEMMA UploadSame ==
  ASSUME UploadInv,
         UNCHANGED <<revision, acked, recorded, pending, state, index, uploads, lost>>,
         UNCHANGED <<pc, book, snap, pushed>>
  PROVE  UploadInv'
  <1>1. IndexTrails' BY DEF UploadInv, IndexTrails
  <1>2. FileCurrent' BY DEF UploadInv, FileCurrent
  <1>3. Recorded' BY DEF UploadInv, Recorded
  <1>4. Flagged' BY DEF UploadInv, Flagged
  <1>5. ASSUME NEW d \in Device PROVE Uploading(d)'
    <2>1. Uploading(d) BY DEF UploadInv
    <2>. QED BY <2>1 DEF Uploading
  <1>. QED BY <1>1, <1>2, <1>3, <1>4, <1>5 DEF UploadInv

\* So does a step to a place where no upload is in hand.
LEMMA UploadLeft ==
  ASSUME UploadInv, NEW e \in Device,
         UNCHANGED <<revision, acked, recorded, pending, state, index, uploads, lost>>,
         pc'[e] \notin {"put", "record", "flag", "list", "merge", "mark", "published"},
         \A d \in Device \ {e} : /\ pc'[d] = pc[d]
                                 /\ book'[d] = book[d]
                                 /\ snap'[d] = snap[d]
                                 /\ pushed'[d] = pushed[d]
  PROVE  UploadInv'
  <1>1. IndexTrails' BY DEF UploadInv, IndexTrails
  <1>2. FileCurrent' BY DEF UploadInv, FileCurrent
  <1>3. Recorded' BY DEF UploadInv, Recorded
  <1>4. Flagged' BY DEF UploadInv, Flagged
  <1>5. ASSUME NEW d \in Device PROVE Uploading(d)'
    <2>1. CASE d = e BY <2>1 DEF Uploading
    <2>2. CASE d # e
      <3>1. Uploading(d) BY DEF UploadInv
      <3>2. UNCHANGED <<pc[d], book[d], snap[d], pushed[d]>> BY <2>2
      <3>. QED BY <3>1, <3>2 DEF Uploading
    <2>. QED BY <2>1, <2>2
  <1>. QED BY <1>1, <1>2, <1>3, <1>4, <1>5 DEF UploadInv

LEMMA StepUploadInv == TypeOK /\ UploadInv /\ [Next]_vars => UploadInv'
  <1>. SUFFICES ASSUME TypeOK, UploadInv, [Next]_vars PROVE UploadInv' OBVIOUS
  <1>. USE DEF TypeOK, StoreOK, CacheOK, ServerOK, JobOK, EnvOK, Stamp,
               UploadInv, storeVars, cacheVars, indexVars, appliedVars, sessionVars, serverVars,
               jobVars, loopVars, handVars, planVars, envVars
  <1>1. ASSUME NEW e \in Device, NEW b \in Book, Edit(e, b) PROVE UploadInv'
    <2>1. IndexTrails' BY <1>1 DEF Edit, IndexTrails
    <2>2. FileCurrent' BY <1>1 DEF Edit, FileCurrent
    <2>3. Recorded' BY <1>1 DEF Edit, Recorded
    <2>4. Flagged' BY <1>1 DEF Edit, Flagged
    <2>5. ASSUME NEW d \in Device PROVE Uploading(d)'
      BY <1>1, <2>5 DEF Edit, Uploading, IndexTrails, FileCurrent, Recorded, Flagged
    <2>. QED BY <2>1, <2>2, <2>3, <2>4, <2>5
  <1>2. ASSUME NEW e \in Device, NEW b \in Book, RemoveBook(e, b) PROVE UploadInv'
    <2>1. /\ UNCHANGED <<revision, acked, recorded, pending, state, index, uploads, lost>>
          /\ UNCHANGED <<pc, book, snap, pushed>>
      BY <1>2 DEF RemoveBook
    <2>. QED BY <2>1, UploadSame
  <1>3. ASSUME NEW e \in Device, NEW b \in Book, RestoreBook(e, b) PROVE UploadInv'
    <2>1. /\ UNCHANGED <<revision, acked, recorded, pending, state, index, uploads, lost>>
          /\ UNCHANGED <<pc, book, snap, pushed>>
      BY <1>3 DEF RestoreBook
    <2>. QED BY <2>1, UploadSame
  <1>4. ASSUME NEW e \in Device, NEW m \in {"reading", "full"}, StartSync(e, m) PROVE UploadInv'
    <2>1. UNCHANGED <<revision, acked, recorded, pending, state, index, uploads, lost>>
      BY <1>4 DEF StartSync
    <2>2. /\ pc' = [pc EXCEPT ![e] = "changed"]
          /\ UNCHANGED <<book, snap, pushed>>
      BY <1>4 DEF StartSync, Goto
    <2>. QED BY <2>1, <2>2, UploadLeft
  <1>5. ASSUME NEW e \in Device, Snapshot(e) PROVE UploadInv'
    <2>1. IndexTrails' BY <1>5 DEF Snapshot, TakeSnapshot, IndexTrails, Goto
    <2>2. FileCurrent' BY <1>5 DEF Snapshot, TakeSnapshot, FileCurrent, Goto
    <2>3. Recorded' BY <1>5 DEF Snapshot, TakeSnapshot, Recorded, Goto
    <2>4. Flagged' BY <1>5 DEF Snapshot, TakeSnapshot, Flagged, Goto
    <2>5. ASSUME NEW d \in Device PROVE Uploading(d)'
      <3>1. Uploading(d) OBVIOUS
      <3>2. /\ UNCHANGED <<state, index, recorded, pending, revision, lost>>
            /\ pc' = [pc EXCEPT ![e] = "put"]
            /\ pushed' = [pushed EXCEPT ![e] = TRUE]
        BY <1>5 DEF Snapshot, TakeSnapshot, Goto
      <3>3. PICK b \in todo[e] : /\ book' = [book EXCEPT ![e] = b]
                                 /\ snap' = [snap EXCEPT ![e] = revision[e][b]]
        BY <1>5 DEF Snapshot, TakeSnapshot
      <3>4. CASE d = e
        <4>1. recorded[e][b].rev <= revision[e][b] /\ state[e][b].rev <= revision[e][b]
          BY DEF Recorded
        <4>. QED BY <3>2, <3>3, <3>4, <4>1 DEF Uploading
      <3>5. CASE d # e BY <3>1, <3>2, <3>3, <3>5 DEF Uploading
      <3>. QED BY <3>4, <3>5
    <2>. QED BY <2>1, <2>2, <2>3, <2>4, <2>5
  <1>6. ASSUME NEW e \in Device, PutState(e) PROVE UploadInv'
    <2>1. IndexTrails' BY <1>6 DEF PutState, IndexTrails, Goto, Uploading
    <2>2. FileCurrent'
      <3>1. Uploading(e) OBVIOUS
      <3>2. recorded[e][book[e]].rev <= snap[e] BY <1>6, <3>1 DEF Uploading, PutState
      <3>3. ASSUME NEW d \in Device, NEW b \in Book, <<d, b>> \notin lost'
            PROVE  /\ state'[d][b].ver = uploads'[d][b]
                   /\ recorded'[d][b].rev <= state'[d][b].rev
        <4>1. CASE d = e /\ b = book[e] BY <1>6, <3>2, <4>1 DEF PutState
        <4>2. CASE ~(d = e /\ b = book[e])
          BY <1>6, <3>3, <4>2 DEF PutState, FileCurrent
        <4>. QED BY <4>1, <4>2
      <3>. QED BY <3>3 DEF FileCurrent
    <2>3. Recorded' BY <1>6 DEF PutState, Recorded, Goto, Uploading
    <2>4. Flagged' BY <1>6 DEF PutState, Flagged, Goto, Uploading
    <2>5. ASSUME NEW d \in Device PROVE Uploading(d)'
      BY <1>6, <2>5, SMTT(30) DEF PutState, Uploading, IndexTrails, FileCurrent, Recorded, Flagged, Goto
    <2>. QED BY <2>1, <2>2, <2>3, <2>4, <2>5
  <1>7. ASSUME NEW e \in Device, RecordToken(e) PROVE UploadInv'
    <2>0. /\ recorded[e][book[e]].rev <= snap[e]
          /\ snap[e] <= revision[e][book[e]]
          /\ recorded' = [recorded EXCEPT ![e][book[e]] =
                             [ver |-> uploads[e][book[e]], rev |-> snap[e]]]
      <3>1. Uploading(e) OBVIOUS
      <3>. QED BY <1>7, <3>1 DEF RecordToken, NewToken, AfterRecord, Uploading
    <2>1. IndexTrails'
      <3>1. ASSUME NEW d \in Device, NEW b \in Book
            PROVE  /\ index[d][b].ver <= recorded'[d][b].ver
                   /\ index[d][b].rev <= recorded'[d][b].rev
                   /\ recorded'[d][b].ver <= uploads[d][b]
        <4>1. CASE d = e /\ b = book[e] BY <2>0, <4>1 DEF IndexTrails
        <4>2. CASE ~(d = e /\ b = book[e])
          <5>1. recorded'[d][b] = recorded[d][b] BY <2>0, <4>2
          <5>. QED BY <5>1 DEF IndexTrails
        <4>. QED BY <4>1, <4>2
      <3>. QED BY <1>7, <3>1 DEF IndexTrails, RecordToken, NewToken
    <2>2. FileCurrent' BY <1>7, ZenonT(40) DEF RecordToken, NewToken, AfterRecord, FileCurrent, Goto, Uploading
    <2>3. Recorded'
      <3>1. ASSUME NEW d \in Device, NEW b \in Book
            PROVE  /\ recorded'[d][b].rev <= revision[d][b]
                   /\ acked[d][b] <= recorded'[d][b].rev
        <4>1. CASE d = e /\ b = book[e] BY <2>0, <4>1 DEF Recorded
        <4>2. CASE ~(d = e /\ b = book[e])
          <5>1. recorded'[d][b] = recorded[d][b] BY <2>0, <4>2
          <5>. QED BY <5>1 DEF Recorded
        <4>. QED BY <4>1, <4>2
      <3>. QED BY <1>7, <3>1 DEF Recorded, RecordToken, NewToken
    <2>4. Flagged' BY <1>7 DEF RecordToken, NewToken, AfterRecord, Flagged, Goto, Uploading
    <2>5. ASSUME NEW d \in Device PROVE Uploading(d)'
      BY <1>7, <2>5, SMTT(30) DEF RecordToken, NewToken, AfterRecord, Uploading, IndexTrails, FileCurrent, Recorded, Flagged, Goto
    <2>. QED BY <2>1, <2>2, <2>3, <2>4, <2>5
  <1>8. ASSUME NEW e \in Device, RecordFlag(e) PROVE UploadInv'
    <2>1. IndexTrails' BY <1>8 DEF RecordFlag, AfterRecord, IndexTrails, Goto
    <2>2. FileCurrent' BY <1>8 DEF RecordFlag, AfterRecord, FileCurrent, Goto
    <2>3. Recorded' BY <1>8 DEF RecordFlag, AfterRecord, Recorded, Goto
    <2>4. Flagged' BY <1>8 DEF RecordFlag, AfterRecord, Flagged, Goto
    <2>5. ASSUME NEW d \in Device PROVE Uploading(d)'
      BY <1>8, <2>5 DEF RecordFlag, AfterRecord, Uploading, IndexTrails, FileCurrent, Recorded, Flagged, Goto
    <2>. QED BY <2>1, <2>2, <2>3, <2>4, <2>5
  <1>9. ASSUME NEW e \in Device, ListStates(e) PROVE UploadInv'
    BY <1>9 DEF ListStates, IndexTrails, FileCurrent, Recorded, Flagged, Uploading, ListFiles, Goto
  <1>10. ASSUME NEW e \in Device, SkipState(e) PROVE UploadInv'
    <2>1. /\ UNCHANGED <<revision, acked, recorded, pending, state, index, uploads, lost>>
          /\ UNCHANGED <<pc, book, snap, pushed>>
      BY <1>10 DEF SkipState
    <2>. QED BY <2>1, UploadSame
  <1>11. ASSUME NEW e \in Device, MergeState(e) PROVE UploadInv'
    <2>1. IndexTrails' BY <1>11 DEF MergeState, IndexTrails, Goto
    <2>2. FileCurrent' BY <1>11 DEF MergeState, FileCurrent, Goto
    <2>0. \A d \in Device, b \in Book :
              revision'[d][b] \in Nat /\ revision[d][b] <= revision'[d][b]
      <3>1. PICK resolved \in BOOLEAN :
               revision' = [revision EXCEPT ![e][book[e]] = IF resolved THEN @ + 1 ELSE @]
        BY <1>11 DEF MergeState
      <3>. QED BY <3>1
    <2>3. Recorded'
      <3>1. UNCHANGED <<state, recorded, acked>> BY <1>11 DEF MergeState
      <3>2. ASSUME NEW d \in Device, NEW b \in Book
            PROVE  /\ state[d][b].rev <= revision'[d][b]
                   /\ recorded[d][b].rev <= revision'[d][b]
        BY <2>0 DEF Recorded
      <3>. QED BY <3>1, <3>2 DEF Recorded
    <2>4. Flagged' BY <1>11 DEF MergeState, Flagged, Goto
    <2>5. ASSUME NEW d \in Device PROVE Uploading(d)'
      <3>1. Uploading(d) OBVIOUS
      <3>2. /\ UNCHANGED <<state, index, recorded, pending, book, snap, pushed, lost>>
            /\ pc' = [pc EXCEPT ![e] = "mark"]
            /\ pc[e] = "merge"
        BY <1>11 DEF MergeState, Goto
      <3>. QED BY <2>0, <2>5, <3>1, <3>2 DEF Uploading
    <2>. QED BY <2>1, <2>2, <2>3, <2>4, <2>5
  <1>12. ASSUME NEW e \in Device, MarkApplied(e) PROVE UploadInv'
    BY <1>12 DEF MarkApplied, IndexTrails, FileCurrent, Recorded, Flagged, Uploading, Goto
  <1>13. ASSUME NEW e \in Device, AckReading(e) PROVE UploadInv'
    <2>1. IndexTrails' BY <1>13 DEF AckReading, AtAcknowledge, IndexTrails, Acknowledged, Goto, Uploading
    <2>2. FileCurrent' BY <1>13 DEF AckReading, AtAcknowledge, FileCurrent, Acknowledged, Goto, Uploading
    <2>0. /\ UNCHANGED <<state, recorded, revision>>
          /\ acked' = [acked EXCEPT ![e][book[e]] = IF @ > snap[e] THEN @ ELSE snap[e]]
          /\ snap[e] <= recorded[e][book[e]].rev
      <3>1. Uploading(e) OBVIOUS
      <3>. QED BY <1>13, <3>1 DEF AckReading, AtAcknowledge, Acknowledged, Uploading
    <2>3. Recorded'
      <3>1. ASSUME NEW d \in Device, NEW b \in Book PROVE acked'[d][b] <= recorded[d][b].rev
        <4>1. CASE d = e /\ b = book[e]
          <5>1. acked'[d][b] = IF acked[d][b] > snap[e] THEN acked[d][b] ELSE snap[e]
            BY <2>0, <4>1
          <5>. QED BY <2>0, <4>1, <5>1 DEF Recorded
        <4>2. CASE ~(d = e /\ b = book[e])
          <5>1. acked'[d][b] = acked[d][b] BY <2>0, <4>2
          <5>. QED BY <5>1 DEF Recorded
        <4>. QED BY <4>1, <4>2
      <3>. QED BY <2>0, <3>1 DEF Recorded
    <2>4. Flagged' BY <1>13 DEF AckReading, AtAcknowledge, Flagged, Acknowledged, Goto, Uploading
    <2>5. ASSUME NEW d \in Device PROVE Uploading(d)'
      BY <1>13, <2>5 DEF AckReading, AtAcknowledge, Uploading, IndexTrails, FileCurrent, Recorded, Flagged, Acknowledged, Goto
    <2>. QED BY <2>1, <2>2, <2>3, <2>4, <2>5
  <1>14. ASSUME NEW e \in Device, PublishNothing(e) PROVE UploadInv'
    <2>1. /\ UNCHANGED <<revision, acked, recorded, pending, state, index, uploads, lost>>
          /\ LeavePublish(e)
      BY <1>14 DEF PublishNothing
    <2>. QED BY <2>1, LeavePublishFrame, UploadLeft
  <1>15. ASSUME NEW e \in Device, PublishIndex(e) PROVE UploadInv'
    <2>1. IndexTrails' BY <1>15, SMTT(30) DEF PublishIndex, IndexTrails, Extended, Goto, NoStamp
    <2>2. FileCurrent' BY <1>15 DEF PublishIndex, FileCurrent, Extended, Goto, NoStamp
    <2>3. Recorded' BY <1>15 DEF PublishIndex, Recorded, Extended, Goto, NoStamp
    <2>4. Flagged'
      <3>1. \A b \in Book : recorded[e][b].rev <= Extended(e)[b].rev
        BY DEF Extended, IndexTrails, NoStamp
      <3>2. UNCHANGED <<acked, pending>> /\ index' = [index EXCEPT ![e] = Extended(e)]
        BY <1>15 DEF PublishIndex
      <3>3. ASSUME NEW b \in Book PROVE acked[e][b] <= index'[e][b].rev
        <4>1. index'[e][b] = Extended(e)[b] BY <3>2
        <4>2. Extended(e)[b] \in Stamp BY DEF Extended
        <4>. QED BY <3>1, <4>1, <4>2 DEF Recorded
      <3>4. ASSUME NEW d \in Device \ {e}, NEW b \in Book PROVE index'[d][b] = index[d][b]
        BY <3>2
      <3>. QED BY <3>2, <3>3, <3>4 DEF Flagged
    <2>5. ASSUME NEW d \in Device PROVE Uploading(d)'
      BY <1>15, <2>5, SMTT(30) DEF PublishIndex, Uploading, IndexTrails, FileCurrent, Recorded, Flagged, Extended, Goto, NoStamp
    <2>. QED BY <2>1, <2>2, <2>3, <2>4, <2>5
  <1>16. ASSUME NEW e \in Device, PublishDone(e) PROVE UploadInv'
    <2>1. IndexTrails' BY <1>16 DEF PublishDone, IndexTrails, LeavePublish, AfterPublish, Goto, Forget, Uploading
    <2>2. FileCurrent' BY <1>16 DEF PublishDone, FileCurrent, LeavePublish, AfterPublish, Goto, Forget, Uploading
    <2>3. Recorded' BY <1>16 DEF PublishDone, Recorded, LeavePublish, AfterPublish, Goto, Forget, Uploading
    <2>0. index[e] = recorded[e]
      <3>1. Uploading(e) OBVIOUS
      <3>. QED BY <1>16, <3>1 DEF PublishDone, Uploading
    <2>4. Flagged'
      <3>1. UNCHANGED <<acked, index>> /\ pending' = [pending EXCEPT ![e] = FALSE]
        BY <1>16 DEF PublishDone
      <3>2. \A b \in Book : acked[e][b] <= index[e][b].rev BY <2>0 DEF Recorded
      <3>. QED BY <3>1, <3>2 DEF Flagged
    <2>5. ASSUME NEW d \in Device PROVE Uploading(d)'
      <3>1. Uploading(d) OBVIOUS
      <3>2. \A f \in Device \ {e} : recorded'[f] = recorded[f] /\ pending'[f] = pending[f]
        BY <1>16 DEF PublishDone
      <3>3. UNCHANGED <<state, index, revision, lost>> /\ LeavePublish(e)
        BY <1>16 DEF PublishDone
      <3>4. CASE d = e BY <3>3, <3>4, LeavePublishFrame DEF Uploading
      <3>5. CASE d # e
        <4>1. UNCHANGED <<pc[d], book[d], snap[d], pushed[d], recorded[d], pending[d]>>
          BY <2>5, <3>2, <3>3, <3>5, LeavePublishFrame
        <4>. QED BY <3>1, <3>3, <4>1 DEF Uploading
      <3>. QED BY <3>4, <3>5
    <2>. QED BY <2>1, <2>2, <2>3, <2>4, <2>5
  <1>17. ASSUME NEW e \in Device, Prepare(e) PROVE UploadInv'
    <2>1. UNCHANGED <<revision, acked, recorded, pending, state, index, uploads, lost>>
      BY <1>17 DEF Prepare
    <2>2. /\ pc' = [pc EXCEPT ![e] = "library"]
          /\ UNCHANGED <<book, snap, pushed>>
      BY <1>17 DEF Prepare, Goto
    <2>. QED BY <2>1, <2>2, UploadLeft
  <1>18. ASSUME NEW e \in Device, PublishLibrary(e) PROVE UploadInv'
    <2>1. UNCHANGED <<revision, acked, recorded, pending, state, index, uploads, lost>>
      BY <1>18 DEF PublishLibrary
    <2>2. /\ pc' = [pc EXCEPT ![e] = "download"]
          /\ UNCHANGED <<book, snap, pushed>>
      BY <1>18 DEF PublishLibrary, Goto
    <2>. QED BY <2>1, <2>2, UploadLeft
  <1>19. ASSUME NEW e \in Device, Download(e) PROVE UploadInv'
    <2>1. IndexTrails' BY <1>19 DEF Download, IndexTrails
    <2>2. FileCurrent' BY <1>19 DEF Download, FileCurrent
    <2>3. Recorded' BY <1>19 DEF Download, Recorded
    <2>4. Flagged' BY <1>19 DEF Download, Flagged
    <2>5. ASSUME NEW d \in Device PROVE Uploading(d)'
      <3>1. PICK b \in fetch[e] :
               IF b \in plan[e].reading
               THEN Take(e, b, PendingReading(e))
               ELSE /\ book' = [book EXCEPT ![e] = b]
                    /\ Goto(e, "deliver")
                    /\ UNCHANGED <<snap, pushed, listing>>
        BY <1>19 DEF Download
      <3>2. UNCHANGED <<state, index, recorded, pending, revision, lost>>
        BY <1>19 DEF Download
      <3>3. CASE b \in plan[e].reading BY <2>5, <3>1, <3>2, <3>3, TakeUploading
      <3>4. CASE b \notin plan[e].reading
        <4>1. Uploading(d) OBVIOUS
        <4>. QED BY <2>5, <3>1, <3>2, <3>4, <4>1, SMTT(20) DEF Uploading, Goto
      <3>. QED BY <3>3, <3>4
    <2>. QED BY <2>1, <2>2, <2>3, <2>4, <2>5
  <1>20. ASSUME NEW e \in Device, BeginPlan(e) PROVE UploadInv'
    <2>1. UNCHANGED <<revision, acked, recorded, pending, state, index, uploads, lost>>
      BY <1>20 DEF BeginPlan
    <2>2. /\ pc' = [pc EXCEPT ![e] = "plan"]
          /\ UNCHANGED <<book, snap, pushed>>
      BY <1>20 DEF BeginPlan, Goto
    <2>. QED BY <2>1, <2>2, UploadLeft
  <1>21. ASSUME NEW e \in Device, PlanBook(e) PROVE UploadInv'
    <2>1. IndexTrails' BY <1>21 DEF PlanBook, IndexTrails
    <2>2. FileCurrent' BY <1>21 DEF PlanBook, FileCurrent
    <2>3. Recorded' BY <1>21 DEF PlanBook, Recorded
    <2>4. Flagged' BY <1>21 DEF PlanBook, Flagged
    <2>5. ASSUME NEW d \in Device PROVE Uploading(d)'
      <3>1. PICK b \in todo[e] : Take(e, b, due[e]) BY <1>21 DEF PlanBook
      <3>2. b \in Book /\ UNCHANGED <<state, index, recorded, pending, revision, lost>>
        BY <1>21 DEF PlanBook
      <3>. QED BY <2>5, <3>1, <3>2, TakeUploading
    <2>. QED BY <2>1, <2>2, <2>3, <2>4, <2>5
  <1>22. ASSUME NEW e \in Device, Checkpoint(e) PROVE UploadInv'
    <2>1. UNCHANGED <<revision, acked, recorded, pending, state, index, uploads, lost>>
      BY <1>22 DEF Checkpoint
    <2>2. /\ pc' = [pc EXCEPT ![e] = IF loop[e] = "download" THEN "deliver" ELSE "plan"]
          /\ UNCHANGED <<book, snap, pushed>>
      BY <1>22 DEF Checkpoint, Goto
    <2>. QED BY <2>1, <2>2, UploadLeft
  <1>23. ASSUME NEW e \in Device, AckIndex(e) PROVE UploadInv'
    <2>1. /\ UNCHANGED <<revision, acked, recorded, pending, state, index, uploads, lost>>
          /\ UNCHANGED <<pc, book, snap, pushed>>
      BY <1>23 DEF AckIndex
    <2>. QED BY <2>1, UploadSame
  <1>24. ASSUME NEW e \in Device, AckBooks(e) PROVE UploadInv'
    <2>1. UNCHANGED <<revision, acked, recorded, pending, state, index, uploads, lost>>
      BY <1>24 DEF AckBooks
    <2>2. /\ pc' = [pc EXCEPT ![e] = IF plan[e].audit THEN "ackAudit" ELSE "ackSession"]
          /\ UNCHANGED <<book, snap, pushed>>
      BY <1>24 DEF AckBooks, Goto
    <2>. QED BY <2>1, <2>2, UploadLeft
  <1>25. ASSUME NEW e \in Device, AckAudit(e) PROVE UploadInv'
    <2>1. UNCHANGED <<revision, acked, recorded, pending, state, index, uploads, lost>>
      BY <1>25 DEF AckAudit
    <2>2. /\ pc' = [pc EXCEPT ![e] = "ackSession"]
          /\ UNCHANGED <<book, snap, pushed>>
      BY <1>25 DEF AckAudit, Goto
    <2>. QED BY <2>1, <2>2, UploadLeft
  <1>26. ASSUME NEW e \in Device, AckSession(e) PROVE UploadInv'
    <2>1. UNCHANGED <<revision, acked, recorded, pending, state, index, uploads, lost>>
      BY <1>26 DEF AckSession
    <2>2. /\ pc' = [pc EXCEPT ![e] = "idle"]
          /\ book' = [book EXCEPT ![e] = CHOOSE b \in Book : TRUE]
          /\ snap' = [snap EXCEPT ![e] = 0]
          /\ pushed' = [pushed EXCEPT ![e] = FALSE]
      BY <1>26 DEF AckSession, Goto, Forget
    <2>. QED BY <2>1, <2>2, UploadLeft
  <1>27. ASSUME NEW e \in Device, Abort(e) PROVE UploadInv'
    <2>1. UNCHANGED <<revision, acked, recorded, pending, state, index, uploads, lost>>
      BY <1>27 DEF Abort
    <2>2. /\ pc' = [pc EXCEPT ![e] = "idle"]
          /\ book' = [book EXCEPT ![e] = CHOOSE b \in Book : TRUE]
          /\ snap' = [snap EXCEPT ![e] = 0]
          /\ pushed' = [pushed EXCEPT ![e] = FALSE]
      BY <1>27 DEF Abort, Goto, Forget
    <2>. QED BY <2>1, <2>2, UploadLeft
  <1>28. ASSUME NEW e \in Device, AuditExpires(e) PROVE UploadInv'
    <2>1. /\ UNCHANGED <<revision, acked, recorded, pending, state, index, uploads, lost>>
          /\ UNCHANGED <<pc, book, snap, pushed>>
      BY <1>28 DEF AuditExpires
    <2>. QED BY <2>1, UploadSame
  <1>29. ASSUME NEW e \in Device, NEW b \in Book, LoseState(e, b) PROVE UploadInv'
    <2>1. IndexTrails' BY <1>29 DEF LoseState, IndexTrails, NoStamp
    <2>2. FileCurrent'
      <3>1. ASSUME NEW d \in Device, NEW c \in Book, <<d, c>> \notin lost'
            PROVE  <<d, c>> \notin lost /\ state'[d][c] = state[d][c]
        BY <1>29, <3>1 DEF LoseState
      <3>2. UNCHANGED <<uploads, recorded>> BY <1>29 DEF LoseState
      <3>3. ASSUME NEW d \in Device, NEW c \in Book, <<d, c>> \notin lost'
            PROVE  /\ state'[d][c].ver = uploads'[d][c]
                   /\ recorded'[d][c].rev <= state'[d][c].rev
        <4>1. <<d, c>> \notin lost /\ state'[d][c] = state[d][c] BY <3>1, <3>3
        <4>2. state[d][c].ver = uploads[d][c] /\ recorded[d][c].rev <= state[d][c].rev
          BY <4>1 DEF FileCurrent
        <4>. QED BY <3>2, <4>1, <4>2
      <3>. QED BY <3>3 DEF FileCurrent
    <2>3. Recorded' BY <1>29 DEF LoseState, Recorded, NoStamp
    <2>4. Flagged' BY <1>29 DEF LoseState, Flagged, NoStamp
    <2>5. ASSUME NEW d \in Device PROVE Uploading(d)'
      <3>1. Uploading(d) OBVIOUS
      <3>2. /\ UNCHANGED <<index, recorded, pending, revision, pc, book, snap, pushed>>
            /\ lost \subseteq lost'
            /\ <<e, b>> \in lost'
            /\ state' = [state EXCEPT ![e][b] = NoStamp]
        BY <1>29 DEF LoseState
      <3>3. CASE d = e /\ book[d] = b BY <3>1, <3>2, <3>3 DEF Uploading, NoStamp
      <3>4. CASE ~(d = e /\ book[d] = b)
        <4>1. state'[d][book[d]] = state[d][book[d]] BY <3>2, <3>4
        <4>. QED BY <3>1, <3>2, <4>1 DEF Uploading
      <3>. QED BY <3>3, <3>4
    <2>. QED BY <2>1, <2>2, <2>3, <2>4, <2>5
  <1>30. ASSUME NEW e \in Device, Import(e) PROVE UploadInv'
    <2>1. /\ UNCHANGED <<revision, acked, recorded, pending, state, index, uploads, lost>>
          /\ UNCHANGED <<pc, book, snap, pushed>>
      BY <1>30 DEF Import
    <2>. QED BY <2>1, UploadSame
  <1>31. ASSUME NEW e \in Device, Deliver(e) PROVE UploadInv'
    <2>1. UNCHANGED <<revision, acked, recorded, pending, state, index, uploads, lost>>
      BY <1>31 DEF Deliver
    <2>2. /\ pc' = [pc EXCEPT ![e] = "download"]
          /\ UNCHANGED <<book, snap, pushed>>
      BY <1>31 DEF Deliver, Goto
    <2>. QED BY <2>1, <2>2, UploadLeft
  <1>32. CASE UNCHANGED vars
    <2>1. /\ UNCHANGED <<revision, acked, recorded, pending, state, index, uploads, lost>>
          /\ UNCHANGED <<pc, book, snap, pushed>>
      BY <1>32 DEF vars
    <2>. QED BY <2>1, UploadSame
  <1>. QED
    BY <1>1, <1>2, <1>3, <1>4, <1>5, <1>6, <1>7, <1>8, <1>9, <1>10, <1>11, <1>12, <1>13, <1>14, <1>15, <1>16, <1>17, <1>18, <1>19, <1>20, <1>21, <1>22, <1>23, <1>24, <1>25, <1>26, <1>27, <1>28, <1>29, <1>30, <1>31, <1>32
    DEF Next, Environment, Reader, Job, Upload, Merge, Publish, PlanAndAck

LEMMA UploadCorrect == Spec => [](TypeOK /\ UploadInv)
  <1>1. Init => TypeOK /\ UploadInv BY InitTypeOK, InitUploadInv
  <1>2. TypeOK /\ UploadInv /\ [Next]_vars => (TypeOK /\ UploadInv)'
    BY StepTypeOK, StepUploadInv
  <1>. QED BY <1>1, <1>2, PTL DEF Spec

\* AckedUploaded: an acknowledged revision was accepted by the server.
THEOREM AckedUploadedAlways == Spec => []AckedUploaded
  <1>1. TypeOK /\ UploadInv => AckedUploaded
    <2>. SUFFICES ASSUME TypeOK, FileCurrent, Recorded,
                         NEW d \in Device, NEW b \in Book, <<d, b>> \notin lost
                  PROVE  acked[d][b] <= state[d][b].rev
      BY DEF UploadInv, AckedUploaded
    <2>1. acked[d][b] <= recorded[d][b].rev /\ recorded[d][b].rev <= state[d][b].rev
      BY DEF FileCurrent, Recorded
    <2>2. acked[d][b] \in Nat /\ recorded[d][b] \in Stamp /\ state[d][b] \in Stamp
      BY DEF TypeOK, StoreOK, CacheOK, ServerOK
    <2>. QED BY <2>1, <2>2 DEF Stamp
  <1>. QED BY <1>1, UploadCorrect, PTL

\* IndexBacked: what an index announces is on the server.
THEOREM IndexBackedAlways == Spec => []IndexBacked
  <1>1. TypeOK /\ UploadInv => IndexBacked
    <2>. SUFFICES ASSUME TypeOK, IndexTrails, FileCurrent,
                         NEW d \in Device, NEW b \in Book, <<d, b>> \notin lost
                  PROVE  /\ state[d][b].ver >= index[d][b].ver
                         /\ state[d][b].rev >= index[d][b].rev
      BY DEF UploadInv, IndexBacked, AtLeast
    <2>1. /\ index[d][b].ver <= recorded[d][b].ver
          /\ index[d][b].rev <= recorded[d][b].rev
          /\ recorded[d][b].ver <= uploads[d][b]
          /\ state[d][b].ver = uploads[d][b]
          /\ recorded[d][b].rev <= state[d][b].rev
      BY DEF IndexTrails, FileCurrent
    <2>2. /\ index[d][b] \in Stamp /\ recorded[d][b] \in Stamp
          /\ state[d][b] \in Stamp /\ uploads[d][b] \in Nat
      BY DEF TypeOK, CacheOK, ServerOK, EnvOK
    <2>. QED BY <2>1, <2>2 DEF Stamp
  <1>. QED BY <1>1, UploadCorrect, PTL

\* AckedSignalled: an acknowledged revision is announced or flagged.
THEOREM AckedSignalledAlways == Spec => []AckedSignalled
  <1>1. TypeOK /\ UploadInv => AckedSignalled
    BY DEF TypeOK, StoreOK, ServerOK, CacheOK, Stamp, UploadInv, Recorded, Flagged,
           AckedSignalled
  <1>. QED BY <1>1, UploadCorrect, PTL
------------------------------------------------------------------------------
(***************************************************************************)
(* Where books are: a book a device has planned for stays within reach of  *)
(* its later plans, on the own shelf or in a published library, until a    *)
(* reader removes it.                                                      *)
(*                                                                         *)
(* A library file is rewritten from the books a job was handed when it     *)
(* began, so the argument follows a full job from its start (Handed) to    *)
(* the moment it publishes its library.                                    *)
(***************************************************************************)

\* The loop a job is in at each of its points.
Point(d) ==
    /\ pc[d] \in {"idle", "changed", "list", "prepare"} => loop[d] = "changed"
    /\ pc[d] \in {"library", "download", "deliver"} => loop[d] = "download"
    /\ pc[d] \in {"plan", "ackIndex", "ackAudit", "ackSession"} => loop[d] = "plan"
    /\ pc[d] = "published" => loop[d] # "download"
    /\ pc[d] = "checkpoint" => loop[d] # "changed"
    /\ pc[d] = "prepare" => mode[d] = "full"
    /\ pc[d] \in {"put", "record", "flag", "list", "merge", "mark"}
          /\ loop[d] = "changed" => pushed[d]

\* The books handed to the job are still those of its library file.
Handed(d) == pc[d] = "library" \/ (mode[d] = "full" /\ loop[d] = "changed")

\* A full job that has not published its library yet was handed every book of
\* the shelf that no one has removed.
ShelfHanded(d) ==
    Handed(d) => /\ arrived[d] = {}
                 /\ \A b \in plan[d].shelf : membership[d][b] # "unknown"
                 /\ \A b \in Shelf(d) : b \in plan[d].shelf \/ <<d, b>> \in left

\* Tombstones stand for removals, and library files for books held since.
ShelfLeft(d) ==
    /\ \A b \in Book : membership[d][b] = "removed" => <<d, b>> \in left
    /\ \A b \in library[d] : b \in Shelf(d) \/ <<d, b>> \in left

\* A removal anywhere is known of every device that does not hold the book.
LeftOrHeld ==
    \A d, e \in Device, b \in Book :
        <<e, b>> \in left => <<d, b>> \in left \/ b \in Shelf(d)

\* The next plan of d will contain b.
WithinReach(d, b) ==
    <<d, b>> \in left \/ b \in Shelf(d) \/ \E q \in listedIn : b \in library[q]

PlannedInReach(d) == \A b \in known[d] \cup plan[d].books : WithinReach(d, b)

ShelfInv ==
    /\ LeftOrHeld
    /\ \A d \in Device : Point(d) /\ ShelfHanded(d) /\ ShelfLeft(d) /\ PlannedInReach(d)

LEMMA InitShelfInv == Init => ShelfInv
  <1>. SUFFICES ASSUME Init PROVE ShelfInv OBVIOUS
  <1>. USE DEF Init
  <1>1. LeftOrHeld BY DEF LeftOrHeld
  <1>2. ASSUME NEW d \in Device
        PROVE  Point(d) /\ ShelfHanded(d) /\ ShelfLeft(d) /\ PlannedInReach(d)
    <2>1. Point(d) /\ ShelfHanded(d) BY DEF Point, ShelfHanded, Handed
    <2>2. ShelfLeft(d) BY BoundsAssumption DEF ShelfLeft, Shelf
    <2>3. PlannedInReach(d)
      BY BoundsAssumption DEF PlannedInReach, WithinReach, Shelf, NoPlan
    <2>. QED BY <2>1, <2>2, <2>3
  <1>. QED BY <1>1, <1>2 DEF ShelfInv

\* A step that moves no book keeps the invariant of every device but its own.
LEMMA ShelfFrame ==
  ASSUME TypeOK, ShelfInv, NEW e \in Device,
         UNCHANGED <<membership, library, listedIn, left>>,
         \A d \in Device \ {e} : Same(d),
         Point(e)', ShelfHanded(e)',
         known'[e] \cup plan'[e].books \subseteq known[e] \cup plan[e].books
  PROVE  ShelfInv'
  <1>1. LeftOrHeld' BY DEF ShelfInv, LeftOrHeld, Shelf
  <1>2. ASSUME NEW d \in Device
        PROVE  Point(d)' /\ ShelfHanded(d)' /\ ShelfLeft(d)' /\ PlannedInReach(d)'
    <2>1. Point(d) /\ ShelfHanded(d) /\ ShelfLeft(d) /\ PlannedInReach(d) BY DEF ShelfInv
    <2>2. ShelfLeft(d)' BY <2>1 DEF ShelfLeft, Shelf
    <2>3. \A b : WithinReach(d, b) => WithinReach(d, b)' BY DEF WithinReach, Shelf
    <2>4. CASE d = e BY <2>1, <2>2, <2>3, <2>4 DEF PlannedInReach
    <2>5. CASE d # e
      <3>1. Same(d) BY <2>5
      <3>2. Point(d)' BY <2>1, <3>1 DEF Point, Same
      <3>3. ShelfHanded(d)' BY <2>1, <3>1 DEF ShelfHanded, Handed, Shelf, Same
      <3>4. PlannedInReach(d)' BY <2>1, <2>3, <3>1 DEF PlannedInReach, Same
      <3>. QED BY <2>2, <3>2, <3>3, <3>4
    <2>. QED BY <2>4, <2>5
  <1>. QED BY <1>1, <1>2 DEF ShelfInv

\* A step that moves books between shelves and libraries.
LEMMA ReachFrame ==
  ASSUME TypeOK, ShelfInv, NEW e \in Device,
         \A d \in Device : UNCHANGED <<known[d], plan[d], pc[d], mode[d], loop[d],
                                        pushed[d]>>,
         LeftOrHeld',
         \A d \in Device : ShelfHanded(d)' /\ ShelfLeft(d)',
         \A d \in Device, b \in Book : WithinReach(d, b) => WithinReach(d, b)'
  PROVE  ShelfInv'
  <1>. SUFFICES ASSUME NEW d \in Device PROVE Point(d)' /\ PlannedInReach(d)'
    BY DEF ShelfInv
  <1>1. Point(d) /\ PlannedInReach(d) BY DEF ShelfInv
  <1>2. known[d] \cup plan[d].books \subseteq Book
    BY DEF TypeOK, CacheOK, JobOK, PlanType
  <1>. QED BY <1>1, <1>2 DEF Point, PlannedInReach

\* Steps that move no book and no plan.
LEMMA QuietShelfInv ==
  ASSUME TypeOK, ShelfInv, NEW e \in Device, NEW c \in Book
  PROVE
    /\ Edit(e, c) => ShelfInv'
    /\ AuditExpires(e) => ShelfInv'
    /\ LoseState(e, c) => ShelfInv'
    /\ Snapshot(e) => ShelfInv'
    /\ PutState(e) => ShelfInv'
    /\ RecordToken(e) => ShelfInv'
    /\ RecordFlag(e) => ShelfInv'
    /\ ListStates(e) => ShelfInv'
    /\ SkipState(e) => ShelfInv'
    /\ MergeState(e) => ShelfInv'
    /\ MarkApplied(e) => ShelfInv'
    /\ AckReading(e) => ShelfInv'
    /\ PublishIndex(e) => ShelfInv'
    /\ Deliver(e) => ShelfInv'
    /\ Download(e) => ShelfInv'
    /\ BeginPlan(e) => ShelfInv'
    /\ PlanBook(e) => ShelfInv'
    /\ Checkpoint(e) => ShelfInv'
    /\ AckAudit(e) => ShelfInv'
    /\ PublishNothing(e) => ShelfInv'
    /\ PublishDone(e) => ShelfInv'
    /\ AckSession(e) => ShelfInv'
    /\ Abort(e) => ShelfInv'
  <1>. USE DEF TypeOK, JobOK, storeVars, cacheVars, indexVars, appliedVars, sessionVars, serverVars,
             jobVars, loopVars, handVars, planVars, envVars
  <1>0. Point(e) /\ ShelfHanded(e) /\ StoreOK /\ CacheOK BY DEF ShelfInv
  <1>1. ASSUME Edit(e, c) PROVE ShelfInv'
    <2>1. \A d \in Device \ {e} : Same(d) BY <1>1, StepSame
    <2>2. UNCHANGED <<membership, library, listedIn, left, known>> BY <1>1 DEF Edit
    <2>3. Point(e)' BY <1>0, <1>1 DEF Point, Edit
    <2>4. ShelfHanded(e)' /\ UNCHANGED plan
      BY <1>0, <1>1 DEF ShelfHanded, Handed, Point, Shelf, Edit
    <2>. QED BY <2>1, <2>2, <2>3, <2>4, ShelfFrame
  <1>2. ASSUME AuditExpires(e) PROVE ShelfInv'
    <2>1. \A d \in Device \ {e} : Same(d) BY <1>2, StepSame
    <2>2. UNCHANGED <<membership, library, listedIn, left, known>> BY <1>2 DEF AuditExpires
    <2>3. Point(e)' BY <1>0, <1>2 DEF Point, AuditExpires
    <2>4. ShelfHanded(e)' /\ UNCHANGED plan
      BY <1>0, <1>2 DEF ShelfHanded, Handed, Point, Shelf, AuditExpires
    <2>. QED BY <2>1, <2>2, <2>3, <2>4, ShelfFrame
  <1>3. ASSUME LoseState(e, c) PROVE ShelfInv'
    <2>1. \A d \in Device \ {e} : Same(d) BY <1>3, StepSame
    <2>2. UNCHANGED <<membership, library, listedIn, left, known>> BY <1>3 DEF LoseState
    <2>3. Point(e)' BY <1>0, <1>3 DEF Point, LoseState
    <2>4. ShelfHanded(e)' /\ UNCHANGED plan
      BY <1>0, <1>3 DEF ShelfHanded, Handed, Point, Shelf, LoseState
    <2>. QED BY <2>1, <2>2, <2>3, <2>4, ShelfFrame
  <1>4. ASSUME Snapshot(e) PROVE ShelfInv'
    <2>1. \A d \in Device \ {e} : Same(d) BY <1>4, StepSame
    <2>2. UNCHANGED <<membership, library, listedIn, left, known>> BY <1>4 DEF Snapshot, TakeSnapshot, Goto
    <2>3. Point(e)' BY <1>0, <1>4 DEF Point, Snapshot, TakeSnapshot, Goto
    <2>4. ShelfHanded(e)' /\ UNCHANGED plan
      BY <1>0, <1>4 DEF ShelfHanded, Handed, Point, Shelf, Snapshot, TakeSnapshot, Goto
    <2>. QED BY <2>1, <2>2, <2>3, <2>4, ShelfFrame
  <1>5. ASSUME PutState(e) PROVE ShelfInv'
    <2>1. \A d \in Device \ {e} : Same(d) BY <1>5, StepSame
    <2>2. UNCHANGED <<membership, library, listedIn, left, known>> BY <1>5 DEF PutState, Goto
    <2>3. Point(e)' BY <1>0, <1>5 DEF Point, PutState, Goto
    <2>4. ShelfHanded(e)' /\ UNCHANGED plan
      BY <1>0, <1>5 DEF ShelfHanded, Handed, Point, Shelf, PutState, Goto
    <2>. QED BY <2>1, <2>2, <2>3, <2>4, ShelfFrame
  <1>6. ASSUME RecordToken(e) PROVE ShelfInv'
    <2>1. \A d \in Device \ {e} : Same(d) BY <1>6, StepSame
    <2>2. UNCHANGED <<membership, library, listedIn, left, known>> BY <1>6 DEF RecordToken, NewToken, AfterRecord, Goto
    <2>3. Point(e)' BY <1>0, <1>6 DEF Point, RecordToken, NewToken, AfterRecord, Goto
    <2>4. ShelfHanded(e)' /\ UNCHANGED plan
      BY <1>0, <1>6 DEF ShelfHanded, Handed, Point, Shelf, RecordToken, NewToken, AfterRecord, Goto
    <2>. QED BY <2>1, <2>2, <2>3, <2>4, ShelfFrame
  <1>7. ASSUME RecordFlag(e) PROVE ShelfInv'
    <2>1. \A d \in Device \ {e} : Same(d) BY <1>7, StepSame
    <2>2. UNCHANGED <<membership, library, listedIn, left, known>> BY <1>7 DEF RecordFlag, AfterRecord, Goto
    <2>3. Point(e)' BY <1>0, <1>7 DEF Point, RecordFlag, AfterRecord, Goto
    <2>4. ShelfHanded(e)' /\ UNCHANGED plan
      BY <1>0, <1>7 DEF ShelfHanded, Handed, Point, Shelf, RecordFlag, AfterRecord, Goto
    <2>. QED BY <2>1, <2>2, <2>3, <2>4, ShelfFrame
  <1>8. ASSUME ListStates(e) PROVE ShelfInv'
    <2>1. \A d \in Device \ {e} : Same(d) BY <1>8, StepSame
    <2>2. UNCHANGED <<membership, library, listedIn, left, known>> BY <1>8 DEF ListStates, Goto
    <2>3. Point(e)' BY <1>0, <1>8 DEF Point, ListStates, Goto
    <2>4. ShelfHanded(e)' /\ UNCHANGED plan
      BY <1>0, <1>8 DEF ShelfHanded, Handed, Point, Shelf, ListStates, Goto
    <2>. QED BY <2>1, <2>2, <2>3, <2>4, ShelfFrame
  <1>9. ASSUME SkipState(e) PROVE ShelfInv'
    <2>1. \A d \in Device \ {e} : Same(d) BY <1>9, StepSame
    <2>2. UNCHANGED <<membership, library, listedIn, left, known>> BY <1>9 DEF SkipState
    <2>3. Point(e)' BY <1>0, <1>9 DEF Point, SkipState
    <2>4. ShelfHanded(e)' /\ UNCHANGED plan
      BY <1>0, <1>9 DEF ShelfHanded, Handed, Point, Shelf, SkipState
    <2>. QED BY <2>1, <2>2, <2>3, <2>4, ShelfFrame
  <1>10. ASSUME MergeState(e) PROVE ShelfInv'
    <2>1. \A d \in Device \ {e} : Same(d) BY <1>10, StepSame
    <2>2. UNCHANGED <<membership, library, listedIn, left, known>> BY <1>10 DEF MergeState, Goto
    <2>3. Point(e)' BY <1>0, <1>10 DEF Point, MergeState, Goto
    <2>4. ShelfHanded(e)' /\ UNCHANGED plan
      BY <1>0, <1>10 DEF ShelfHanded, Handed, Point, Shelf, MergeState, Goto
    <2>. QED BY <2>1, <2>2, <2>3, <2>4, ShelfFrame
  <1>11. ASSUME MarkApplied(e) PROVE ShelfInv'
    <2>1. \A d \in Device \ {e} : Same(d) BY <1>11, StepSame
    <2>2. UNCHANGED <<membership, library, listedIn, left, known>> BY <1>11 DEF MarkApplied, Goto
    <2>3. Point(e)' BY <1>0, <1>11 DEF Point, MarkApplied, Goto
    <2>4. ShelfHanded(e)' /\ UNCHANGED plan
      BY <1>0, <1>11 DEF ShelfHanded, Handed, Point, Shelf, MarkApplied, Goto
    <2>. QED BY <2>1, <2>2, <2>3, <2>4, ShelfFrame
  <1>12. ASSUME AckReading(e) PROVE ShelfInv'
    <2>1. \A d \in Device \ {e} : Same(d) BY <1>12, StepSame
    <2>2. UNCHANGED <<membership, library, listedIn, left, known>> BY <1>12 DEF AckReading, AtAcknowledge, Acknowledged, Goto
    <2>3. Point(e)' BY <1>0, <1>12 DEF Point, AckReading, AtAcknowledge, Acknowledged, Goto
    <2>4. ShelfHanded(e)' /\ UNCHANGED plan
      BY <1>0, <1>12 DEF ShelfHanded, Handed, Point, Shelf, AckReading, AtAcknowledge, Acknowledged, Goto
    <2>. QED BY <2>1, <2>2, <2>3, <2>4, ShelfFrame
  <1>13. ASSUME PublishIndex(e) PROVE ShelfInv'
    <2>1. \A d \in Device \ {e} : Same(d) BY <1>13, StepSame
    <2>2. UNCHANGED <<membership, library, listedIn, left, known>> BY <1>13 DEF PublishIndex, AtPublish, Goto
    <2>3. Point(e)' BY <1>0, <1>13 DEF Point, PublishIndex, AtPublish, Goto
    <2>4. ShelfHanded(e)' /\ UNCHANGED plan
      BY <1>0, <1>13 DEF ShelfHanded, Handed, Point, Shelf, PublishIndex, AtPublish, Goto
    <2>. QED BY <2>1, <2>2, <2>3, <2>4, ShelfFrame
  <1>14. ASSUME Deliver(e) PROVE ShelfInv'
    <2>1. \A d \in Device \ {e} : Same(d) BY <1>14, StepSame
    <2>2. UNCHANGED <<membership, library, listedIn, left, known>> BY <1>14 DEF Deliver, Goto
    <2>3. Point(e)' BY <1>0, <1>14 DEF Point, Deliver, Goto
    <2>4. ShelfHanded(e)' /\ UNCHANGED plan
      BY <1>0, <1>14 DEF ShelfHanded, Handed, Point, Shelf, Deliver, Goto
    <2>. QED BY <2>1, <2>2, <2>3, <2>4, ShelfFrame
  <1>15. ASSUME Download(e) PROVE ShelfInv'
    <2>1. \A d \in Device \ {e} : Same(d) BY <1>15, StepSame
    <2>2. UNCHANGED <<membership, library, listedIn, left, known>> BY <1>15 DEF Download, Take, Goto
    <2>3. Point(e)' BY <1>0, <1>15 DEF Point, Download, Take, Goto
    <2>4. ShelfHanded(e)' /\ UNCHANGED plan
      BY <1>0, <1>15 DEF ShelfHanded, Handed, Point, Shelf, Download, Take, Goto
    <2>. QED BY <2>1, <2>2, <2>3, <2>4, ShelfFrame
  <1>16. ASSUME BeginPlan(e) PROVE ShelfInv'
    <2>1. \A d \in Device \ {e} : Same(d) BY <1>16, StepSame
    <2>2. UNCHANGED <<membership, library, listedIn, left, known>> BY <1>16 DEF BeginPlan, Goto
    <2>3. Point(e)' BY <1>0, <1>16 DEF Point, BeginPlan, Goto
    <2>4. ShelfHanded(e)' /\ UNCHANGED plan
      BY <1>0, <1>16 DEF ShelfHanded, Handed, Point, Shelf, BeginPlan, Goto
    <2>. QED BY <2>1, <2>2, <2>3, <2>4, ShelfFrame
  <1>17. ASSUME PlanBook(e) PROVE ShelfInv'
    <2>1. \A d \in Device \ {e} : Same(d) BY <1>17, StepSame
    <2>2. UNCHANGED <<membership, library, listedIn, left, known>> BY <1>17 DEF PlanBook, Take, Goto
    <2>3. Point(e)' BY <1>0, <1>17 DEF Point, PlanBook, Take, Goto
    <2>4. ShelfHanded(e)' /\ UNCHANGED plan
      BY <1>0, <1>17 DEF ShelfHanded, Handed, Point, Shelf, PlanBook, Take, Goto
    <2>. QED BY <2>1, <2>2, <2>3, <2>4, ShelfFrame
  <1>18. ASSUME Checkpoint(e) PROVE ShelfInv'
    <2>1. \A d \in Device \ {e} : Same(d) BY <1>18, StepSame
    <2>2. UNCHANGED <<membership, library, listedIn, left, known>> BY <1>18 DEF Checkpoint, Goto
    <2>3. Point(e)' BY <1>0, <1>18 DEF Point, Checkpoint, Goto
    <2>4. ShelfHanded(e)' /\ UNCHANGED plan
      BY <1>0, <1>18 DEF ShelfHanded, Handed, Point, Shelf, Checkpoint, Goto
    <2>. QED BY <2>1, <2>2, <2>3, <2>4, ShelfFrame
  <1>19. ASSUME AckAudit(e) PROVE ShelfInv'
    <2>1. \A d \in Device \ {e} : Same(d) BY <1>19, StepSame
    <2>2. UNCHANGED <<membership, library, listedIn, left, known>> BY <1>19 DEF AckAudit, EndSession, Goto
    <2>3. Point(e)' BY <1>0, <1>19 DEF Point, AckAudit, EndSession, Goto
    <2>4. ShelfHanded(e)' /\ UNCHANGED plan
      BY <1>0, <1>19 DEF ShelfHanded, Handed, Point, Shelf, AckAudit, EndSession, Goto
    <2>. QED BY <2>1, <2>2, <2>3, <2>4, ShelfFrame
  <1>20. ASSUME PublishNothing(e) PROVE ShelfInv'
    <2>1. \A d \in Device \ {e} : Same(d) BY <1>20, StepSame
    <2>2. UNCHANGED <<membership, library, listedIn, left, known>> BY <1>20 DEF PublishNothing, LeavePublish, AfterPublish, AtPublish, Forget, Goto
    <2>3. Point(e)' BY <1>0, <1>20 DEF Point, PublishNothing, LeavePublish, AfterPublish, AtPublish, Forget, Goto
    <2>4. ShelfHanded(e)' /\ plan'[e].books \subseteq plan[e].books
      BY <1>0, <1>20 DEF ShelfHanded, Handed, Point, Shelf, NoPlan, PublishNothing, LeavePublish, AfterPublish, AtPublish, Forget, Goto
    <2>. QED BY <2>1, <2>2, <2>3, <2>4, ShelfFrame
  <1>21. ASSUME PublishDone(e) PROVE ShelfInv'
    <2>1. \A d \in Device \ {e} : Same(d) BY <1>21, StepSame
    <2>2. UNCHANGED <<membership, library, listedIn, left, known>> BY <1>21 DEF PublishDone, LeavePublish, AfterPublish, Forget, Goto
    <2>3. Point(e)' BY <1>0, <1>21 DEF Point, PublishDone, LeavePublish, AfterPublish, Forget, Goto
    <2>4. ShelfHanded(e)' /\ plan'[e].books \subseteq plan[e].books
      BY <1>0, <1>21 DEF ShelfHanded, Handed, Point, Shelf, NoPlan, PublishDone, LeavePublish, AfterPublish, Forget, Goto
    <2>. QED BY <2>1, <2>2, <2>3, <2>4, ShelfFrame
  <1>22. ASSUME AckSession(e) PROVE ShelfInv'
    <2>1. \A d \in Device \ {e} : Same(d) BY <1>22, StepSame
    <2>2. UNCHANGED <<membership, library, listedIn, left, known>> BY <1>22 DEF AckSession, EndSession, Forget, Goto
    <2>3. Point(e)' BY <1>0, <1>22 DEF Point, AckSession, EndSession, Forget, Goto
    <2>4. ShelfHanded(e)' /\ plan'[e].books \subseteq plan[e].books
      BY <1>0, <1>22 DEF ShelfHanded, Handed, Point, Shelf, NoPlan, AckSession, EndSession, Forget, Goto
    <2>. QED BY <2>1, <2>2, <2>3, <2>4, ShelfFrame
  <1>23. ASSUME Abort(e) PROVE ShelfInv'
    <2>1. \A d \in Device \ {e} : Same(d) BY <1>23, StepSame
    <2>2. UNCHANGED <<membership, library, listedIn, left, known>> BY <1>23 DEF Abort, Forget, Goto
    <2>3. Point(e)' BY <1>0, <1>23 DEF Point, Abort, Forget, Goto
    <2>4. ShelfHanded(e)' /\ plan'[e].books \subseteq plan[e].books
      BY <1>0, <1>23 DEF ShelfHanded, Handed, Point, Shelf, NoPlan, Abort, Forget, Goto
    <2>. QED BY <2>1, <2>2, <2>3, <2>4, ShelfFrame
  <1>. QED BY <1>1, <1>2, <1>3, <1>4, <1>5, <1>6, <1>7, <1>8, <1>9, <1>10, <1>11, <1>12, <1>13, <1>14, <1>15, <1>16, <1>17, <1>18, <1>19, <1>20, <1>21, <1>22, <1>23

\* Books arrive on a shelf, leave it and return.
LEMMA MovedShelfInv ==
  ASSUME TypeOK, ShelfInv, NEW e \in Device, NEW c \in Book
  PROVE
    /\ RemoveBook(e, c) => ShelfInv'
    /\ RestoreBook(e, c) => ShelfInv'
    /\ Import(e) => ShelfInv'
  <1>. USE DEF TypeOK, StoreOK, JobOK, storeVars, cacheVars, indexVars, appliedVars, sessionVars, serverVars,
             jobVars, loopVars, handVars, planVars, envVars
  <1>1. ASSUME RemoveBook(e, c) PROVE ShelfInv'
    <2>1. /\ membership' = [membership EXCEPT ![e][c] = "removed"]
          /\ left' = left \cup {<<p, c>> : p \in {q \in Device :
                                    q = e \/ membership[q][c] # "present"}}
          /\ UNCHANGED <<library, listedIn, known, plan, pc, mode, loop, pushed, arrived>>
      BY <1>1 DEF RemoveBook
    <2>2. \A d \in Device, b \in Book :
             b \in Shelf(d) => b \in Shelf(d)' \/ <<d, b>> \in left'
      BY <2>1 DEF Shelf
    <2>3. LeftOrHeld'
      <3>1. ASSUME NEW d \in Device, NEW p \in Device, NEW b \in Book, <<p, b>> \in left'
            PROVE  <<d, b>> \in left' \/ b \in Shelf(d)'
        <4>1. CASE <<p, b>> \in left
          <5>1. <<d, b>> \in left \/ b \in Shelf(d) BY <4>1 DEF ShelfInv, LeftOrHeld
          <5>. QED BY <2>1, <2>2, <5>1
        <4>2. CASE <<p, b>> \notin left
          <5>1. b = c BY <2>1, <3>1, <4>2
          <5>2. CASE d = e \/ membership[d][c] # "present" BY <2>1, <5>1, <5>2
          <5>3. CASE d # e /\ membership[d][c] = "present" BY <2>1, <5>1, <5>3 DEF Shelf
          <5>. QED BY <5>2, <5>3
        <4>. QED BY <4>1, <4>2
      <3>. QED BY <3>1 DEF LeftOrHeld
    <2>4. ASSUME NEW d \in Device PROVE ShelfHanded(d)' /\ ShelfLeft(d)'
      <3>1. ShelfHanded(d) /\ ShelfLeft(d) BY DEF ShelfInv
      <3>2. Shelf(d)' \subseteq Shelf(d) BY <2>1 DEF Shelf
      <3>3. ShelfHanded(d)' BY <2>1, <3>1, <3>2 DEF ShelfHanded, Handed, PlanType
      <3>4. \A b \in library[d] : b \in Book BY DEF ServerOK
      <3>5. ShelfLeft(d)' BY <2>1, <2>2, <3>1, <3>4 DEF ShelfLeft
      <3>. QED BY <3>3, <3>5
    <2>5. ASSUME NEW d \in Device, NEW b \in Book, WithinReach(d, b)
          PROVE  WithinReach(d, b)'
      BY <2>1, <2>2, <2>5 DEF WithinReach
    <2>. QED BY <2>1, <2>3, <2>4, <2>5, ReachFrame
  <1>2. ASSUME NEW g \in [Device -> SUBSET Book], arrived' = g,
               \A d \in Device : g[d] \subseteq arrived[d],
               \A d \in Device, b \in Book :
                  \/ membership'[d][b] = membership[d][b]
                  \/ /\ membership'[d][b] = "present"
                     /\ \/ membership[d][b] = "removed"
                        \/ membership[d][b] = "unknown" /\ b \in arrived[d],
               UNCHANGED <<library, listedIn, left, known, plan, pc, mode, loop, pushed>>
        PROVE  ShelfInv'
    <2>1. \A d \in Device : Shelf(d) \subseteq Shelf(d)' BY <1>2 DEF Shelf
    <2>2. LeftOrHeld' BY <1>2, <2>1 DEF ShelfInv, LeftOrHeld
    <2>3. ASSUME NEW d \in Device PROVE ShelfHanded(d)' /\ ShelfLeft(d)'
      <3>1. ShelfHanded(d) /\ ShelfLeft(d) BY DEF ShelfInv
      <3>2. ShelfLeft(d)' BY <1>2, <2>1, <3>1 DEF ShelfLeft
      <3>3. plan[d].shelf \subseteq Book BY DEF PlanType
      <3>4. ASSUME Handed(d)
            PROVE  /\ arrived'[d] = {}
                   /\ \A b \in plan[d].shelf : membership'[d][b] # "unknown"
                   /\ \A b \in Shelf(d)' : b \in plan[d].shelf \/ <<d, b>> \in left
        <4>1. arrived[d] = {} BY <3>1, <3>4 DEF ShelfHanded
        <4>2. \A b \in plan[d].shelf : membership'[d][b] # "unknown"
          BY <1>2, <3>1, <3>3, <3>4 DEF ShelfHanded
        <4>3. ASSUME NEW b \in Shelf(d)' PROVE b \in plan[d].shelf \/ <<d, b>> \in left
          <5>1. b \in Book /\ membership'[d][b] = "present" BY DEF Shelf
          <5>2. b \in Shelf(d) \/ membership[d][b] = "removed" BY <1>2, <4>1, <5>1 DEF Shelf
          <5>. QED BY <3>1, <3>4, <5>1, <5>2 DEF ShelfHanded, ShelfLeft
        <4>. QED BY <1>2, <4>1, <4>2, <4>3
      <3>5. Handed(d)' = Handed(d) BY <1>2 DEF Handed
      <3>6. ShelfHanded(d)' BY <1>2, <3>4, <3>5 DEF ShelfHanded
      <3>. QED BY <3>2, <3>6
    <2>4. \A d \in Device, b \in Book : WithinReach(d, b) => WithinReach(d, b)'
      BY <1>2, <2>1 DEF WithinReach
    <2>. QED BY <1>2, <2>2, <2>3, <2>4, ReachFrame
  <1>3. ASSUME RestoreBook(e, c) PROVE ShelfInv'
    <2>1. /\ \A d \in Device, b \in Book :
                \/ membership'[d][b] = membership[d][b]
                \/ membership'[d][b] = "present" /\ membership[d][b] = "removed"
          /\ arrived' = arrived
          /\ UNCHANGED <<library, listedIn, left, known, plan, pc, mode, loop, pushed>>
      BY <1>3 DEF RestoreBook
    <2>. QED BY <1>2, <2>1
  <1>4. ASSUME Import(e) PROVE ShelfInv'
    <2>1. PICK b \in arrived[e], imported \in BOOLEAN :
             /\ arrived' = [arrived EXCEPT ![e] = @ \ {b}]
             /\ membership' = [membership EXCEPT ![e][b] =
                                  IF @ = "unknown" /\ imported THEN "present" ELSE @]
      BY <1>4 DEF Import
    <2>2. UNCHANGED <<library, listedIn, left, known, plan, pc, mode, loop, pushed>>
      BY <1>4 DEF Import
    <2>3. /\ arrived' \in [Device -> SUBSET Book]
          /\ \A d \in Device : arrived'[d] \subseteq arrived[d]
      BY <2>1
    <2>4. \A d \in Device, a \in Book :
             \/ membership'[d][a] = membership[d][a]
             \/ /\ membership'[d][a] = "present"
                /\ membership[d][a] = "unknown"
                /\ a \in arrived[d]
      BY <2>1
    <2>. QED BY <1>2, <2>2, <2>3, <2>4
  <1>. QED BY <1>1, <1>3, <1>4

\* A full job is handed the shelf, plans, and publishes its library.
LEMMA PlannedShelfInv ==
  ASSUME TypeOK, ShelfInv, NEW e \in Device, NEW m \in {"reading", "full"}
  PROVE
    /\ StartSync(e, m) => ShelfInv'
    /\ Prepare(e) => ShelfInv'
    /\ PublishLibrary(e) => ShelfInv'
    /\ AckIndex(e) => ShelfInv'
    /\ AckBooks(e) => ShelfInv'
  <1>. USE DEF TypeOK, JobOK, storeVars, cacheVars, indexVars, appliedVars, sessionVars, serverVars,
             jobVars, loopVars, handVars, planVars, envVars
  <1>0. Point(e) /\ ShelfHanded(e) /\ ShelfLeft(e) /\ PlannedInReach(e)
        /\ StoreOK /\ CacheOK /\ ServerOK
    BY DEF ShelfInv
  <1>1. ASSUME StartSync(e, m) PROVE ShelfInv'
    <2>1. \A d \in Device \ {e} : Same(d) BY <1>1, StepSame
    <2>2. UNCHANGED <<membership, library, listedIn, left, known, arrived>>
      BY <1>1 DEF StartSync
    <2>3. /\ pc'[e] = "changed" /\ loop'[e] = "changed" /\ mode'[e] = m
          /\ arrived[e] = {}
          /\ plan'[e].books = plan[e].books
          /\ plan'[e].shelf = IF m = "full" THEN Shelf(e) ELSE {}
      BY <1>1 DEF StartSync, Goto, PlanType
    <2>4. Point(e)' BY <2>3 DEF Point
    <2>5. ShelfHanded(e)' BY <1>0, <2>2, <2>3 DEF ShelfHanded, Handed, Shelf
    <2>. QED BY <2>1, <2>2, <2>3, <2>4, <2>5, ShelfFrame
  <1>2. ASSUME Prepare(e) PROVE ShelfInv'
    <2>1. \A d \in Device \ {e} : Same(d) BY <1>2, StepSame
    <2>2. UNCHANGED <<membership, library, listedIn, left, known, arrived>>
      BY <1>2 DEF Prepare
    <2>3. Handed(e) BY <1>0, <1>2 DEF Prepare, Point, Handed
    <2>4. /\ pc'[e] = "library" /\ loop'[e] = "download"
          /\ plan'[e] = NewPlan(e)
          /\ NewPlan(e).shelf = Local(e) /\ NewPlan(e).books = Remote \cup Local(e)
      BY <1>2 DEF Prepare, Goto, NewPlan
    <2>5. Point(e)' BY <2>4 DEF Point
    <2>6. ShelfHanded(e)'
      BY <1>0, <2>2, <2>3, <2>4 DEF ShelfHanded, Handed, Local, Shelf
    <2>7. LeftOrHeld' BY <2>2 DEF ShelfInv, LeftOrHeld, Shelf
    <2>8. ASSUME NEW b \in NewPlan(e).books PROVE WithinReach(e, b)
      <3>1. CASE b \in Remote BY <3>1 DEF Remote, WithinReach
      <3>2. CASE b \in Local(e)
        <4>1. b \in Book /\ b \in plan[e].shelf /\ membership[e][b] # "removed"
          BY <3>2 DEF Local, PlanType
        <4>2. membership[e][b] = "present"
          BY <1>0, <2>3, <4>1 DEF ShelfHanded, StoreOK
        <4>. QED BY <4>1, <4>2 DEF WithinReach, Shelf
      <3>. QED BY <2>4, <3>1, <3>2
    <2>9. ASSUME NEW d \in Device
          PROVE  Point(d)' /\ ShelfHanded(d)' /\ ShelfLeft(d)' /\ PlannedInReach(d)'
      <3>1. Point(d) /\ ShelfHanded(d) /\ ShelfLeft(d) /\ PlannedInReach(d) BY DEF ShelfInv
      <3>2. ShelfLeft(d)' BY <2>2, <3>1 DEF ShelfLeft, Shelf
      <3>3. \A b : WithinReach(d, b) => WithinReach(d, b)' BY <2>2 DEF WithinReach, Shelf
      <3>4. CASE d = e
        BY <2>2, <2>4, <2>5, <2>6, <2>8, <3>1, <3>2, <3>3, <3>4 DEF PlannedInReach
      <3>5. CASE d # e
        <4>1. Same(d) BY <2>1, <3>5
        <4>. QED BY <2>2, <3>1, <3>2, <3>3, <4>1
             DEF Same, Point, ShelfHanded, Handed, Shelf, PlannedInReach
      <3>. QED BY <3>4, <3>5
    <2>. QED BY <2>7, <2>9 DEF ShelfInv
  <1>3. ASSUME PublishLibrary(e) PROVE ShelfInv'
    <2>1. \A d \in Device \ {e} : Same(d) BY <1>3, StepSame
    <2>2. /\ UNCHANGED <<membership, left, known, arrived, plan, mode, loop, pushed>>
          /\ library' = [library EXCEPT ![e] = plan[e].shelf \cap Shelf(e)]
          /\ listedIn' = listedIn \cup {e}
          /\ pc[e] = "library" /\ pc' = [pc EXCEPT ![e] = "download"]
      BY <1>3 DEF PublishLibrary, Goto
    <2>3. LeftOrHeld' BY <2>2 DEF ShelfInv, LeftOrHeld, Shelf
    <2>4. ASSUME NEW d \in Device, NEW b \in Book, WithinReach(d, b)
          PROVE  WithinReach(d, b)'
      <3>1. CASE <<d, b>> \in left \/ b \in Shelf(d)
        BY <2>2, <3>1 DEF WithinReach, Shelf
      <3>2. CASE \E q \in listedIn : b \in library[q]
        <4>1. PICK q \in listedIn : b \in library[q] BY <3>2
        <4>2. q \in Device BY <1>0 DEF ServerOK
        <4>3. CASE b \in library'[q] BY <2>2, <4>1, <4>3 DEF WithinReach
        <4>4. CASE b \notin library'[q]
          <5>1. q = e /\ b \notin plan[e].shelf \cap Shelf(e)
            BY <1>0, <2>2, <4>1, <4>2, <4>4 DEF ServerOK
          <5>2. <<e, b>> \in left
            BY <1>0, <2>2, <4>1, <5>1 DEF ShelfLeft, ShelfHanded, Handed
          <5>3. <<d, b>> \in left \/ b \in Shelf(d) BY <5>2 DEF ShelfInv, LeftOrHeld
          <5>. QED BY <2>2, <5>3 DEF WithinReach, Shelf
        <4>. QED BY <4>3, <4>4
      <3>. QED BY <2>4, <3>1, <3>2 DEF WithinReach
    <2>5. ASSUME NEW d \in Device
          PROVE  Point(d)' /\ ShelfHanded(d)' /\ ShelfLeft(d)' /\ PlannedInReach(d)'
      <3>1. Point(d) /\ ShelfHanded(d) /\ ShelfLeft(d) /\ PlannedInReach(d) BY DEF ShelfInv
      <3>2. known[d] \cup plan[d].books \subseteq Book BY <1>0 DEF CacheOK, PlanType
      <3>3. PlannedInReach(d)' BY <2>2, <2>4, <3>1, <3>2 DEF PlannedInReach
      <3>4. Point(d)' BY <2>2, <3>1 DEF Point
      <3>5. ShelfHanded(d)' BY <2>2, <3>1 DEF ShelfHanded, Handed, Shelf, Point
      <3>6. ShelfLeft(d)' BY <1>0, <2>2, <3>1 DEF ShelfLeft, Shelf, ServerOK
      <3>. QED BY <3>3, <3>4, <3>5, <3>6
    <2>. QED BY <2>3, <2>5 DEF ShelfInv
  <1>4. ASSUME AckIndex(e) PROVE ShelfInv'
    <2>1. \A d \in Device \ {e} : Same(d) BY <1>4, StepSame
    <2>2. PICK q \in plan[e].from : plan' = [plan EXCEPT ![e].from = @ \ {q}]
      BY <1>4 DEF AckIndex
    <2>3. plan'[e].books = plan[e].books /\ plan'[e].shelf = plan[e].shelf
      BY <2>2 DEF PlanType
    <2>4. UNCHANGED <<membership, library, listedIn, left, known, arrived, pc, mode, loop,
                      pushed>>
      BY <1>4 DEF AckIndex
    <2>5. Point(e)' /\ ShelfHanded(e)'
      BY <1>0, <2>3, <2>4 DEF Point, ShelfHanded, Handed, Shelf
    <2>. QED BY <2>1, <2>3, <2>4, <2>5, ShelfFrame
  <1>5. ASSUME AckBooks(e) PROVE ShelfInv'
    <2>1. \A d \in Device \ {e} : Same(d) BY <1>5, StepSame
    <2>2. /\ UNCHANGED <<membership, library, listedIn, left, plan, arrived, mode, loop,
                         pushed>>
          /\ known'[e] = known[e] \cup plan[e].books
          /\ pc[e] = "ackIndex" /\ pc'[e] \in {"ackAudit", "ackSession"}
      BY <1>0, <1>5 DEF AckBooks, Goto, CacheOK
    <2>3. Point(e)' /\ ShelfHanded(e)'
      BY <1>0, <2>2 DEF Point, ShelfHanded, Handed, Shelf
    <2>. QED BY <2>1, <2>2, <2>3, ShelfFrame
  <1>. QED BY <1>1, <1>2, <1>3, <1>4, <1>5

LEMMA StepShelfInv == TypeOK /\ ShelfInv /\ [Next]_vars => ShelfInv'
  <1>. SUFFICES ASSUME TypeOK, ShelfInv, [Next]_vars PROVE ShelfInv' OBVIOUS
  <1>1. ASSUME NEW e \in Device, Job(e) PROVE ShelfInv'
    BY <1>1, BoundsAssumption, QuietShelfInv, PlannedShelfInv
    DEF Job, Upload, Merge, Publish, PlanAndAck
  <1>2. CASE Environment
    BY <1>2, BoundsAssumption, QuietShelfInv, MovedShelfInv, PlannedShelfInv
    DEF Environment, Reader
  <1>3. CASE UNCHANGED vars
    BY <1>3 DEF vars, storeVars, cacheVars, appliedVars, serverVars, jobVars, loopVars,
                handVars, planVars, envVars, ShelfInv, LeftOrHeld, Point, ShelfHanded, Handed,
                ShelfLeft, PlannedInReach, WithinReach, Shelf
  <1>. QED BY <1>1, <1>2, <1>3 DEF Next
==============================================================================
