------------------------ MODULE ReadingDelivery_proofs ------------------------
(***************************************************************************)
(* ReadingSync implements Delivery, for any number of devices and books.   *)
(*                                                                         *)
(* A merge replaces what a device has of a peer by a newer file only, so   *)
(* what has to be shown is that newer files carry more changes.  A lost    *)
(* file leaves no trace on the server, but the copies that were merged and *)
(* the ones that are listed in a running job still count: the next upload  *)
(* must not fall behind any of them.                                       *)
(***************************************************************************)
EXTENDS ReadingDelivery, ReadingSync_merge

\* The listing of d is the one of the book in hand.
Comparing(d) ==
    \/ pc[d] \in {"merge", "mark"}
    \/ pc[d] \in {"put", "record", "flag"} /\ loop[d] # "changed"

\* A stamp of p's files for b that is no newer than what p did.
Past(p, b, s) ==
    /\ s.ver <= uploads[p][b]
    /\ s.rev <= revision[p][b]
    /\ pc[p] = "put" /\ book[p] = b => s.rev <= snap[p]
    /\ state[p][b] # NoStamp => s.rev <= state[p][b].rev

\* Merged files, listed files and files on the server are all of the past.
AllPast ==
    \A p \in Device, b \in Book :
        /\ Past(p, b, state[p][b])
        /\ \A d \in Device : Past(p, b, merged[d][p][b])
        /\ \A d \in Device : Comparing(d) /\ book[d] = b => Past(p, b, listing[d][p])

\* A file on the server is the last upload.
Newest ==
    \A p \in Device, b \in Book : state[p][b] # NoStamp => state[p][b].ver = uploads[p][b]

\* A listed file that is newer than the merged one carries no less.
ListedForward ==
    \A d \in Device : Comparing(d) =>
        /\ listing[d][d] = NoStamp
        /\ \A p \in Device :
              merged[d][p][book[d]].ver < listing[d][p].ver
                  => merged[d][p][book[d]].rev <= listing[d][p].rev

Looping == \A d \in Device : pc[d] = "changed" => loop[d] = "changed"

\* A snapshot about to be uploaded was taken.
Snapped == \A d \in Device : pc[d] = "put" => snap[d] <= revision[d][book[d]]

ForwardInv == AllPast /\ Newest /\ ListedForward /\ Looping /\ Snapped

LEMMA InitForwardInv == Init => ForwardInv
  BY DEF Init, ForwardInv, AllPast, Past, Newest, ListedForward, Looping, Snapped,
         Comparing, NoIndex, NoStamp

\* A step that uploads, lists and merges nothing, but may lose a file, drop a
\* listed one, or change a book.
LEMMA Frame ==
  ASSUME TypeOK, TypeOK', ForwardInv, UNCHANGED <<merged, uploads>>, Looping',
         \A p \in Device, b \in Book : /\ revision[p][b] <= revision'[p][b]
                                       /\ state'[p][b] \in {state[p][b], NoStamp},
         \A d \in Device : Comparing(d)' => /\ Comparing(d) /\ book'[d] = book[d]
                                            /\ \A p \in Device :
                                                  listing'[d][p] \in {listing[d][p], NoStamp},
         \A d \in Device : pc'[d] = "put" => /\ pc[d] = "put" /\ book'[d] = book[d]
                                             /\ snap'[d] = snap[d]
  PROVE  ForwardInv'
  <1>. USE DEF ForwardInv
  <1>1. ASSUME NEW p \in Device, NEW b \in Book, NEW s \in Stamp, Past(p, b, s)
        PROVE  Past(p, b, s)'
    <2>1. s.rev \in Nat /\ s.ver \in Nat BY DEF Stamp
    <2>2. revision[p][b] \in Nat /\ revision'[p][b] \in Nat BY DEF TypeOK, StoreOK
    <2>. QED BY <1>1, <2>1, <2>2 DEF Past
  <1>2. ASSUME NEW p \in Device, NEW b \in Book PROVE Past(p, b, NoStamp)'
    BY DEF Past, NoStamp, TypeOK, StoreOK, ServerOK, EnvOK, JobOK, Stamp
  <1>3. AllPast'
    <2>. SUFFICES ASSUME NEW p \in Device, NEW b \in Book
         PROVE  /\ Past(p, b, state[p][b])'
                /\ \A d \in Device : Past(p, b, merged[d][p][b])'
                /\ \A d \in Device : Comparing(d)' /\ book'[d] = b
                                        => Past(p, b, listing[d][p])'
      BY DEF AllPast
    <2>1. Past(p, b, state[p][b])'
      <3>1. state[p][b] \in Stamp BY DEF TypeOK, ServerOK
      <3>2. Past(p, b, state[p][b]) BY DEF AllPast
      <3>3. CASE state'[p][b] = state[p][b] 
        <4>. DEFINE s == state[p][b]
        <4>1. Past(p, b, s) /\ s \in Stamp BY <3>1, <3>2
        <4>2. s.ver <= uploads'[p][b] /\ s.rev <= revision'[p][b]
          BY <4>1 DEF Past, TypeOK, StoreOK, Stamp
        <4>. QED BY <3>3, <4>1, <4>2 DEF Past, Stamp
      <3>4. CASE state'[p][b] = NoStamp BY <3>4, <1>2 DEF Past
      <3>. QED BY <3>3, <3>4
    <2>2. ASSUME NEW d \in Device PROVE Past(p, b, merged[d][p][b])'
      <3>. DEFINE s == merged[d][p][b]
      <3>1. s \in Stamp /\ Past(p, b, s) BY DEF TypeOK, StoreOK, AllPast
      <3>2. UNCHANGED s OBVIOUS
      <3>. QED BY <1>1, <3>1, <3>2 DEF Past
    <2>3. ASSUME NEW d \in Device, Comparing(d)', book'[d] = b
          PROVE  Past(p, b, listing[d][p])'
      <3>. DEFINE s == listing[d][p]
      <3>1. s \in Stamp /\ Past(p, b, s) BY <2>3 DEF TypeOK, JobOK, AllPast
      <3>2. CASE UNCHANGED s BY <1>1, <3>1, <3>2 DEF Past
      <3>3. CASE s' = NoStamp BY <1>2, <3>3 DEF Past
      <3>. QED BY <2>3, <3>2, <3>3
    <2>. QED BY <2>1, <2>2, <2>3
  <1>4. Newest' BY DEF Newest
  <1>5. ListedForward'
    <2>. SUFFICES ASSUME NEW d \in Device, Comparing(d)'
         PROVE  /\ listing'[d][d] = NoStamp
                /\ \A p \in Device :
                      merged'[d][p][book'[d]].ver < listing'[d][p].ver
                          => merged'[d][p][book'[d]].rev <= listing'[d][p].rev
      BY DEF ListedForward
    <2>1. /\ Comparing(d) /\ book'[d] = book[d]
          /\ \A p \in Device : listing'[d][p] \in {listing[d][p], NoStamp}
      OBVIOUS
    <2>2. ASSUME NEW p \in Device, merged'[d][p][book'[d]].ver < listing'[d][p].ver
          PROVE  merged'[d][p][book'[d]].rev <= listing'[d][p].rev
      <3>1. merged[d][p][book[d]] \in Stamp BY DEF TypeOK, StoreOK, JobOK
      <3>2. listing'[d][p] # NoStamp BY <2>1, <2>2, <3>1 DEF NoStamp, Stamp
      <3>3. listing'[d][p] = listing[d][p] BY <2>1, <3>2
      <3>. QED BY <2>1, <2>2, <3>3 DEF ListedForward
    <2>. QED BY <2>1, <2>2 DEF ListedForward
  <1>6. Snapped' BY DEF Snapped, TypeOK, StoreOK, JobOK
  <1>. QED BY <1>3, <1>4, <1>5, <1>6

\* What Frame asks of a step.
Idles ==
    /\ UNCHANGED <<merged, uploads>> /\ Looping'
    /\ \A p \in Device, b \in Book : /\ revision[p][b] <= revision'[p][b]
                                      /\ state'[p][b] \in {state[p][b], NoStamp}
    /\ \A d \in Device : Comparing(d)' => /\ Comparing(d) /\ book'[d] = book[d]
                                           /\ \A p \in Device :
                                                 listing'[d][p] \in {listing[d][p], NoStamp}
    /\ \A d \in Device : pc'[d] = "put" => /\ pc[d] = "put" /\ book'[d] = book[d]
                                            /\ snap'[d] = snap[d]

LEMMA StepIdles ==
  ASSUME TypeOK, Looping, NEW e \in Device
  PROVE
    /\ \A b \in Book : Edit(e, b) => Idles
    /\ \A b \in Book : RemoveBook(e, b) => Idles
    /\ \A b \in Book : RestoreBook(e, b) => Idles
    /\ \A m \in {"reading", "full"} : StartSync(e, m) => Idles
    /\ RecordToken(e) => Idles
    /\ RecordFlag(e) => Idles
    /\ SkipState(e) => Idles
    /\ MarkApplied(e) => Idles
    /\ AckReading(e) => Idles
    /\ PublishNothing(e) => Idles
    /\ PublishIndex(e) => Idles
    /\ PublishDone(e) => Idles
    /\ Prepare(e) => Idles
    /\ PublishLibrary(e) => Idles
    /\ BeginPlan(e) => Idles
    /\ Checkpoint(e) => Idles
    /\ AckIndex(e) => Idles
    /\ AckBooks(e) => Idles
    /\ AckAudit(e) => Idles
    /\ AckSession(e) => Idles
    /\ Abort(e) => Idles
    /\ AuditExpires(e) => Idles
    /\ \A b \in Book : LoseState(e, b) => Idles
    /\ Import(e) => Idles
    /\ Deliver(e) => Idles
  <1>. USE DEF TypeOK, StoreOK, ServerOK, JobOK, Idles, Looping, Comparing, storeVars,
             serverVars, jobVars, loopVars, handVars, planVars, envVars
  <1>1. \A b \in Book : Edit(e, b) => Idles BY DEF Edit, storeVars
  <1>2. \A b \in Book : RemoveBook(e, b) => Idles BY DEF RemoveBook
  <1>3. \A b \in Book : RestoreBook(e, b) => Idles BY DEF RestoreBook
  <1>4. \A m \in {"reading", "full"} : StartSync(e, m) => Idles BY DEF StartSync, Goto
  <1>5. RecordToken(e) => Idles BY DEF RecordToken, NewToken, Goto
  <1>6. RecordFlag(e) => Idles BY DEF RecordFlag, AfterRecord, Goto
  <1>7. SkipState(e) => Idles BY DEF SkipState, Unlist
  <1>8. MarkApplied(e) => Idles BY DEF MarkApplied, Unlist, Goto
  <1>9. AckReading(e) => Idles BY DEF AckReading, Acknowledged, AtAcknowledge, Goto
  <1>10. PublishNothing(e) => Idles BY DEF PublishNothing, LeavePublish, AfterPublish, Forget, Goto
  <1>11. PublishIndex(e) => Idles BY DEF PublishIndex, Goto
  <1>12. PublishDone(e) => Idles BY DEF PublishDone, LeavePublish, AfterPublish, Forget, Goto
  <1>13. Prepare(e) => Idles BY DEF Prepare, Goto
  <1>14. PublishLibrary(e) => Idles BY DEF PublishLibrary, Goto
  <1>15. BeginPlan(e) => Idles BY DEF BeginPlan, Goto
  <1>16. Checkpoint(e) => Idles BY DEF Checkpoint, Goto
  <1>17. AckIndex(e) => Idles BY DEF AckIndex
  <1>18. AckBooks(e) => Idles BY DEF AckBooks, Goto
  <1>19. AckAudit(e) => Idles BY DEF AckAudit, Goto
  <1>20. AckSession(e) => Idles BY DEF AckSession, Forget, Goto
  <1>21. Abort(e) => Idles BY DEF Abort, Forget, Goto
  <1>22. AuditExpires(e) => Idles BY DEF AuditExpires
  <1>23. \A b \in Book : LoseState(e, b) => Idles BY DEF LoseState
  <1>24. Import(e) => Idles BY DEF Import
  <1>25. Deliver(e) => Idles BY DEF Deliver, Goto
  <1>. QED BY <1>1, <1>2, <1>3, <1>4, <1>5, <1>6, <1>7, <1>8, <1>9, <1>10, <1>11, <1>12, <1>13, <1>14, <1>15, <1>16, <1>17, <1>18, <1>19, <1>20, <1>21, <1>22, <1>23, <1>24, <1>25

\* A step that puts a book into the hands of a job of device e, listing its
\* files or, in the first loop, leaving that for later.
LEMMA TakeForward ==
  ASSUME TypeOK, TypeOK', ForwardInv, Looping', NEW e \in Device,
         UNCHANGED <<merged, uploads, state, revision>>,
         \A d \in Device \ {e} : UNCHANGED <<pc[d], loop[d], book[d], snap[d], listing[d]>>,
         pc'[e] = "put" => snap'[e] = revision[e][book'[e]],
         Comparing(e)' => \A p \in Device :
             listing'[e][p] = IF p = e THEN NoStamp ELSE state[p][book'[e]]
  PROVE  ForwardInv'
  <1>. USE DEF ForwardInv
  <1>1. ASSUME NEW p \in Device, NEW b \in Book, NEW s \in Stamp, Past(p, b, s)
        PROVE  Past(p, b, s)'
    <2>1. CASE p = e BY <1>1, <2>1 DEF Past
    <2>2. CASE p # e BY <1>1, <2>2 DEF Past
    <2>. QED BY <2>1, <2>2
  <1>2. ASSUME NEW p \in Device, NEW b \in Book PROVE Past(p, b, NoStamp)'
    BY DEF Past, NoStamp, TypeOK, StoreOK, ServerOK, EnvOK, JobOK, Stamp
  <1>3. ASSUME NEW p \in Device, NEW b \in Book PROVE Past(p, b, state[p][b])'
    <2>. DEFINE s == state[p][b]
    <2>1. s \in Stamp /\ Past(p, b, s) BY DEF TypeOK, ServerOK, AllPast
    <2>2. UNCHANGED s OBVIOUS
    <2>. QED BY <1>1, <2>1, <2>2 DEF Past
  <1>4. AllPast'
    <2>. SUFFICES ASSUME NEW p \in Device, NEW b \in Book, NEW d \in Device
         PROVE  /\ Past(p, b, merged[d][p][b])'
                /\ Comparing(d)' /\ book'[d] = b => Past(p, b, listing[d][p])'
      BY <1>3 DEF AllPast
    <2>1. Past(p, b, merged[d][p][b])'
      <3>. DEFINE s == merged[d][p][b]
      <3>1. s \in Stamp /\ Past(p, b, s) BY DEF TypeOK, StoreOK, AllPast
      <3>2. UNCHANGED s OBVIOUS
      <3>. QED BY <1>1, <3>1, <3>2 DEF Past
    <2>2. ASSUME Comparing(d)', book'[d] = b, d # e PROVE Past(p, b, listing[d][p])'
      <3>. DEFINE s == listing[d][p]
      <3>1. Comparing(d) /\ book[d] = b BY <2>2 DEF Comparing
      <3>2. s \in Stamp /\ Past(p, b, s) BY <3>1 DEF TypeOK, JobOK, AllPast
      <3>3. UNCHANGED s BY <2>2
      <3>. QED BY <1>1, <3>2, <3>3 DEF Past
    <2>3. ASSUME Comparing(d)', book'[d] = b, d = e PROVE Past(p, b, listing[d][p])'
      <3>1. listing'[e][p] \in {NoStamp, state'[p][b]} BY <2>3
      <3>. QED BY <1>2, <1>3, <2>3, <3>1 DEF Past
    <2>. QED BY <2>1, <2>2, <2>3
  <1>5. Newest' BY DEF Newest
  <1>6. ListedForward'
    <2>. SUFFICES ASSUME NEW d \in Device, Comparing(d)'
         PROVE  /\ listing'[d][d] = NoStamp
                /\ \A p \in Device :
                      merged'[d][p][book'[d]].ver < listing'[d][p].ver
                          => merged'[d][p][book'[d]].rev <= listing'[d][p].rev
      BY DEF ListedForward
    <2>1. CASE d # e BY <2>1 DEF ListedForward, Comparing
    <2>2. CASE d = e
      <3>1. ASSUME NEW p \in Device, merged[e][p][book'[e]].ver < listing'[e][p].ver
            PROVE  merged[e][p][book'[e]].rev <= listing'[e][p].rev
        <4>1. merged[e][p][book'[e]] \in Stamp /\ book'[e] \in Book
          BY DEF TypeOK, StoreOK, JobOK
        <4>2. listing'[e][p] # NoStamp BY <3>1, <4>1 DEF NoStamp, Stamp
        <4>3. listing'[e][p] = state[p][book'[e]] /\ state[p][book'[e]] # NoStamp
          BY <2>2, <4>2
        <4>4. Past(p, book'[e], merged[e][p][book'[e]]) BY <4>1 DEF AllPast
        <4>. QED BY <4>3, <4>4 DEF Past
      <3>. QED BY <2>2, <3>1
    <2>. QED BY <2>1, <2>2
  <1>7. Snapped'
    <2>. SUFFICES ASSUME NEW d \in Device, pc'[d] = "put"
                  PROVE  snap'[d] <= revision'[d][book'[d]]
      BY DEF Snapped
    <2>1. CASE d = e BY <2>1 DEF TypeOK, StoreOK, JobOK
    <2>2. CASE d # e BY <2>2 DEF Snapped
    <2>. QED BY <2>1, <2>2
  <1>. QED BY <1>4, <1>5, <1>6, <1>7

LEMMA TakenForward ==
  ASSUME TypeOK, TypeOK', ForwardInv, NEW e \in Device,
         Snapshot(e) \/ ListStates(e) \/ Download(e) \/ PlanBook(e)
  PROVE  ForwardInv'
  <1>. USE DEF TypeOK, JobOK, ForwardInv, Looping, Comparing, Goto, ListFiles, storeVars,
               serverVars, loopVars, handVars, planVars, envVars
  <1>1. CASE Snapshot(e) BY <1>1, TakeForward DEF Snapshot, TakeSnapshot
  <1>2. CASE ListStates(e) BY <1>2, TakeForward DEF ListStates
  <1>3. CASE Download(e)
    <2>1. PICK b \in fetch[e] :
             IF b \in plan[e].reading THEN Take(e, b, PendingReading(e))
             ELSE /\ book' = [book EXCEPT ![e] = b] /\ Goto(e, "deliver")
                  /\ UNCHANGED <<snap, pushed, listing>>
      BY <1>3 DEF Download
    <2>2. /\ UNCHANGED <<merged, uploads, state, revision, loop>>
          /\ pc[e] = "download" /\ b \in Book
      BY <1>3 DEF Download
    <2>3. CASE b \in plan[e].reading
      <3>1. PICK repair \in Repairs(e, b) :
               LET push == b \in PendingReading(e) \/ repair
               IN  /\ book' = [book EXCEPT ![e] = b]
                   /\ ListFiles(e, b)
                   /\ pushed' = [pushed EXCEPT ![e] = push]
                   /\ snap' = [snap EXCEPT ![e] = IF push THEN revision[e][b] ELSE 0]
                   /\ Goto(e, IF push THEN "put" ELSE "merge")
        BY <2>1, <2>3 DEF Take
      <3>2. \A d \in Device \ {e} : UNCHANGED <<pc[d], loop[d], book[d], snap[d], listing[d]>>
        BY <2>2, <3>1
      <3>3. /\ pc'[e] = "put" => snap'[e] = revision[e][book'[e]]
            /\ \A p \in Device :
                  listing'[e][p] = IF p = e THEN NoStamp ELSE state[p][book'[e]]
            /\ Looping'
        BY <2>2, <3>1
      <3>. QED BY <2>2, <3>2, <3>3, TakeForward
    <2>4. CASE b \notin plan[e].reading
      <3>1. /\ pc' = [pc EXCEPT ![e] = "deliver"]
            /\ book' = [book EXCEPT ![e] = b] /\ UNCHANGED <<snap, listing>>
        BY <2>1, <2>4
      <3>2. \A d \in Device \ {e} : UNCHANGED <<pc[d], loop[d], book[d], snap[d], listing[d]>>
        BY <2>2, <3>1
      <3>. QED BY <2>2, <3>1, <3>2, TakeForward
    <2>. QED BY <2>3, <2>4
  <1>4. CASE PlanBook(e) BY <1>4, TakeForward DEF PlanBook, Take
  <1>. QED BY <1>1, <1>2, <1>3, <1>4

\* An upload is newer than every copy of an earlier one, and carries no less.
LEMMA PutForward ==
  ASSUME TypeOK, TypeOK', ForwardInv, NEW e \in Device, PutState(e)
  PROVE  ForwardInv'
  <1>. USE DEF ForwardInv
  <1>. DEFINE c == book[e]
              new == [ver |-> uploads[e][c] + 1, rev |-> snap[e]]
  <1>0. /\ pc[e] = "put" /\ c \in Book
        /\ uploads' = [uploads EXCEPT ![e][c] = @ + 1]
        /\ state' = [state EXCEPT ![e][c] = new]
        /\ pc' = [pc EXCEPT ![e] = "record"]
        /\ UNCHANGED <<merged, revision, loop, book, snap, listing>>
        /\ uploads[e][c] \in Nat /\ snap[e] \in Nat /\ new \in Stamp
    BY DEF PutState, Goto, loopVars, handVars, storeVars, TypeOK, JobOK, EnvOK, Stamp
  <1>1. ASSUME NEW p \in Device, NEW b \in Book, NEW s \in Stamp, Past(p, b, s)
        PROVE  Past(p, b, s)'
    <2>1. CASE p = e /\ b = c
      <3>1. s.ver <= uploads[e][c] /\ s.rev <= revision[e][c] /\ s.rev <= snap[e]
        BY <1>0, <1>1, <2>1 DEF Past
      <3>2. uploads'[e][c] = uploads[e][c] + 1 /\ state'[e][c] = new /\ pc'[e] = "record"
        BY <1>0 DEF TypeOK, EnvOK, ServerOK, JobOK
      <3>. QED BY <1>0, <2>1, <3>1, <3>2 DEF Past, Stamp
    <2>2. CASE ~(p = e /\ b = c)
      <3>1. UNCHANGED <<uploads[p][b], state[p][b]>> /\ (pc'[p] = "put" => pc[p] = "put")
        BY <1>0, <2>2 DEF TypeOK, EnvOK, ServerOK, JobOK
      <3>. QED BY <1>0, <1>1, <3>1 DEF Past
    <2>. QED BY <2>1, <2>2
  <1>2. ASSUME NEW s \in Stamp, s = new PROVE Past(e, c, s)'
    <2>1. /\ uploads'[e][c] = uploads[e][c] + 1 /\ state'[e][c] = new
          /\ pc'[e] = "record" /\ snap[e] <= revision[e][c]
      BY <1>0 DEF TypeOK, EnvOK, ServerOK, JobOK, Snapped
    <2>. QED BY <1>0, <1>2, <2>1 DEF Past
  <1>3. \A d \in Device : Comparing(d)' <=> Comparing(d)
    BY <1>0 DEF Comparing, TypeOK, JobOK
  <1>4. AllPast'
    <2>. SUFFICES ASSUME NEW p \in Device, NEW b \in Book, NEW d \in Device
         PROVE  /\ Past(p, b, state[p][b])'
                /\ Past(p, b, merged[d][p][b])'
                /\ Comparing(d)' /\ book'[d] = b => Past(p, b, listing[d][p])'
      BY DEF AllPast
    <2>1. Past(p, b, state[p][b])'
      <3>1. CASE p = e /\ b = c
        <4>1. state'[p][b] = new BY <1>0, <3>1 DEF TypeOK, ServerOK
        <4>. QED BY <1>0, <1>2, <3>1, <4>1 DEF Past
      <3>2. CASE ~(p = e /\ b = c)
        <4>. DEFINE s == state[p][b]
        <4>1. s \in Stamp /\ Past(p, b, s) BY DEF TypeOK, ServerOK, AllPast
        <4>2. UNCHANGED s BY <1>0, <3>2 DEF TypeOK, ServerOK
        <4>. QED BY <1>1, <4>1, <4>2 DEF Past
      <3>. QED BY <3>1, <3>2
    <2>2. Past(p, b, merged[d][p][b])'
      <3>. DEFINE s == merged[d][p][b]
      <3>1. s \in Stamp /\ Past(p, b, s) BY DEF TypeOK, StoreOK, AllPast
      <3>2. UNCHANGED s BY <1>0
      <3>. QED BY <1>1, <3>1, <3>2 DEF Past
    <2>3. ASSUME Comparing(d)', book'[d] = b PROVE Past(p, b, listing[d][p])'
      <3>. DEFINE s == listing[d][p]
      <3>1. s \in Stamp /\ Past(p, b, s)
        BY <1>0, <1>3, <2>3 DEF TypeOK, JobOK, AllPast
      <3>2. UNCHANGED s BY <1>0
      <3>. QED BY <1>1, <3>1, <3>2 DEF Past
    <2>. QED BY <2>1, <2>2, <2>3
  <1>5. Newest' BY <1>0 DEF Newest, TypeOK, EnvOK, ServerOK
  <1>6. ListedForward' BY <1>0, <1>3 DEF ListedForward
  <1>7. Looping' /\ Snapped' BY <1>0 DEF Looping, Snapped, TypeOK, JobOK
  <1>. QED BY <1>4, <1>5, <1>6, <1>7

\* A merge takes a file of the past that is newer than the one it replaces.
LEMMA MergeForward ==
  ASSUME TypeOK, TypeOK', ForwardInv, NEW e \in Device, MergeState(e)
  PROVE  /\ ForwardInv'
         /\ \E p \in Device \ {e} :
               /\ \A d, q \in Device, b \in Book :
                     <<d, q, b>> # <<e, p, book[e]>> => merged'[d][q][b] = merged[d][q][b]
               /\ merged'[e][p][book[e]].rev
                      \in merged[e][p][book[e]].rev..revision[p][book[e]]
               /\ \/ UNCHANGED revision
                  \/ revision' = [revision EXCEPT ![e][book[e]] = @ + 1]
  <1>. USE DEF ForwardInv
  <1>. DEFINE c == book[e]
  <1>. DEFINE Taken(p, f, r) ==
          /\ merged' = [merged EXCEPT ![e][p][c] = IF AtLeast(@, f) THEN @ ELSE f]
          /\ revision' = [revision EXCEPT ![e][c] = IF r THEN @ + 1 ELSE @]
          /\ listing' = [listing EXCEPT ![e][p] = f]
  <1>0. PICK p \in Listed(e) :
           \E f \in Fetched(e, p) \ {NoStamp}, r \in BOOLEAN : Taken(p, f, r)
    BY DEF MergeState
  <1>1. PICK f \in Fetched(e, p) \ {NoStamp}, r \in BOOLEAN : Taken(p, f, r)
    BY <1>0
  <1>2. /\ pc[e] = "merge" /\ pc' = [pc EXCEPT ![e] = "mark"] /\ c \in Book
        /\ UNCHANGED <<loop, book, snap, uploads, state>>
    BY DEF MergeState, Goto, loopVars, envVars, serverVars, TypeOK, JobOK
  <1>3. p \in Device /\ p # e /\ f \in Stamp /\ Comparing(e)
    BY <1>1, <1>2 DEF Listed, Fetched, Comparing, ListedForward, TypeOK, JobOK, ServerOK
  <1>4. Past(p, c, f) BY <1>1, <1>2, <1>3 DEF Fetched, AllPast
  <1>5. /\ merged[e][p][c] \in Stamp
        /\ ~AtLeast(merged[e][p][c], f) => merged[e][p][c].rev <= f.rev
    <2>1. merged[e][p][c] \in Stamp BY <1>2, <1>3 DEF TypeOK, StoreOK
    <2>2. CASE f = listing[e][p]
      BY <1>3, <2>1, <2>2 DEF ListedForward, AtLeast, Stamp
    <2>3. CASE f = state[p][c]
      <3>1. Past(p, c, merged[e][p][c]) BY <1>2, <1>3 DEF AllPast
      <3>. QED BY <1>1, <2>1, <2>3, <3>1 DEF Past
    <2>. QED BY <2>1, <2>2, <2>3, <1>1 DEF Fetched
  <1>6. ASSUME NEW q \in Device, NEW b \in Book, NEW s \in Stamp, Past(q, b, s)
        PROVE  Past(q, b, s)'
    <2>1. revision[q][b] <= revision'[q][b] /\ revision[q][b] \in Nat
          /\ revision'[q][b] \in Nat
      BY <1>1, <1>2 DEF TypeOK, StoreOK
    <2>2. pc'[q] = "put" => pc[q] = "put" BY <1>2 DEF TypeOK, JobOK
    <2>. QED BY <1>2, <1>6, <2>1, <2>2 DEF Past, Stamp
  <1>7. \A d, q \in Device, b \in Book :
           merged'[d][q][b] = IF <<d, q, b>> # <<e, p, c>> THEN merged[d][q][b]
                              ELSE IF AtLeast(merged[e][p][c], f) THEN merged[e][p][c] ELSE f
    BY <1>1, <1>2, <1>3 DEF TypeOK, StoreOK
  <1>8. \A d, q \in Device :
           listing'[d][q] = IF <<d, q>> = <<e, p>> THEN f ELSE listing[d][q]
    BY <1>1, <1>3 DEF TypeOK, JobOK
  <1>9. \A d \in Device : Comparing(d)' <=> Comparing(d)
    BY <1>2 DEF Comparing, TypeOK, JobOK
  <1>10. AllPast'
    <2>. SUFFICES ASSUME NEW q \in Device, NEW b \in Book, NEW d \in Device
         PROVE  /\ Past(q, b, state[q][b])'
                /\ Past(q, b, merged[d][q][b])'
                /\ Comparing(d)' /\ book'[d] = b => Past(q, b, listing[d][q])'
      BY DEF AllPast
    <2>1. Past(q, b, state[q][b])'
      <3>. DEFINE s == state[q][b]
      <3>1. s \in Stamp /\ Past(q, b, s) BY DEF TypeOK, ServerOK, AllPast
      <3>2. UNCHANGED s BY <1>2
      <3>. QED BY <1>6, <3>1, <3>2 DEF Past
    <2>2. Past(q, b, merged[d][q][b])'
      <3>. DEFINE s == merged'[d][q][b]
      <3>1. merged[d][q][b] \in Stamp /\ Past(q, b, merged[d][q][b])
        BY DEF TypeOK, StoreOK, AllPast
      <3>2. s \in Stamp /\ Past(q, b, s) BY <1>3, <1>4, <1>7, <3>1
      <3>. HIDE DEF s
      <3>. QED BY <1>6, <3>2 DEF s, Past
    <2>3. ASSUME Comparing(d)', book'[d] = b PROVE Past(q, b, listing[d][q])'
      <3>1. Comparing(d) /\ book[d] = b BY <1>2, <1>9, <2>3
      <3>2. listing[d][q] \in Stamp /\ Past(q, b, listing[d][q])
        BY <3>1 DEF TypeOK, JobOK, AllPast
      <3>. QED BY <1>3, <1>4, <1>6, <1>8, <3>1, <3>2 DEF Past
    <2>. QED BY <2>1, <2>2, <2>3
  <1>11. Newest' BY <1>2 DEF Newest
  <1>12. ListedForward'
    <2>. SUFFICES ASSUME NEW d \in Device, Comparing(d)'
         PROVE  /\ listing'[d][d] = NoStamp
                /\ \A q \in Device :
                      merged'[d][q][book'[d]].ver < listing'[d][q].ver
                          => merged'[d][q][book'[d]].rev <= listing'[d][q].rev
      BY DEF ListedForward
    <2>1. Comparing(d) /\ book'[d] = book[d] /\ book[d] \in Book
      BY <1>2, <1>9 DEF TypeOK, JobOK
    <2>2. ASSUME NEW q \in Device, merged'[d][q][book[d]].ver < listing'[d][q].ver
          PROVE  merged'[d][q][book[d]].rev <= listing'[d][q].rev
      <3>1. CASE <<d, q>> = <<e, p>>
        BY <1>3, <1>5, <1>7, <1>8, <2>1, <2>2, <3>1 DEF AtLeast, Stamp
      <3>2. CASE <<d, q>> # <<e, p>>
        BY <1>7, <1>8, <2>1, <2>2, <3>2 DEF ListedForward
      <3>. QED BY <3>1, <3>2
    <2>. QED BY <1>3, <1>8, <2>1, <2>2 DEF ListedForward
  <1>13. Looping' /\ Snapped'
    BY <1>1, <1>2 DEF Looping, Snapped, TypeOK, StoreOK, JobOK
  <1>14. merged'[e][p][c].rev \in merged[e][p][c].rev..revision[p][c]
    <2>1. merged[e][p][c].rev <= revision[p][c] /\ f.rev <= revision[p][c]
      BY <1>2, <1>3, <1>4 DEF AllPast, Past
    <2>. QED BY <1>2, <1>3, <1>5, <1>7, <2>1 DEF Stamp, TypeOK, StoreOK
  <1>15. \/ UNCHANGED revision
         \/ revision' = [revision EXCEPT ![e][c] = @ + 1]
    <2>1. CASE r BY <1>1, <2>1
    <2>2. CASE ~r
      <3>1. revision' = [revision EXCEPT ![e][c] = @] BY <1>1, <2>2
      <3>. QED BY <1>2, <3>1 DEF TypeOK, StoreOK
    <2>. QED BY <2>1, <2>2
  <1>16. \A d, q \in Device, b \in Book :
            <<d, q, b>> # <<e, p, c>> => merged'[d][q][b] = merged[d][q][b]
    BY <1>7
  <1>17. ForwardInv' BY <1>10, <1>11, <1>12, <1>13
  <1>. QED BY <1>3, <1>14, <1>15, <1>16, <1>17

LEMMA StepForwardInv == TypeOK /\ ForwardInv /\ [Next]_vars => ForwardInv'
  <1>. SUFFICES ASSUME TypeOK, ForwardInv, [Next]_vars PROVE ForwardInv'
    OBVIOUS
  <1>1. TypeOK' BY StepTypeOK
  <1>2. ASSUME Idles PROVE ForwardInv'
    BY <1>1, <1>2, Frame DEF Idles
  <1>3. ASSUME NEW e \in Device, Job(e) PROVE ForwardInv'
    <2>1. CASE Snapshot(e) \/ ListStates(e) \/ Download(e) \/ PlanBook(e)
      BY <1>1, <2>1, TakenForward
    <2>2. CASE PutState(e) BY <1>1, <2>2, PutForward
    <2>3. CASE MergeState(e) BY <1>1, <2>3, MergeForward
    <2>4. CASE ~(Snapshot(e) \/ ListStates(e) \/ Download(e) \/ PlanBook(e)
                 \/ PutState(e) \/ MergeState(e))
      <3>1. Idles
        BY <1>3, <2>4, StepIdles DEF ForwardInv, Job, Upload, Merge, Publish, PlanAndAck
      <3>. QED BY <1>2, <3>1
    <2>. QED BY <2>1, <2>2, <2>3, <2>4
  <1>4. ASSUME Environment PROVE ForwardInv'
    <2>1. Idles BY <1>4, StepIdles DEF ForwardInv, Environment, Reader
    <2>. QED BY <1>2, <2>1
  <1>5. CASE UNCHANGED vars
    <2>1. Idles
      BY <1>5 DEF Idles, ForwardInv, Looping, Comparing, TypeOK, StoreOK, vars, storeVars, serverVars, jobVars,
                  loopVars, handVars, envVars
    <2>. QED BY <1>2, <2>1
  <1>. QED BY <1>3, <1>4, <1>5 DEF Next

LEMMA ForwardCorrect == Spec => [](TypeOK /\ ForwardInv)
  <1>1. Init => TypeOK /\ ForwardInv BY InitTypeOK, InitForwardInv
  <1>2. TypeOK /\ ForwardInv /\ [Next]_vars => (TypeOK /\ ForwardInv)'
    BY StepTypeOK, StepForwardInv
  <1>. QED BY <1>1, <1>2, PTL DEF Spec

-----------------------------------------------------------------------------
LEMMA InitRefines == Init => Promise!Init
  BY DEF Init, Promise!Init, ShownChanges, NoIndex, NoStamp

\* Nothing but an edit and a merge is seen by the abstract specification.
LEMMA JobHidden ==
  ASSUME TypeOK, NEW e \in Device, Job(e), ~MergeState(e)
  PROVE  UNCHANGED <<revision, merged>>
  <1>. USE DEF storeVars
  <1>1. CASE Upload(e)
    BY <1>1 DEF Upload, Snapshot, TakeSnapshot, PutState, RecordToken, NewToken, RecordFlag,
                ListStates, AckReading, Acknowledged
  <1>2. CASE Merge(e) BY <1>2 DEF Merge, SkipState, MarkApplied
  <1>3. CASE Publish(e) BY <1>3 DEF Publish, PublishNothing, PublishIndex, PublishDone
  <1>4. CASE PlanAndAck(e)
    BY <1>4 DEF PlanAndAck, Prepare, PublishLibrary, Download, Deliver, BeginPlan, PlanBook,
                Checkpoint, AckIndex, AckBooks, AckAudit, AckSession
  <1>. QED BY <1>1, <1>2, <1>3, <1>4 DEF Job

LEMMA StepRefines ==
  TypeOK /\ ForwardInv /\ [Next]_vars => [Promise!Next]_(Promise!vars)
  <1>. SUFFICES ASSUME TypeOK, ForwardInv, [Next]_vars
                PROVE  Promise!Next \/ UNCHANGED <<revision, ShownChanges>>
    BY DEF Promise!vars
  <1>0. TypeOK' BY StepTypeOK
  <1>1. ASSUME UNCHANGED <<revision, merged>> PROVE UNCHANGED <<revision, ShownChanges>>
    BY <1>1 DEF ShownChanges
  <1>2. ASSUME NEW e \in Device, MergeState(e) PROVE Promise!Next
    <2>. DEFINE b == book[e]
    <2>1. PICK p \in Device \ {e} :
             /\ \A d, q \in Device, c \in Book :
                   <<d, q, c>> # <<e, p, b>> => merged'[d][q][c] = merged[d][q][c]
             /\ merged'[e][p][b].rev \in merged[e][p][b].rev..revision[p][b]
             /\ \/ UNCHANGED revision
                \/ revision' = [revision EXCEPT ![e][b] = @ + 1]
      BY <1>0, <1>2, MergeForward
    <2>. DEFINE n == merged'[e][p][b].rev
    <2>2. b \in Book BY DEF TypeOK, JobOK
    <2>3. ShownChanges' = [ShownChanges EXCEPT ![e][p][b] = n]
      <3>. HIDE DEF b
      <3>1. ASSUME NEW d \in Device, NEW q \in Device, NEW c \in Book
            PROVE  merged'[d][q][c].rev =
                     IF <<d, q, c>> = <<e, p, b>> THEN n ELSE merged[d][q][c].rev
        BY <2>1 DEF b
      <3>. HIDE DEF n
      <3>. DEFINE Row(d, q) == [c \in Book |-> IF <<d, q, c>> = <<e, p, b>>
                                               THEN n ELSE merged[d][q][c].rev]
      <3>2. ShownChanges' = [d \in Device |-> [q \in Device |-> Row(d, q)]]
        BY <3>1 DEF ShownChanges
      <3>3. [ShownChanges EXCEPT ![e][p][b] = n] = [d \in Device |-> [q \in Device |-> Row(d, q)]]
        <4>1. ASSUME NEW d \in Device, NEW q \in Device
              PROVE  [ShownChanges EXCEPT ![e][p][b] = n][d][q] = Row(d, q)
          BY <2>1, <2>2 DEF ShownChanges
        <4>. HIDE DEF Row
        <4>. DEFINE E == [ShownChanges EXCEPT ![e][p][b] = n]
        <4>2. /\ E = [d \in Device |-> E[d]]
              /\ \A d \in Device : E[d] = [q \in Device |-> E[d][q]]
          BY <2>1 DEF ShownChanges
        <4>3. \A d, q \in Device : E[d][q] = Row(d, q) BY <4>1
        <4>. HIDE DEF E
        <4>4. \A d \in Device : E[d] = [q \in Device |-> Row(d, q)] BY <4>2, <4>3
        <4>5. E = [d \in Device |-> [q \in Device |-> Row(d, q)]] BY <4>2, <4>4
        <4>. QED BY <4>5 DEF E
      <3>. QED BY <3>2, <3>3
    <2>4. n \in ShownChanges[e][p][b]..revision[p][b] BY <2>1, <2>2 DEF ShownChanges
    <2>5. Promise!Receive(e, p, b) BY <2>1, <2>3, <2>4 DEF Promise!Receive, Promise!Change
    <2>. QED BY <2>2, <2>5 DEF Promise!Next
  <1>3. ASSUME NEW e \in Device, NEW b \in Book, Edit(e, b) PROVE Promise!Next
    <2>1. Promise!Make(e, b) BY <1>3, <1>1 DEF Edit, Promise!Make, Promise!Change, ShownChanges
    <2>. QED BY <2>1 DEF Promise!Next
  <1>4. ASSUME Environment PROVE Promise!Next \/ UNCHANGED <<revision, merged>>
    BY <1>3, <1>4 DEF Environment, Reader, RemoveBook, RestoreBook, StartSync, Abort, Import,
                      AuditExpires, LoseState, storeVars
  <1>5. CASE UNCHANGED vars BY <1>1, <1>5 DEF vars, storeVars
  <1>. QED BY <1>1, <1>2, <1>4, <1>5, JobHidden DEF Next

\* DeliverySpec: whatever stops, is lost, repaired or resumed, devices show
\* only changes that were made, in their order, and never take one back.
THEOREM ReadingImplementsDelivery == Spec => DeliverySpec
  <1>. QED BY InitRefines, StepRefines, ForwardCorrect, PTL DEF Spec, DeliverySpec, Promise!Spec

-----------------------------------------------------------------------------
(***************************************************************************)
(* Nothing is missing from a device that caught up.  All the copies of a   *)
(* device's files for a book, and all tokens that announce them, lie on    *)
(* one line of uploads: the number of an upload decides what it carries,   *)
(* and a later one carries no less.  So a merged file that is not older    *)
(* than an announcement carries what was announced.                        *)
(***************************************************************************)

\* A stamp of an upload h tells of.
On(h, u, s) == s.ver <= u /\ s.rev = h[s.ver]

\* h[n] is the revision that the n-th upload of p for b was taken at.
Line(h, p, b) ==
    /\ h[0] = 0
    /\ \A m, n \in 0..uploads[p][b] : m <= n => h[m] <= h[n]
    /\ h[uploads[p][b]] <= revision[p][b]
    /\ pc[p] = "put" /\ book[p] = b => h[uploads[p][b]] <= snap[p]
    /\ pc[p] = "record" /\ book[p] = b => h[uploads[p][b]] = snap[p]
    /\ On(h, uploads[p][b], state[p][b])
    /\ On(h, uploads[p][b], recorded[p][b])
    /\ On(h, uploads[p][b], index[p][b])
    /\ \A d \in Device : On(h, uploads[p][b], merged[d][p][b])
    /\ \A d \in Device : Comparing(d) /\ book[d] = b => On(h, uploads[p][b], listing[d][p])

LineInv == \A p \in Device, b \in Book : \E h \in [Nat -> Nat] : Line(h, p, b)

LEMMA InitLineInv == Init => LineInv
  <1>. SUFFICES ASSUME Init, NEW p \in Device, NEW b \in Book
                PROVE  \E h \in [Nat -> Nat] : Line(h, p, b)
    BY DEF LineInv
  <1>. DEFINE h == [n \in Nat |-> 0]
  <1>1. h \in [Nat -> Nat] OBVIOUS
  <1>2. Line(h, p, b) BY DEF Init, Line, On, NoIndex, NoStamp, Comparing
  <1>. QED BY <1>1, <1>2

\* Where what a step leaves behind comes from, if it is no upload of p for b.
Sourced(p, b) ==
    /\ uploads'[p][b] = uploads[p][b]
    /\ revision[p][b] <= revision'[p][b]
    /\ pc'[p] = "put" /\ book'[p] = b =>
          \/ snap'[p] = revision[p][b]
          \/ pc[p] = "put" /\ book[p] = b /\ snap'[p] = snap[p]
    /\ pc'[p] = "record" /\ book'[p] = b =>
          pc[p] = "record" /\ book[p] = b /\ snap'[p] = snap[p]
    /\ state'[p][b] \in {state[p][b], NoStamp}
    /\ \/ recorded'[p][b] \in {recorded[p][b], index[p][b]}
       \/ /\ pc[p] = "record" /\ book[p] = b
          /\ recorded'[p][b] = [ver |-> uploads[p][b], rev |-> snap[p]]
    /\ index'[p][b] \in {index[p][b], recorded[p][b]}
    /\ \A d \in Device :
          \/ merged'[d][p][b] \in {merged[d][p][b], state[p][b]}
          \/ Comparing(d) /\ book[d] = b /\ merged'[d][p][b] = listing[d][p]
    /\ \A d \in Device : Comparing(d)' /\ book'[d] = b =>
          \/ listing'[d][p] \in {NoStamp, state[p][b]}
          \/ Comparing(d) /\ book[d] = b /\ listing'[d][p] = listing[d][p]

LEMMA SourcedLine ==
  ASSUME TypeOK, TypeOK', NEW p \in Device, NEW b \in Book, NEW h \in [Nat -> Nat],
         Line(h, p, b), Sourced(p, b)
  PROVE  Line(h, p, b)'
  <1>. DEFINE u == uploads[p][b]
  <1>0. u \in Nat /\ uploads'[p][b] = u BY DEF TypeOK, EnvOK, Sourced
  <1>1. On(h, u, NoStamp) BY <1>0 DEF Line, On, NoStamp
  <1>2. /\ h[0] = 0 /\ \A m, n \in 0..u : m <= n => h[m] <= h[n]
        /\ h[u] <= revision'[p][b]
    BY <1>0 DEF Line, Sourced, TypeOK, StoreOK
  <1>3. /\ pc'[p] = "put" /\ book'[p] = b => h[u] <= snap'[p]
        /\ pc'[p] = "record" /\ book'[p] = b => h[u] = snap'[p]
    BY DEF Line, Sourced
  <1>4. On(h, u, state'[p][b]) BY <1>1 DEF Line, Sourced
  <1>5. On(h, u, recorded'[p][b])
    <2>1. CASE recorded'[p][b] \in {recorded[p][b], index[p][b]} BY <2>1 DEF Line
    <2>2. CASE /\ pc[p] = "record" /\ book[p] = b
               /\ recorded'[p][b] = [ver |-> u, rev |-> snap[p]]
      BY <1>0, <2>2 DEF Line, On
    <2>. QED BY <2>1, <2>2 DEF Sourced
  <1>6. On(h, u, index'[p][b]) BY DEF Line, Sourced
  <1>7. ASSUME NEW d \in Device
        PROVE  /\ On(h, u, merged'[d][p][b])
               /\ Comparing(d)' /\ book'[d] = b => On(h, u, listing'[d][p])
    BY <1>1 DEF Line, Sourced
  <1>. QED BY <1>0, <1>2, <1>3, <1>4, <1>5, <1>6, <1>7 DEF Line, On

\* An upload of p for b lengthens the line.
LEMMA PutLine ==
  ASSUME TypeOK, TypeOK', Snapped, NEW p \in Device, NEW b \in Book,
         NEW h \in [Nat -> Nat], Line(h, p, b), PutState(p), book[p] = b
  PROVE  \E k \in [Nat -> Nat] : Line(k, p, b)'
  <1>. DEFINE u == uploads[p][b]
  <1>0. /\ pc[p] = "put" /\ pc' = [pc EXCEPT ![p] = "record"]
        /\ uploads' = [uploads EXCEPT ![p][b] = u + 1]
        /\ state' = [state EXCEPT ![p][b] = [ver |-> u + 1, rev |-> snap[p]]]
        /\ UNCHANGED <<merged, revision, loop, book, snap, listing, recorded, index>>
        /\ u \in Nat /\ snap[p] \in Nat /\ snap[p] <= revision[p][b]
    BY DEF PutState, Goto, loopVars, handVars, storeVars, cacheVars, indexVars, Snapped,
           TypeOK, JobOK, EnvOK
  <1>1. PICK k \in [Nat -> Nat] : k[u + 1] = snap[p] /\ \A n \in 0..u : k[n] = h[n]
    <2>. DEFINE k == [h EXCEPT ![u + 1] = snap[p]]
    <2>1. k \in [Nat -> Nat] /\ k[u + 1] = snap[p] /\ \A n \in 0..u : k[n] = h[n]
      BY <1>0
    <2>. QED BY <2>1
  <1>2. uploads'[p][b] = u + 1 /\ pc'[p] = "record" BY <1>0 DEF TypeOK, EnvOK, JobOK
  <1>3. \A n \in 0..u : h[n] <= snap[p]
    <2>. SUFFICES ASSUME NEW n \in 0..u PROVE h[n] <= snap[p] OBVIOUS
    <2>1. h[n] <= h[u] /\ h[u] <= snap[p] BY <1>0 DEF Line
    <2>. QED BY <1>0, <2>1
  <1>4. \A m, n \in 0..(u + 1) : m <= n => k[m] <= k[n]
    <2>. SUFFICES ASSUME NEW m \in 0..(u + 1), NEW n \in 0..(u + 1), m <= n
                  PROVE  k[m] <= k[n]
      OBVIOUS
    <2>1. CASE n \in 0..u
      <3>1. m \in 0..u /\ h[m] <= h[n] BY <1>0, <2>1 DEF Line
      <3>. QED BY <1>1, <2>1, <3>1
    <2>2. CASE n = u + 1 /\ m \in 0..u BY <1>1, <1>3, <2>2
    <2>3. CASE n = u + 1 /\ m = u + 1 BY <1>0, <1>1, <2>3
    <2>. QED BY <1>0, <2>1, <2>2, <2>3
  <1>5. ASSUME NEW s \in Stamp, On(h, u, s) PROVE On(k, u + 1, s)
    BY <1>0, <1>1, <1>5 DEF On, Stamp
  <1>6. On(k, u + 1, state'[p][b])
    <2>1. state'[p][b] = [ver |-> u + 1, rev |-> snap[p]]
      BY <1>0 DEF TypeOK, ServerOK
    <2>. QED BY <1>0, <1>1, <2>1 DEF On
  <1>7. On(k, u + 1, recorded'[p][b]) /\ On(k, u + 1, index'[p][b])
    BY <1>0, <1>5 DEF Line, TypeOK, CacheOK, ServerOK
  <1>8. ASSUME NEW d \in Device
        PROVE  /\ On(k, u + 1, merged'[d][p][b])
               /\ Comparing(d)' /\ book'[d] = b => On(k, u + 1, listing'[d][p])
    <2>1. Comparing(d)' => Comparing(d) BY <1>0 DEF Comparing, TypeOK, JobOK
    <2>2. merged[d][p][b] \in Stamp /\ listing[d][p] \in Stamp
      BY DEF TypeOK, StoreOK, JobOK
    <2>. QED BY <1>0, <1>5, <2>1, <2>2 DEF Line
  <1>9. k[0] = 0 /\ k[u + 1] <= revision'[p][b] /\ k[u + 1] = snap'[p]
    BY <1>0, <1>1 DEF Line
  <1>10. Line(k, p, b)' BY <1>2, <1>4, <1>6, <1>7, <1>8, <1>9 DEF Line
  <1>. QED BY <1>1, <1>10

\* What no step but an upload breaks: an upload is recorded once, and a token
\* is recorded before it is published.
Tokens ==
    \A p \in Device, b \in Book :
        /\ pc'[p] = "record" /\ book'[p] = b =>
              pc[p] = "record" /\ book[p] = b /\ snap'[p] = snap[p]
        /\ \/ recorded'[p][b] \in {recorded[p][b], index[p][b]}
           \/ /\ pc[p] = "record" /\ book[p] = b
              /\ recorded'[p][b] = [ver |-> uploads[p][b], rev |-> snap[p]]
        /\ index'[p][b] \in {index[p][b], recorded[p][b]}

LEMMA StepTokens ==
  ASSUME TypeOK, NEW e \in Device
  PROVE
    /\ \A b \in Book : Edit(e, b) => Tokens
    /\ \A b \in Book : RemoveBook(e, b) => Tokens
    /\ \A b \in Book : RestoreBook(e, b) => Tokens
    /\ \A m \in {"reading", "full"} : StartSync(e, m) => Tokens
    /\ Snapshot(e) => Tokens
    /\ RecordToken(e) => Tokens
    /\ RecordFlag(e) => Tokens
    /\ ListStates(e) => Tokens
    /\ SkipState(e) => Tokens
    /\ MergeState(e) => Tokens
    /\ MarkApplied(e) => Tokens
    /\ AckReading(e) => Tokens
    /\ PublishNothing(e) => Tokens
    /\ PublishIndex(e) => Tokens
    /\ PublishDone(e) => Tokens
    /\ Prepare(e) => Tokens
    /\ PublishLibrary(e) => Tokens
    /\ Download(e) => Tokens
    /\ BeginPlan(e) => Tokens
    /\ PlanBook(e) => Tokens
    /\ Checkpoint(e) => Tokens
    /\ AckIndex(e) => Tokens
    /\ AckBooks(e) => Tokens
    /\ AckAudit(e) => Tokens
    /\ AckSession(e) => Tokens
    /\ Abort(e) => Tokens
    /\ AuditExpires(e) => Tokens
    /\ \A b \in Book : LoseState(e, b) => Tokens
    /\ Import(e) => Tokens
    /\ Deliver(e) => Tokens
  <1>. USE DEF TypeOK, CacheOK, ServerOK, JobOK, Tokens, Goto, storeVars, cacheVars, indexVars,
             serverVars, jobVars, loopVars, handVars, planVars, envVars
  <1>1. \A b \in Book : Edit(e, b) => Tokens BY DEF Edit
  <1>2. \A b \in Book : RemoveBook(e, b) => Tokens BY DEF RemoveBook
  <1>3. \A b \in Book : RestoreBook(e, b) => Tokens BY DEF RestoreBook
  <1>4. \A m \in {"reading", "full"} : StartSync(e, m) => Tokens BY DEF StartSync
  <1>5. Snapshot(e) => Tokens BY DEF Snapshot, TakeSnapshot
  <1>6. RecordToken(e) => Tokens BY DEF RecordToken, NewToken
  <1>7. RecordFlag(e) => Tokens BY DEF RecordFlag, AfterRecord
  <1>8. ListStates(e) => Tokens BY DEF ListStates
  <1>9. SkipState(e) => Tokens BY DEF SkipState
  <1>10. MergeState(e) => Tokens BY DEF MergeState
  <1>11. MarkApplied(e) => Tokens BY DEF MarkApplied
  <1>12. AckReading(e) => Tokens BY DEF AckReading, Acknowledged
  <1>13. PublishNothing(e) => Tokens BY DEF PublishNothing, LeavePublish, AfterPublish, Forget
  <1>14. PublishIndex(e) => Tokens BY DEF PublishIndex, Extended
  <1>15. PublishDone(e) => Tokens BY DEF PublishDone, LeavePublish, AfterPublish, Forget
  <1>16. Prepare(e) => Tokens BY DEF Prepare
  <1>17. PublishLibrary(e) => Tokens BY DEF PublishLibrary
  <1>18. Download(e) => Tokens BY DEF Download, Take
  <1>19. BeginPlan(e) => Tokens BY DEF BeginPlan
  <1>20. PlanBook(e) => Tokens BY DEF PlanBook, Take
  <1>21. Checkpoint(e) => Tokens BY DEF Checkpoint
  <1>22. AckIndex(e) => Tokens BY DEF AckIndex
  <1>23. AckBooks(e) => Tokens BY DEF AckBooks
  <1>24. AckAudit(e) => Tokens BY DEF AckAudit, EndSession
  <1>25. AckSession(e) => Tokens BY DEF AckSession, Forget
  <1>26. Abort(e) => Tokens BY DEF Abort, Forget
  <1>27. AuditExpires(e) => Tokens BY DEF AuditExpires
  <1>28. \A b \in Book : LoseState(e, b) => Tokens BY DEF LoseState
  <1>29. Import(e) => Tokens BY DEF Import
  <1>30. Deliver(e) => Tokens BY DEF Deliver
  <1>. QED BY <1>1, <1>2, <1>3, <1>4, <1>5, <1>6, <1>7, <1>8, <1>9, <1>10, <1>11, <1>12, <1>13, <1>14, <1>15, <1>16, <1>17, <1>18, <1>19, <1>20, <1>21, <1>22, <1>23, <1>24, <1>25, <1>26, <1>27, <1>28, <1>29, <1>30

\* Listing the files of a book takes them from the server.
LEMMA TakeSourced ==
  ASSUME TypeOK, NEW e \in Device, Tokens, Looping',
         UNCHANGED <<merged, uploads, state, revision>>,
         \A d \in Device \ {e} : UNCHANGED <<pc[d], loop[d], book[d], snap[d], listing[d]>>,
         pc'[e] = "put" => snap'[e] = revision[e][book'[e]],
         Comparing(e)' => \A p \in Device :
             listing'[e][p] = IF p = e THEN NoStamp ELSE state[p][book'[e]],
         NEW p \in Device, NEW b \in Book
  PROVE  Sourced(p, b)
  <1>1. /\ uploads'[p][b] = uploads[p][b] /\ revision[p][b] <= revision'[p][b]
        /\ state'[p][b] \in {state[p][b], NoStamp}
        /\ \A d \in Device : merged'[d][p][b] = merged[d][p][b]
    BY DEF TypeOK, StoreOK
  <1>2. pc'[p] = "put" /\ book'[p] = b =>
          \/ snap'[p] = revision[p][b]
          \/ pc[p] = "put" /\ book[p] = b /\ snap'[p] = snap[p]
    BY DEF TypeOK
  <1>3. ASSUME NEW d \in Device, Comparing(d)', book'[d] = b
        PROVE  \/ listing'[d][p] \in {NoStamp, state[p][b]}
               \/ Comparing(d) /\ book[d] = b /\ listing'[d][p] = listing[d][p]
    <2>1. CASE d = e BY <1>3, <2>1
    <2>2. CASE d # e BY <1>3, <2>2 DEF Comparing
    <2>. QED BY <2>1, <2>2
  <1>. QED BY <1>1, <1>2, <1>3 DEF Sourced, Tokens

LEMMA TakenSourced ==
  ASSUME TypeOK, TypeOK', ForwardInv, ForwardInv', NEW e \in Device,
         Snapshot(e) \/ ListStates(e) \/ Download(e) \/ PlanBook(e),
         NEW p \in Device, NEW b \in Book
  PROVE  Sourced(p, b)
  <1>0. Tokens /\ Looping' BY StepTokens DEF ForwardInv
  <1>. USE <1>0 DEF TypeOK, JobOK, ForwardInv, Looping, Comparing, Goto, ListFiles, storeVars,
               serverVars, loopVars, handVars, planVars, envVars
  <1>1. CASE Snapshot(e) BY <1>1, TakeSourced DEF Snapshot, TakeSnapshot
  <1>2. CASE ListStates(e) BY <1>2, TakeSourced DEF ListStates
  <1>3. CASE Download(e)
    <2>1. PICK c \in fetch[e] :
             IF c \in plan[e].reading THEN Take(e, c, PendingReading(e))
             ELSE /\ book' = [book EXCEPT ![e] = c] /\ Goto(e, "deliver")
                  /\ UNCHANGED <<snap, pushed, listing>>
      BY <1>3 DEF Download
    <2>2. /\ UNCHANGED <<merged, uploads, state, revision, loop>>
          /\ pc[e] = "download" /\ c \in Book
      BY <1>3 DEF Download
    <2>3. CASE c \in plan[e].reading
      <3>1. PICK repair \in Repairs(e, c) :
               LET push == c \in PendingReading(e) \/ repair
               IN  /\ book' = [book EXCEPT ![e] = c]
                   /\ ListFiles(e, c)
                   /\ pushed' = [pushed EXCEPT ![e] = push]
                   /\ snap' = [snap EXCEPT ![e] = IF push THEN revision[e][c] ELSE 0]
                   /\ Goto(e, IF push THEN "put" ELSE "merge")
        BY <2>1, <2>3 DEF Take
      <3>2. \A d \in Device \ {e} : UNCHANGED <<pc[d], loop[d], book[d], snap[d], listing[d]>>
        BY <2>2, <3>1
      <3>3. /\ pc'[e] = "put" => snap'[e] = revision[e][book'[e]]
            /\ \A q \in Device :
                  listing'[e][q] = IF q = e THEN NoStamp ELSE state[q][book'[e]]
        BY <2>2, <3>1
      <3>. QED BY <2>2, <3>2, <3>3, TakeSourced
    <2>4. CASE c \notin plan[e].reading
      <3>1. /\ pc' = [pc EXCEPT ![e] = "deliver"]
            /\ book' = [book EXCEPT ![e] = c] /\ UNCHANGED <<snap, listing>>
        BY <2>1, <2>4
      <3>2. \A d \in Device \ {e} : UNCHANGED <<pc[d], loop[d], book[d], snap[d], listing[d]>>
        BY <2>2, <3>1
      <3>. QED BY <2>2, <3>1, <3>2, TakeSourced
    <2>. QED BY <2>3, <2>4
  <1>4. CASE PlanBook(e)
    <2>1. PICK c \in todo[e] : Take(e, c, due[e]) BY <1>4 DEF PlanBook
    <2>2. /\ UNCHANGED <<merged, uploads, state, revision, loop>>
          /\ pc[e] = "plan" /\ c \in Book
      BY <1>4 DEF PlanBook
    <2>3. PICK repair \in Repairs(e, c) :
             LET push == c \in due[e] \/ repair
             IN  /\ book' = [book EXCEPT ![e] = c]
                 /\ ListFiles(e, c)
                 /\ pushed' = [pushed EXCEPT ![e] = push]
                 /\ snap' = [snap EXCEPT ![e] = IF push THEN revision[e][c] ELSE 0]
                 /\ Goto(e, IF push THEN "put" ELSE "merge")
      BY <2>1 DEF Take
    <2>4. \A d \in Device \ {e} : UNCHANGED <<pc[d], loop[d], book[d], snap[d], listing[d]>>
      BY <2>2, <2>3
    <2>5. /\ pc'[e] = "put" => snap'[e] = revision[e][book'[e]]
          /\ \A q \in Device :
                listing'[e][q] = IF q = e THEN NoStamp ELSE state[q][book'[e]]
      BY <2>2, <2>3
    <2>. QED BY <2>2, <2>4, <2>5, TakeSourced
  <1>. QED BY <1>1, <1>2, <1>3, <1>4

\* A merge takes the present file or the listed one.
LEMMA MergeSourced ==
  ASSUME TypeOK, ForwardInv, NEW e \in Device, MergeState(e), NEW p \in Device, NEW b \in Book
  PROVE  Sourced(p, b)
  <1>. DEFINE c == book[e]
  <1>0. /\ pc[e] = "merge" /\ pc' = [pc EXCEPT ![e] = "mark"]
        /\ UNCHANGED <<loop, book, snap, uploads, state>>
        /\ c \in Book /\ Comparing(e)
    BY DEF MergeState, Goto, loopVars, envVars, serverVars, TypeOK, JobOK, Comparing
  <1>1. PICK q \in Listed(e) : \E f \in Fetched(e, q), r \in BOOLEAN :
           /\ merged' = [merged EXCEPT ![e][q][c] = IF AtLeast(@, f) THEN @ ELSE f]
           /\ revision' = [revision EXCEPT ![e][c] = IF r THEN @ + 1 ELSE @]
           /\ listing' = [listing EXCEPT ![e][q] = f]
    BY DEF MergeState
  <1>2. PICK f \in Fetched(e, q), r \in BOOLEAN :
           /\ merged' = [merged EXCEPT ![e][q][c] = IF AtLeast(@, f) THEN @ ELSE f]
           /\ revision' = [revision EXCEPT ![e][c] = IF r THEN @ + 1 ELSE @]
           /\ listing' = [listing EXCEPT ![e][q] = f]
    BY <1>1
  <1>3. q \in Device /\ f \in {state[q][c], listing[e][q]} BY DEF Listed, Fetched
  <1>4. revision[p][b] <= revision'[p][b]
    BY <1>0, <1>2 DEF TypeOK, StoreOK
  <1>5. ASSUME NEW d \in Device
        PROVE  \/ merged'[d][p][b] \in {merged[d][p][b], state[p][b]}
               \/ Comparing(d) /\ book[d] = b /\ merged'[d][p][b] = listing[d][p]
    <2>1. CASE <<d, p, b>> = <<e, q, c>>
      <3>1. merged'[e][q][c] \in {merged[e][q][c], f}
        BY <1>0, <1>2, <1>3 DEF TypeOK, StoreOK
      <3>. QED BY <1>0, <1>3, <2>1, <3>1
    <2>2. CASE <<d, p, b>> # <<e, q, c>>
      <3>1. merged'[d][p][b] = merged[d][p][b]
        BY <1>0, <1>2, <1>3, <2>2 DEF TypeOK, StoreOK
      <3>. QED BY <3>1
    <2>. QED BY <2>1, <2>2
  <1>6. ASSUME NEW d \in Device, Comparing(d)', book'[d] = b
        PROVE  \/ listing'[d][p] \in {NoStamp, state[p][b]}
               \/ Comparing(d) /\ book[d] = b /\ listing'[d][p] = listing[d][p]
    <2>1. Comparing(d) /\ book[d] = b
      BY <1>0, <1>6 DEF Comparing, TypeOK, JobOK
    <2>2. CASE <<d, p>> = <<e, q>> BY <1>0, <1>2, <1>3, <2>1, <2>2 DEF TypeOK, JobOK
    <2>3. CASE <<d, p>> # <<e, q>> BY <1>2, <1>3, <2>1, <2>3 DEF TypeOK, JobOK
    <2>. QED BY <2>2, <2>3
  <1>7. pc'[p] = "put" => pc[p] = "put" BY <1>0 DEF TypeOK, JobOK
  <1>8. Tokens BY StepTokens
  <1>. QED BY <1>0, <1>4, <1>5, <1>6, <1>7, <1>8 DEF Sourced, Tokens

LEMMA PutSourced ==
  ASSUME TypeOK, NEW e \in Device, PutState(e), NEW p \in Device, NEW b \in Book,
         ~(p = e /\ b = book[e])
  PROVE  Sourced(p, b)
  <1>1. /\ pc[e] = "put" /\ pc' = [pc EXCEPT ![e] = "record"] /\ book[e] \in Book
        /\ uploads' = [uploads EXCEPT ![e][book[e]] = @ + 1]
        /\ state' = [state EXCEPT ![e][book[e]] =
                         [ver |-> uploads[e][book[e]] + 1, rev |-> snap[e]]]
        /\ UNCHANGED <<merged, revision, loop, book, snap, listing, recorded, index>>
    BY DEF PutState, Goto, loopVars, handVars, storeVars, cacheVars, indexVars, TypeOK, JobOK
  <1>2. uploads'[p][b] = uploads[p][b] /\ state'[p][b] = state[p][b]
    BY <1>1 DEF TypeOK, EnvOK, ServerOK
  <1>3. \A d \in Device : Comparing(d)' => Comparing(d) BY <1>1 DEF Comparing, TypeOK, JobOK
  <1>4. /\ pc'[p] = "put" => pc[p] = "put"
        /\ pc'[p] = "record" /\ book[p] = b => pc[p] = "record"
    BY <1>1 DEF TypeOK, JobOK
  <1>. QED BY <1>1, <1>2, <1>3, <1>4 DEF Sourced, TypeOK, StoreOK

LEMMA IdleSourced ==
  ASSUME TypeOK, Idles, Tokens, NEW p \in Device, NEW b \in Book
  PROVE  Sourced(p, b)
  BY DEF Sourced, Idles, Tokens

LEMMA StepLineInv == TypeOK /\ ForwardInv /\ LineInv /\ [Next]_vars => LineInv'
  <1>. SUFFICES ASSUME TypeOK, ForwardInv, LineInv, [Next]_vars,
                       NEW p \in Device, NEW b \in Book
                PROVE  \E h \in [Nat -> Nat] : Line(h, p, b)'
    BY DEF LineInv
  <1>1. TypeOK' /\ ForwardInv' BY StepTypeOK, StepForwardInv
  <1>2. PICK h \in [Nat -> Nat] : Line(h, p, b) BY DEF LineInv
  <1>3. ASSUME Sourced(p, b) PROVE \E k \in [Nat -> Nat] : Line(k, p, b)'
    BY <1>1, <1>2, <1>3, SourcedLine
  <1>4. ASSUME Idles, Tokens PROVE \E k \in [Nat -> Nat] : Line(k, p, b)'
    BY <1>3, <1>4, IdleSourced
  <1>5. ASSUME NEW e \in Device, Job(e) PROVE \E k \in [Nat -> Nat] : Line(k, p, b)'
    <2>1. CASE Snapshot(e) \/ ListStates(e) \/ Download(e) \/ PlanBook(e)
      BY <1>1, <1>3, <2>1, TakenSourced
    <2>2. CASE PutState(e)
      <3>1. CASE p = e /\ b = book[e]
        BY <1>1, <1>2, <2>2, <3>1, PutLine DEF ForwardInv
      <3>2. CASE ~(p = e /\ b = book[e]) BY <1>3, <2>2, <3>2, PutSourced
      <3>. QED BY <3>1, <3>2
    <2>3. CASE MergeState(e) BY <1>3, <2>3, MergeSourced
    <2>4. CASE ~(Snapshot(e) \/ ListStates(e) \/ Download(e) \/ PlanBook(e)
                 \/ PutState(e) \/ MergeState(e))
      <3>1. Idles /\ Tokens
        BY <1>5, <2>4, StepIdles, StepTokens
        DEF ForwardInv, Job, Upload, Merge, Publish, PlanAndAck
      <3>. QED BY <1>4, <3>1
    <2>. QED BY <2>1, <2>2, <2>3, <2>4
  <1>6. ASSUME Environment PROVE \E k \in [Nat -> Nat] : Line(k, p, b)'
    <2>1. Idles /\ Tokens
      BY <1>6, StepIdles, StepTokens DEF ForwardInv, Environment, Reader
    <2>. QED BY <1>4, <2>1
  <1>7. CASE UNCHANGED vars
    <2>1. Idles
      BY <1>7 DEF Idles, ForwardInv, Looping, Comparing, TypeOK, StoreOK, vars, storeVars, serverVars, jobVars,
                  loopVars, handVars, envVars
    <2>2. Tokens
      BY <1>7 DEF Tokens, vars, cacheVars, indexVars, serverVars, jobVars, handVars
    <2>. QED BY <1>4, <2>1, <2>2
  <1>. QED BY <1>5, <1>6, <1>7 DEF Next

LEMMA LineCorrect == Spec => [](TypeOK /\ ForwardInv /\ LineInv)
  <1>1. Init => TypeOK /\ ForwardInv /\ LineInv
    BY InitTypeOK, InitForwardInv, InitLineInv
  <1>2. TypeOK /\ ForwardInv /\ LineInv /\ [Next]_vars => (TypeOK /\ ForwardInv /\ LineInv)'
    BY StepTypeOK, StepForwardInv, StepLineInv
  <1>. QED BY <1>1, <1>2, PTL DEF Spec

\* CaughtUp: a device that has worked off the last announcement of another one,
\* which has nothing left to upload or to announce, shows all it wrote.
THEOREM CaughtUpAlways == Spec => []CaughtUp
  <1>1. TypeOK /\ ForwardInv /\ LineInv /\ AckedSignalled /\ AppliedMerged => CaughtUp
    <2>. SUFFICES ASSUME TypeOK, ForwardInv, LineInv, AckedSignalled, AppliedMerged,
                         NEW d \in Device, NEW b \in known[d], NEW p \in appliedFrom[d] \ {d},
                         b \notin PendingReading(p), ~pending[p],
                         applied[d][p][b] = index[p][b],
                         <<d, b>> \notin left, <<p, b>> \notin lost
                  PROVE  merged[d][p][b].rev = revision[p][b]
      BY DEF CaughtUp
    <2>1. p \in Device /\ b \in Book BY DEF TypeOK, CacheOK
    <2>2. PICK h \in [Nat -> Nat] : Line(h, p, b) BY <2>1 DEF LineInv
    <2>. DEFINE m == merged[d][p][b]
                i == index[p][b]
                r == revision[p][b]
    <2>3. /\ m \in Stamp /\ i \in Stamp /\ r \in Nat /\ acked[p][b] \in Nat
          /\ uploads[p][b] \in Nat
      BY <2>1 DEF TypeOK, StoreOK, ServerOK, EnvOK
    <2>4. r <= acked[p][b] /\ acked[p][b] <= i.rev
      BY <2>1, <2>3 DEF PendingReading, AckedSignalled
    <2>5. i.ver <= m.ver BY <2>1, <2>3 DEF AppliedMerged, AtLeast, Stamp
    <2>6. On(h, uploads[p][b], m) /\ On(h, uploads[p][b], i) BY <2>1, <2>2 DEF Line
    <2>7. h[i.ver] <= h[m.ver] BY <2>2, <2>3, <2>5, <2>6 DEF Line, On, Stamp
    <2>8. i.rev <= m.rev BY <2>6, <2>7 DEF On
    <2>9. m.rev <= r BY <2>1 DEF ForwardInv, AllPast, Past
    <2>. QED BY <2>3, <2>4, <2>8, <2>9 DEF Stamp
  <1>. QED BY <1>1, LineCorrect, AckedSignalledAlways, AppliedMergedAlways, PTL
==============================================================================
