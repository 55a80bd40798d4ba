-------------------------- MODULE ReadingSync_merge --------------------------
(***************************************************************************)
(* The download half of ReadingSync is safe for any number of devices and  *)
(* books and any bounds: a peer index that was worked off stands for       *)
(* nothing the store lacks, whichever jobs stop, resume, skip unchanged    *)
(* books, or run while the peer uploads and publishes.                     *)
(*                                                                         *)
(* A book leaves the work list of a plan for one of three reasons: it was  *)
(* merged by this job, it was checkpointed by an earlier job of the same   *)
(* session, or no index announced a change since the last one worked off.  *)
(* The invariant gives each reason its meaning in terms of merged.         *)
(***************************************************************************)
EXTENDS ReadingSync_proofs

\* The store of d is at least as new as stamp s of p's file for b.
Has(d, p, b, s) == AtLeast(merged[d][p][b], s) \/ <<p, b>> \in lost

\* AppliedMerged of one device.
IndexMerged(d) ==
    \A b \in known[d], q \in appliedFrom[d] \ {d} :
        <<d, b>> \in left \/ Has(d, q, b, applied[d][q][b])

DigestMerged(d) ==
    \A p \in Device, b \in Book : AtLeast(merged[d][p][b], digest[d][p][b])

CheckpointMerged(d) ==
    \A p \in Device, b \in Book : \A v \in checkpoint[d][b] : Has(d, p, b, v[p])

PeersListed(d) == appliedFrom[d] \ {d} \subseteq listedIn \cap indexed

\* What holds at the control points of a job besides Point.
Control(d) ==
    /\ pc[d] = "checkpoint" => Listed(d) = {}
    /\ pc[d] \in {"published", "ackIndex", "ackAudit", "ackSession"}
          /\ loop[d] = "plan" => todo[d] = {}
    /\ pc[d] = "mark" => AtLeast(merged[d][peer[d]][book[d]], listing[d][peer[d]])

HasPlan(d) == loop[d] # "changed"

InHand(d) ==
    IF HasPlan(d) /\ pc[d] \in {"put", "record", "flag", "merge", "mark", "checkpoint"}
    THEN {book[d]} ELSE {}

\* Books that the job may still have to compare.
Remaining(d) ==
    InHand(d) \cup (IF loop[d] = "download" THEN plan[d].reading ELSE todo[d])

\* What a plan was made from.
PlanMade(d) ==
    /\ \A q \in Device, b \in Book : plan[d].index[q][b].ver <= uploads[q][b]
    /\ \A q \in Device \ {d}, b \in Book :
          q \notin plan[d].peers => plan[d].index[q][b].ver = 0
    /\ d \notin plan[d].peers
    /\ plan[d].from \ {d} \subseteq listedIn \cap indexed
    /\ \A b \in known[d] : <<d, b>> \in left \/ b \in plan[d].books
    /\ \A q \in appliedFrom[d] \ {d} :
          q \in plan[d].from \/ applied[d][q] = plan[d].index[q]

\* Books that need no comparison any more need nothing more.
PlanDone(d) ==
    \A b \in plan[d].books \ Remaining(d), q \in Device \ {d} :
        <<d, b>> \in left \/ Has(d, q, b, plan[d].index[q][b])

\* What the book in hand needs is in its listing.
PlanInHand(d) ==
    \A b \in InHand(d), q \in Device \ {d} :
        \/ Has(d, q, b, plan[d].index[q][b])
        \/ AtLeast(listing[d][q], plan[d].index[q][b])

PlanInv(d) == HasPlan(d) => PlanMade(d) /\ PlanDone(d) /\ PlanInHand(d)

StoredInv(d) == /\ IndexMerged(d)
                /\ DigestMerged(d)
                /\ CheckpointMerged(d)
                /\ PeersListed(d)

DeviceInv(d) == StoredInv(d) /\ Control(d) /\ PlanInv(d)

MergeInv == \A d \in Device : DeviceInv(d)

-----------------------------------------------------------------------------
LEMMA InitMergeInv == Init => MergeInv
  <1>. SUFFICES ASSUME Init, NEW d \in Device
                PROVE  StoredInv(d) /\ Control(d) /\ PlanInv(d)
    BY DEF MergeInv, DeviceInv
  <1>. USE DEF Init, NoIndex, NoStamp, AtLeast, Has
  <1>1. IndexMerged(d) /\ PeersListed(d) BY DEF IndexMerged, PeersListed
  <1>2. DigestMerged(d) BY DEF DigestMerged
  <1>3. CheckpointMerged(d) BY DEF CheckpointMerged
  <1>5. Control(d) /\ ~HasPlan(d) BY DEF Control, HasPlan
  <1>. QED BY <1>1, <1>2, <1>3, <1>5 DEF StoredInv, PlanInv

LEMMA HasGrows ==
  ASSUME TypeOK, TypeOK', Grows, NEW d \in Device, NEW p \in Device, NEW b \in Book,
         NEW s \in Stamp, Has(d, p, b, s)
  PROVE  Has(d, p, b, s)'
  <1>1. merged[d][p][b] \in Stamp /\ merged'[d][p][b] \in Stamp
    BY DEF TypeOK, StoreOK
  <1>. QED BY <1>1 DEF Has, AtLeast, Stamp, Grows

LEMMA IndexFrame ==
  ASSUME TypeOK, TypeOK', Grows, NEW d \in Device, IndexMerged(d),
         UNCHANGED <<applied[d], appliedFrom[d], known[d]>>
  PROVE  IndexMerged(d)'
  <1>. SUFFICES ASSUME NEW b \in known[d], NEW q \in appliedFrom[d] \ {d}
                PROVE  <<d, b>> \in left' \/ Has(d, q, b, applied[d][q][b])'
    BY DEF IndexMerged
  <1>1. q \in Device /\ b \in Book /\ applied[d][q][b] \in Stamp
    BY DEF TypeOK, CacheOK
  <1>2. <<d, b>> \in left \/ Has(d, q, b, applied[d][q][b]) BY DEF IndexMerged
  <1>3. UNCHANGED applied[d][q][b] OBVIOUS
  <1>. QED BY <1>1, <1>2, <1>3, HasGrows DEF Grows, Has

LEMMA DigestFrame ==
  ASSUME TypeOK, TypeOK', Grows, NEW d \in Device, DigestMerged(d), UNCHANGED digest[d]
  PROVE  DigestMerged(d)'
  <1>. SUFFICES ASSUME NEW p \in Device, NEW b \in Book
                PROVE  AtLeast(merged'[d][p][b], digest[d][p][b])
    BY DEF DigestMerged, AtLeast
  <1>1. AtLeast(merged[d][p][b], digest[d][p][b]) BY DEF DigestMerged
  <1>. QED BY <1>1 DEF AtLeast, Grows, TypeOK, StoreOK, CacheOK, Stamp

LEMMA CheckpointFrame ==
  ASSUME TypeOK, TypeOK', Grows, NEW d \in Device, CheckpointMerged(d),
         UNCHANGED checkpoint[d]
  PROVE  CheckpointMerged(d)'
  <1>. SUFFICES ASSUME NEW p \in Device, NEW b \in Book, NEW v \in checkpoint[d][b]
                PROVE  Has(d, p, b, v[p])'
    BY DEF CheckpointMerged
  <1>1. v[p] \in Stamp BY DEF TypeOK, CacheOK
  <1>. QED BY <1>1, HasGrows DEF CheckpointMerged

LEMMA StoredFrame ==
  ASSUME TypeOK, TypeOK', Grows, NEW d \in Device, StoredInv(d),
         UNCHANGED <<digest[d], applied[d], appliedFrom[d], known[d], checkpoint[d]>>
  PROVE  StoredInv(d)'
  <1>1. PeersListed(d)' BY DEF StoredInv, PeersListed, Grows
  <1>. QED BY <1>1, IndexFrame, DigestFrame, CheckpointFrame DEF StoredInv

LEMMA PlanMadeFrame ==
  ASSUME TypeOK, TypeOK', Grows, NEW d \in Device, PlanMade(d),
         UNCHANGED <<plan[d], known[d], applied[d], appliedFrom[d]>>
  PROVE  PlanMade(d)'
  <1>1. plan[d] \in PlanType BY DEF TypeOK, JobOK
  <1>2. \A q \in Device, b \in Book : plan'[d].index[q][b].ver <= uploads'[q][b]
    <2>. SUFFICES ASSUME NEW q \in Device, NEW b \in Book
                  PROVE  plan[d].index[q][b].ver <= uploads'[q][b]
      OBVIOUS
    <2>1. plan[d].index[q][b].ver <= uploads[q][b] BY DEF PlanMade
    <2>2. uploads[q][b] <= uploads'[q][b] BY DEF Grows
    <2>3. plan[d].index[q][b].ver \in Nat BY <1>1 DEF PlanType, Stamp
    <2>. QED BY <2>1, <2>2, <2>3 DEF TypeOK, EnvOK
  <1>. QED BY <1>2 DEF PlanMade, Grows

LEMMA PlanDoneFrame ==
  ASSUME TypeOK, TypeOK', Grows, NEW d \in Device, PlanDone(d), UNCHANGED plan[d],
         Remaining(d) \subseteq Remaining(d)'
  PROVE  PlanDone(d)'
  <1>. SUFFICES ASSUME NEW b \in plan[d].books, b \notin Remaining(d),
                       NEW q \in Device \ {d}
                PROVE  <<d, b>> \in left' \/ Has(d, q, b, plan[d].index[q][b])'
    BY DEF PlanDone
  <1>1. plan[d].index[q][b] \in Stamp /\ b \in Book BY DEF TypeOK, JobOK, PlanType
  <1>2. <<d, b>> \in left \/ Has(d, q, b, plan[d].index[q][b]) BY DEF PlanDone
  <1>3. CASE <<d, b>> \in left BY <1>3 DEF Grows
  <1>4. CASE Has(d, q, b, plan[d].index[q][b])
    <2>. DEFINE s == plan[d].index[q][b]
    <2>1. Has(d, q, b, s)' BY <1>1, <1>4, HasGrows
    <2>. QED BY <2>1
  <1>. QED BY <1>2, <1>3, <1>4

LEMMA PlanInHandFrame ==
  ASSUME TypeOK, TypeOK', Grows, NEW d \in Device, PlanInHand(d),
         UNCHANGED <<plan[d], listing[d]>>, InHand(d)' \subseteq InHand(d)
  PROVE  PlanInHand(d)'
  <1>. SUFFICES ASSUME NEW b \in InHand(d), NEW q \in Device \ {d}
                PROVE  \/ Has(d, q, b, plan[d].index[q][b])'
                       \/ AtLeast(listing[d][q], plan[d].index[q][b])
    BY DEF PlanInHand, AtLeast
  <1>1. b \in Book BY DEF InHand, TypeOK, JobOK
  <1>2. plan[d].index[q][b] \in Stamp BY <1>1 DEF TypeOK, JobOK, PlanType
  <1>. QED BY <1>1, <1>2, HasGrows DEF PlanInHand, Has

\* A step that touches nothing of the device's job and cache.
LEMMA SameInv ==
  ASSUME TypeOK, TypeOK', Grows, NEW d \in Device, DeviceInv(d),
         UNCHANGED <<digest[d], applied[d], appliedFrom[d], known[d], checkpoint[d], pc[d],
                     loop[d], todo[d], book[d], listing[d], peer[d], plan[d]>>
  PROVE  DeviceInv(d)'
  <1>. USE DEF DeviceInv
  <1>1. StoredInv(d)' BY StoredFrame
  <1>2. Control(d)'
    <2>1. pc[d] = "mark" => AtLeast(merged'[d][peer[d]][book[d]], listing[d][peer[d]])
      BY DEF Control, AtLeast, Grows, Stamp, TypeOK, StoreOK, JobOK
    <2>. QED BY <2>1 DEF Control, Listed, AtLeast
  <1>3. HasPlan(d)' = HasPlan(d) /\ InHand(d)' = InHand(d) /\ Remaining(d)' = Remaining(d)
    BY DEF HasPlan, InHand, Remaining
  <1>4. CASE HasPlan(d)
    <2>1. PlanMade(d)' BY <1>4, PlanMadeFrame DEF PlanInv
    <2>2. PlanDone(d)' BY <1>3, <1>4, PlanDoneFrame DEF PlanInv
    <2>3. PlanInHand(d)' BY <1>3, <1>4, PlanInHandFrame DEF PlanInv
    <2>. QED BY <1>1, <1>2, <2>1, <2>2, <2>3 DEF PlanInv
  <1>5. CASE ~HasPlan(d) BY <1>1, <1>2, <1>3, <1>5 DEF PlanInv
  <1>. QED BY <1>4, <1>5

\* A step of the job that leaves its plan alone.
LEMMA PlanFrame ==
  ASSUME TypeOK, TypeOK', Grows, NEW d \in Device, PlanInv(d),
         HasPlan(d)' => /\ HasPlan(d)
                        /\ UNCHANGED <<plan[d], known[d], applied[d], appliedFrom[d],
                                       listing[d]>>
                        /\ Remaining(d) \subseteq Remaining(d)'
                        /\ InHand(d)' \subseteq InHand(d)
  PROVE  PlanInv(d)'
  <1>. SUFFICES ASSUME HasPlan(d)'
                PROVE  PlanMade(d)' /\ PlanDone(d)' /\ PlanInHand(d)'
    BY DEF PlanInv
  <1>1. PlanMade(d)' BY PlanMadeFrame DEF PlanInv
  <1>2. PlanDone(d)' BY PlanDoneFrame DEF PlanInv
  <1>3. PlanInHand(d)' BY PlanInHandFrame DEF PlanInv
  <1>. QED BY <1>1, <1>2, <1>3

\* The steps that move only the job's program counter and work list.
LEMMA OwnControl ==
  ASSUME TypeOK, TypeOK', Grows, NEW e \in Device, DeviceInv(e), Point(e)
  PROVE
    /\ \A m \in {"reading", "full"} : StartSync(e, m) => DeviceInv(e)'
    /\ Snapshot(e) => DeviceInv(e)'
    /\ PutState(e) => DeviceInv(e)'
    /\ RecordToken(e) => DeviceInv(e)'
    /\ RecordFlag(e) => DeviceInv(e)'
    /\ ListStates(e) => DeviceInv(e)'
    /\ AckReading(e) => DeviceInv(e)'
    /\ PublishNothing(e) => DeviceInv(e)'
    /\ PublishIndex(e) => DeviceInv(e)'
    /\ PublishDone(e) => DeviceInv(e)'
    /\ PublishLibrary(e) => DeviceInv(e)'
    /\ Deliver(e) => DeviceInv(e)'
    /\ Abort(e) => DeviceInv(e)'
  <1>. USE DEF DeviceInv, TypeOK, JobOK, storeVars, cacheVars, indexVars, appliedVars, sessionVars,
             jobVars, loopVars, handVars, planVars
  <1>1. ASSUME NEW m \in {"reading", "full"}, StartSync(e, m) PROVE DeviceInv(e)'
    <2>. USE <1>1 DEF StartSync, Goto
    <2>1. StoredInv(e)' BY StoredFrame
    <2>2. Control(e)' BY DEF Control, Point, Listed
    <2>3. PlanInv(e)' BY PlanFrame DEF Point, HasPlan, InHand, Remaining
    <2>. QED BY <2>1, <2>2, <2>3
  <1>2. ASSUME Snapshot(e) PROVE DeviceInv(e)'
    <2>. USE <1>2 DEF Snapshot, TakeSnapshot, Goto
    <2>1. StoredInv(e)' BY StoredFrame
    <2>2. Control(e)' BY DEF Control, Point, Listed
    <2>3. PlanInv(e)' BY PlanFrame DEF Point, HasPlan, InHand, Remaining
    <2>. QED BY <2>1, <2>2, <2>3
  <1>3. ASSUME PutState(e) PROVE DeviceInv(e)'
    <2>. USE <1>3 DEF PutState, Goto
    <2>1. StoredInv(e)' BY StoredFrame
    <2>2. Control(e)' BY DEF Control, Point, Listed
    <2>3. PlanInv(e)' BY PlanFrame DEF Point, HasPlan, InHand, Remaining
    <2>. QED BY <2>1, <2>2, <2>3
  <1>4. ASSUME RecordToken(e) PROVE DeviceInv(e)'
    <2>. USE <1>4 DEF RecordToken, NewToken, AfterRecord, Goto
    <2>1. StoredInv(e)' BY StoredFrame
    <2>2. Control(e)' BY DEF Control, Point, Listed
    <2>3. PlanInv(e)' BY PlanFrame DEF Point, HasPlan, InHand, Remaining
    <2>. QED BY <2>1, <2>2, <2>3
  <1>5. ASSUME RecordFlag(e) PROVE DeviceInv(e)'
    <2>. USE <1>5 DEF RecordFlag, AfterRecord, Goto
    <2>1. StoredInv(e)' BY StoredFrame
    <2>2. Control(e)' BY DEF Control, Point, Listed
    <2>3. PlanInv(e)' BY PlanFrame DEF Point, HasPlan, InHand, Remaining
    <2>. QED BY <2>1, <2>2, <2>3
  <1>6. ASSUME ListStates(e) PROVE DeviceInv(e)'
    <2>. USE <1>6 DEF ListStates, ListFiles, Goto
    <2>1. StoredInv(e)' BY StoredFrame
    <2>2. Control(e)' BY DEF Control, Point, Listed
    <2>3. PlanInv(e)' BY PlanFrame DEF Point, HasPlan, InHand, Remaining
    <2>. QED BY <2>1, <2>2, <2>3
  <1>7. ASSUME AckReading(e) PROVE DeviceInv(e)'
    <2>. USE <1>7 DEF AckReading, AtAcknowledge, Acknowledged, Goto
    <2>1. StoredInv(e)' BY StoredFrame
    <2>2. Control(e)' BY DEF Control, Point, Listed
    <2>3. PlanInv(e)' BY PlanFrame DEF Point, HasPlan, InHand, Remaining
    <2>. QED BY <2>1, <2>2, <2>3
  <1>8. ASSUME PublishNothing(e) PROVE DeviceInv(e)'
    <2>. USE <1>8 DEF PublishNothing, LeavePublish, AfterPublish, AtPublish, Initializing, Forget, Goto
    <2>1. StoredInv(e)' BY StoredFrame
    <2>2. Control(e)' BY DEF Control, Point, Listed
    <2>3. PlanInv(e)' BY PlanFrame DEF Point, HasPlan, InHand, Remaining
    <2>. QED BY <2>1, <2>2, <2>3
  <1>9. ASSUME PublishIndex(e) PROVE DeviceInv(e)'
    <2>. USE <1>9 DEF PublishIndex, AtPublish, Goto
    <2>1. StoredInv(e)' BY StoredFrame
    <2>2. Control(e)' BY DEF Control, Point, Listed
    <2>3. PlanInv(e)' BY PlanFrame DEF Point, HasPlan, InHand, Remaining
    <2>. QED BY <2>1, <2>2, <2>3
  <1>10. ASSUME PublishDone(e) PROVE DeviceInv(e)'
    <2>. USE <1>10 DEF PublishDone, LeavePublish, AfterPublish, Forget, Goto
    <2>1. StoredInv(e)' BY StoredFrame
    <2>2. Control(e)' BY DEF Control, Point, Listed
    <2>3. PlanInv(e)' BY PlanFrame, ZenonT(40) DEF Point, HasPlan, InHand, Remaining
    <2>. QED BY <2>1, <2>2, <2>3
  <1>11. ASSUME PublishLibrary(e) PROVE DeviceInv(e)'
    <2>. USE <1>11 DEF PublishLibrary, Goto
    <2>1. StoredInv(e)' BY StoredFrame
    <2>2. Control(e)' BY DEF Control, Point, Listed
    <2>3. PlanInv(e)' BY PlanFrame DEF Point, HasPlan, InHand, Remaining
    <2>. QED BY <2>1, <2>2, <2>3
  <1>12. ASSUME Deliver(e) PROVE DeviceInv(e)'
    <2>. USE <1>12 DEF Deliver, Goto
    <2>1. StoredInv(e)' BY StoredFrame
    <2>2. Control(e)' BY DEF Control, Point, Listed
    <2>3. PlanInv(e)' BY PlanFrame DEF Point, HasPlan, InHand, Remaining
    <2>. QED BY <2>1, <2>2, <2>3
  <1>13. ASSUME Abort(e) PROVE DeviceInv(e)'
    <2>. USE <1>13 DEF Abort, Forget, Goto
    <2>1. StoredInv(e)' BY StoredFrame
    <2>2. Control(e)' BY DEF Control, Point, Listed
    <2>3. PlanInv(e)' BY PlanFrame DEF Point, HasPlan, InHand, Remaining
    <2>. QED BY <2>1, <2>2, <2>3
  <1>. QED BY <1>1, <1>2, <1>3, <1>4, <1>5, <1>6, <1>7, <1>8, <1>9, <1>10, <1>11, <1>12, <1>13

\* Nothing that the reader, the host or the server does disturbs the device.
LEMMA OwnShelf ==
  ASSUME TypeOK, TypeOK', Grows, NEW e \in Device, DeviceInv(e)
  PROVE
    /\ \A b \in Book : Edit(e, b) => DeviceInv(e)'
    /\ \A b \in Book : RemoveBook(e, b) => DeviceInv(e)'
    /\ \A b \in Book : RestoreBook(e, b) => DeviceInv(e)'
    /\ \A b \in Book : LoseState(e, b) => DeviceInv(e)'
    /\ AuditExpires(e) => DeviceInv(e)'
    /\ Import(e) => DeviceInv(e)'
  <1>. USE SameInv DEF storeVars, cacheVars, indexVars, appliedVars, sessionVars, jobVars,
                       loopVars, handVars, planVars
  <1>1. \A b \in Book : Edit(e, b) => DeviceInv(e)' BY DEF Edit
  <1>2. \A b \in Book : RemoveBook(e, b) => DeviceInv(e)' BY DEF RemoveBook
  <1>3. \A b \in Book : RestoreBook(e, b) => DeviceInv(e)' BY DEF RestoreBook
  <1>4. \A b \in Book : LoseState(e, b) => DeviceInv(e)' BY DEF LoseState
  <1>5. AuditExpires(e) => DeviceInv(e)' BY DEF AuditExpires
  <1>6. Import(e) => DeviceInv(e)' BY DEF Import
  <1>. QED BY <1>1, <1>2, <1>3, <1>4, <1>5, <1>6

\* A completed book needs no comparison: its checkpoint stands for the
\* revisions of the plan.
LEMMA CompletedHas ==
  ASSUME TypeOK, NEW e \in Device, NEW P \in PlanType, NEW b \in Book, NEW marks,
         Completed(e, P, marks, b),
         \A p \in Device : \A v \in marks[b] : Has(e, p, b, v[p]),
         \A p \in Device \ {e} : p \notin P.peers => P.index[p][b].ver = 0
  PROVE  \A q \in Device \ {e} : Has(e, q, b, P.index[q][b])
  <1>. SUFFICES ASSUME NEW q \in Device \ {e} PROVE Has(e, q, b, P.index[q][b])
    OBVIOUS
  <1>1. CASE q \notin P.peers
    <2>1. P.index[q][b].ver = 0 /\ merged[e][q][b] \in Stamp
      BY <1>1 DEF TypeOK, StoreOK
    <2>. QED BY <2>1 DEF Has, AtLeast, Stamp
  <1>2. CASE q \in P.peers
    <2>1. CheckpointValue(P, b) \in marks[b] BY DEF Completed
    <2>2. CheckpointValue(P, b)[q] = P.index[q][b] BY <1>2 DEF CheckpointValue
    <2>. QED BY <2>1, <2>2
  <1>. QED BY <1>1, <1>2

\* The loop over the plan passes over completed books.
LEMMA OwnBeginPlan ==
  ASSUME TypeOK, TypeOK', Grows, NEW e \in Device, DeviceInv(e), Point(e), BeginPlan(e)
  PROVE  DeviceInv(e)'
  <1>. USE DEF DeviceInv
  <1>1. /\ UNCHANGED <<merged, digest, applied, appliedFrom, known, checkpoint, listing,
                       plan, left, lost>>
        /\ pc[e] = "download" /\ pc'[e] = "plan"
        /\ loop[e] = "download" /\ loop'[e] = "plan"
        /\ \A b \in plan[e].reading \ todo'[e] : Completed(e, plan[e], checkpoint[e], b)
    BY DEF BeginPlan, Point, Goto, TypeOK, JobOK, storeVars, cacheVars, appliedVars, sessionVars,
           handVars, planVars, envVars
  <1>2. /\ HasPlan(e) /\ InHand(e)' = {}
        /\ Remaining(e) = plan[e].reading /\ Remaining(e)' = todo'[e]
    BY <1>1 DEF HasPlan, InHand, Remaining
  <1>3. PlanMade(e) /\ PlanDone(e) BY <1>2 DEF PlanInv
  <1>4. plan[e] \in PlanType BY DEF TypeOK, JobOK
  <1>5. StoredInv(e)' BY <1>1, StoredFrame
  <1>6. Control(e)' BY <1>1 DEF Control
  <1>7. PlanMade(e)' BY <1>1, <1>3, PlanMadeFrame
  <1>8. PlanDone(e)'
    <2>1. ASSUME NEW b \in plan[e].books \ todo'[e], NEW q \in Device \ {e}
          PROVE  <<e, b>> \in left \/ Has(e, q, b, plan[e].index[q][b])
      <3>1. b \in Book BY <1>4 DEF PlanType
      <3>2. CASE b \notin plan[e].reading BY <1>2, <1>3, <2>1, <3>2 DEF PlanDone
      <3>3. CASE b \in plan[e].reading
        <4>1. Completed(e, plan[e], checkpoint[e], b) BY <1>1, <2>1, <3>3
        <4>2. \A p \in Device : \A v \in checkpoint[e][b] : Has(e, p, b, v[p])
          BY <3>1 DEF StoredInv, CheckpointMerged
        <4>3. \A p \in Device \ {e} : p \notin plan[e].peers => plan[e].index[p][b].ver = 0
          BY <1>3, <3>1 DEF PlanMade
        <4>. QED BY <1>4, <3>1, <4>1, <4>2, <4>3, CompletedHas
      <3>. QED BY <3>2, <3>3
    <2>. QED BY <1>1, <1>2, <2>1 DEF PlanDone, Has, AtLeast
  <1>9. PlanInHand(e)' BY <1>2 DEF PlanInHand
  <1>. QED BY <1>5, <1>6, <1>7, <1>8, <1>9 DEF PlanInv

\* What the server holds is as new as what any plan was made from.
LEMMA FileNewer ==
  ASSUME TypeOK, UploadInv, NEW d \in Device, PlanMade(d), NEW q \in Device, NEW b \in Book
  PROVE  <<q, b>> \in lost \/ AtLeast(state[q][b], plan[d].index[q][b])
  <1>1. <<q, b>> \in lost \/ state[q][b].ver = uploads[q][b] BY DEF UploadInv, FileCurrent
  <1>2. plan[d].index[q][b].ver <= uploads[q][b] BY DEF PlanMade
  <1>. QED BY <1>1, <1>2 DEF AtLeast, TypeOK, ServerOK, EnvOK, JobOK, PlanType, Stamp

\* Comparing and merging the files of the book in hand.
LEMMA OwnSkip ==
  ASSUME TypeOK, TypeOK', UploadInv, Grows, NEW e \in Device, DeviceInv(e), SkipState(e)
  PROVE  DeviceInv(e)'
  <1>. USE DEF DeviceInv, storeVars, cacheVars, indexVars, appliedVars, sessionVars, loopVars, planVars
  <1>1. PICK p \in Listed(e) : /\ \E f \in Fetched(e, p) : f \in {NoStamp, digest[e][p][book[e]]}
                               /\ Unlist(e, p)
    BY DEF SkipState
  <1>2. PICK f \in Fetched(e, p) : f \in {NoStamp, digest[e][p][book[e]]} BY <1>1
  <1>3. p \in Device /\ book[e] \in Book /\ listing[e][p] # NoStamp /\ listing[e] \in [Device -> Stamp]
    BY DEF Listed, TypeOK, JobOK
  <1>4. StoredInv(e)' BY StoredFrame DEF SkipState
  <1>5. Control(e)' BY DEF SkipState, Control, AtLeast
  <1>6. HasPlan(e)' = HasPlan(e) /\ InHand(e)' = InHand(e) /\ Remaining(e)' = Remaining(e)
    BY DEF SkipState, HasPlan, InHand, Remaining
  <1>7. ASSUME HasPlan(e) PROVE PlanMade(e)' /\ PlanDone(e)' /\ PlanInHand(e)'
    <2>1. PlanMade(e) /\ PlanDone(e) /\ PlanInHand(e) BY <1>7 DEF PlanInv
    <2>2. PlanMade(e)' BY <2>1, PlanMadeFrame DEF SkipState
    <2>3. PlanDone(e)' BY <1>6, <2>1, PlanDoneFrame DEF SkipState
    <2>4. ASSUME NEW b \in InHand(e), NEW q \in Device \ {e}
          PROVE  \/ Has(e, q, b, plan[e].index[q][b])
                 \/ AtLeast(listing'[e][q], plan[e].index[q][b])
      <3>1. b = book[e] BY DEF InHand
      <3>2. CASE q # p BY <1>1, <1>3, <2>1, <2>4, <3>2 DEF PlanInHand, Unlist, TypeOK, JobOK
      <3>3. CASE q = p /\ ~Has(e, q, b, plan[e].index[q][b])
        <4>. DEFINE s == plan[e].index[q][b]
        <4>1. <<q, b>> \notin lost /\ ~AtLeast(merged[e][q][b], s) BY <3>3 DEF Has
        <4>2. AtLeast(listing[e][q], s) BY <2>1, <2>4, <3>3 DEF PlanInHand
        <4>3. AtLeast(state[q][b], s) BY <1>3, <2>1, <3>1, <4>1, FileNewer
        <4>4. AtLeast(f, s) BY <1>3, <3>1, <3>3, <4>2, <4>3 DEF Fetched
        <4>5. s \in Stamp /\ merged[e][q][b] \in Stamp /\ digest[e][q][b] \in Stamp
          BY <1>3, <3>1 DEF TypeOK, StoreOK, CacheOK, JobOK, PlanType
        <4>6. CASE f = NoStamp
          BY <4>1, <4>4, <4>5, <4>6 DEF NoStamp, AtLeast, Stamp
        <4>7. CASE f = digest[e][p][b]
          <5>1. AtLeast(merged[e][q][b], digest[e][q][b])
            BY <1>3, <3>1 DEF StoredInv, DigestMerged
          <5>. QED BY <3>3, <4>1, <4>4, <4>5, <4>7, <5>1 DEF AtLeast, Stamp
        <4>. QED BY <1>2, <3>1, <4>6, <4>7
      <3>. QED BY <3>2, <3>3
    <2>5. PlanInHand(e)'
      <3>1. UNCHANGED <<plan, merged, lost>> BY DEF SkipState, envVars, jobVars
      <3>. QED BY <1>6, <2>4, <3>1 DEF PlanInHand, Has, AtLeast
    <2>. QED BY <2>2, <2>3, <2>5
  <1>. QED BY <1>4, <1>5, <1>6, <1>7 DEF PlanInv

LEMMA OwnMerge ==
  ASSUME TypeOK, TypeOK', UploadInv, Grows, NEW e \in Device, DeviceInv(e), MergeState(e)
  PROVE  DeviceInv(e)'
  <1>. USE DEF DeviceInv
  <1>1. PICK p \in Listed(e), r \in BOOLEAN :
            \E f \in Fetched(e, p) \ {NoStamp, digest[e][p][book[e]]} :
             /\ merged' = [merged EXCEPT ![e][p][book[e]] = IF AtLeast(@, f) THEN @ ELSE f]
             /\ listing' = [listing EXCEPT ![e][p] = f]
             /\ peer' = [peer EXCEPT ![e] = p]
    BY DEF MergeState
  <1>2. PICK f \in Fetched(e, p) :
             /\ merged' = [merged EXCEPT ![e][p][book[e]] = IF AtLeast(@, f) THEN @ ELSE f]
             /\ listing' = [listing EXCEPT ![e][p] = f]
             /\ peer' = [peer EXCEPT ![e] = p]
    BY <1>1
  <1>3. /\ p \in Device /\ book[e] \in Book /\ listing[e] \in [Device -> Stamp]
        /\ f \in Stamp
    BY DEF Listed, Fetched, TypeOK, JobOK, ServerOK
  <1>4. /\ UNCHANGED <<digest, applied, appliedFrom, known, checkpoint,
                       loop, todo, book, pushed, plan, lost>>
        /\ pc[e] = "merge" /\ pc' = [pc EXCEPT ![e] = "mark"]
    BY DEF MergeState, cacheVars, appliedVars, sessionVars, loopVars, planVars, envVars, Goto
  <1>5. StoredInv(e)' BY <1>4, StoredFrame
  <1>6. pc'[e] = "mark" BY <1>4 DEF TypeOK, JobOK
  <1>7. AtLeast(merged'[e][p][book[e]], f)
    BY <1>2, <1>3 DEF AtLeast, TypeOK, StoreOK, Stamp
  <1>8. Control(e)'
    <2>1. peer'[e] = p /\ listing'[e][p] = f BY <1>2, <1>3 DEF TypeOK, JobOK
    <2>. QED BY <1>4, <1>6, <1>7, <2>1 DEF Control, AtLeast
  <1>9. HasPlan(e)' = HasPlan(e) /\ InHand(e)' = InHand(e) /\ Remaining(e)' = Remaining(e)
    BY <1>4, <1>6 DEF HasPlan, InHand, Remaining
  <1>10. ASSUME HasPlan(e) PROVE PlanMade(e)' /\ PlanDone(e)' /\ PlanInHand(e)'
    <2>1. PlanMade(e) /\ PlanDone(e) /\ PlanInHand(e) BY <1>10 DEF PlanInv
    <2>2. PlanMade(e)' BY <1>4, <2>1, PlanMadeFrame
    <2>3. PlanDone(e)' BY <1>4, <1>9, <2>1, PlanDoneFrame
    <2>4. ASSUME NEW b \in InHand(e), NEW q \in Device \ {e}
          PROVE  \/ Has(e, q, b, plan[e].index[q][b])'
                 \/ AtLeast(listing'[e][q], plan[e].index[q][b])
      <3>1. b = book[e] BY DEF InHand
      <3>2. plan[e].index[q][b] \in Stamp BY <1>3, <3>1 DEF TypeOK, JobOK, PlanType
      <3>3. CASE Has(e, q, b, plan[e].index[q][b])
        <4>. DEFINE s == plan[e].index[q][b]
        <4>1. Has(e, q, b, s)' BY <1>3, <1>4, <3>1, <3>2, <3>3, HasGrows DEF Has
        <4>. QED BY <1>4, <4>1
      <3>4. CASE q # p
        <4>1. listing'[e][q] = listing[e][q] BY <1>2, <1>3, <3>4 DEF TypeOK, JobOK
        <4>2. CASE AtLeast(listing[e][q], plan[e].index[q][b]) BY <4>1, <4>2
        <4>. QED BY <2>1, <2>4, <3>3, <4>2 DEF PlanInHand
      <3>5. CASE q = p /\ ~Has(e, q, b, plan[e].index[q][b])
        <4>1. AtLeast(listing[e][q], plan[e].index[q][b]) BY <2>1, <2>4, <3>5 DEF PlanInHand
        <4>2. AtLeast(state[q][b], plan[e].index[q][b])
          BY <1>3, <2>1, <3>1, <3>5, FileNewer DEF Has
        <4>3. listing'[e][q] = f BY <1>2, <1>3, <3>5 DEF TypeOK, JobOK
        <4>. QED BY <1>3, <3>1, <3>5, <4>1, <4>2, <4>3 DEF Fetched
      <3>. QED BY <3>3, <3>4, <3>5
    <2>5. PlanInHand(e)' BY <1>4, <1>9, <2>4 DEF PlanInHand, AtLeast
    <2>. QED BY <2>2, <2>3, <2>5
  <1>. QED BY <1>5, <1>8, <1>9, <1>10 DEF PlanInv

LEMMA OwnMark ==
  ASSUME TypeOK, TypeOK', Grows, NEW e \in Device, DeviceInv(e), MarkApplied(e)
  PROVE  DeviceInv(e)'
  <1>. USE DEF DeviceInv
  <1>. DEFINE p == peer[e]
  <1>1. /\ UNCHANGED <<merged, applied, appliedFrom, known, checkpoint,
                       loop, todo, book, pushed, plan, lost>>
        /\ pc[e] = "mark" /\ pc' = [pc EXCEPT ![e] = "merge"]
        /\ digest' = [digest EXCEPT ![e][p][book[e]] = listing[e][p]]
        /\ listing' = [listing EXCEPT ![e][p] = NoStamp]
    BY DEF MarkApplied, Unlist, storeVars, sessionVars, loopVars, planVars, envVars, Goto
  <1>2. p \in Device /\ book[e] \in Book /\ listing[e] \in [Device -> Stamp] /\ pc'[e] = "merge"
    BY <1>1 DEF TypeOK, JobOK
  <1>3. AtLeast(merged[e][p][book[e]], listing[e][p]) BY <1>1 DEF Control
  <1>4. DigestMerged(e)'
    <2>1. ASSUME NEW q \in Device, NEW b \in Book
          PROVE  AtLeast(merged[e][q][b], digest'[e][q][b])
      <3>1. CASE q = p /\ b = book[e] BY <1>1, <1>2, <1>3, <3>1 DEF TypeOK, CacheOK
      <3>2. CASE ~(q = p /\ b = book[e])
        <4>1. digest'[e][q][b] = digest[e][q][b] BY <1>1, <1>2, <3>2 DEF TypeOK, CacheOK
        <4>. QED BY <4>1 DEF StoredInv, DigestMerged
      <3>. QED BY <3>1, <3>2
    <2>. QED BY <1>1, <2>1 DEF DigestMerged, AtLeast
  <1>5. StoredInv(e)'
    <2>1. PeersListed(e)' BY <1>1 DEF StoredInv, PeersListed, Grows
    <2>. QED BY <1>1, <1>4, <2>1, IndexFrame, CheckpointFrame DEF StoredInv
  <1>6. Control(e)' BY <1>1, <1>2 DEF Control
  <1>7. HasPlan(e)' = HasPlan(e) /\ InHand(e)' = InHand(e) /\ Remaining(e)' = Remaining(e)
    BY <1>1, <1>2 DEF HasPlan, InHand, Remaining
  <1>8. ASSUME HasPlan(e) PROVE PlanMade(e)' /\ PlanDone(e)' /\ PlanInHand(e)'
    <2>1. PlanMade(e) /\ PlanDone(e) /\ PlanInHand(e) BY <1>8 DEF PlanInv
    <2>2. PlanMade(e)' BY <1>1, <2>1, PlanMadeFrame
    <2>3. PlanDone(e)' BY <1>1, <1>7, <2>1, PlanDoneFrame
    <2>4. ASSUME NEW b \in InHand(e), NEW q \in Device \ {e}
          PROVE  \/ Has(e, q, b, plan[e].index[q][b])
                 \/ AtLeast(listing'[e][q], plan[e].index[q][b])
      <3>1. b = book[e] BY DEF InHand
      <3>2. CASE q # p
        <4>1. listing'[e][q] = listing[e][q] BY <1>1, <1>2, <3>2 DEF TypeOK, JobOK
        <4>. QED BY <2>1, <2>4, <4>1 DEF PlanInHand
      <3>3. CASE q = p
        <4>1. /\ plan[e].index[q][b] \in Stamp /\ merged[e][q][b] \in Stamp
              /\ listing[e][q] \in Stamp
          BY <1>2, <3>1 DEF TypeOK, JobOK, StoreOK, PlanType
        <4>2. Has(e, q, b, plan[e].index[q][b]) \/ AtLeast(listing[e][q], plan[e].index[q][b])
          BY <2>1, <2>4 DEF PlanInHand
        <4>. QED BY <1>3, <3>1, <3>3, <4>1, <4>2 DEF Has, AtLeast, Stamp
      <3>. QED BY <3>2, <3>3
    <2>5. PlanInHand(e)' BY <1>1, <1>7, <2>4 DEF PlanInHand, Has, AtLeast
    <2>. QED BY <2>2, <2>3, <2>5
  <1>. QED BY <1>5, <1>6, <1>7, <1>8 DEF PlanInv

\* Making a plan: each reason for leaving a book out is backed by the store.
LEMMA OwnPrepare ==
  ASSUME TypeOK, TypeOK', UploadInv, ShelfInv, Grows, NEW e \in Device, DeviceInv(e),
         Prepare(e)
  PROVE  DeviceInv(e)'
  <1>. USE DEF DeviceInv
  <1>. DEFINE P == NewPlan(e)
  <1>1. /\ UNCHANGED <<membership, merged, digest, applied, appliedFrom, known, listing,
                       uploads, left, lost, listedIn, indexed>>
        /\ pc[e] = "prepare" /\ pc'[e] = "library"
        /\ loop'[e] = "download"
        /\ plan'[e] = P /\ checkpoint'[e] = Marks(e)
    BY DEF Prepare, Goto, storeVars, serverVars, appliedVars, handVars, envVars, TypeOK, JobOK,
           CacheOK
  <1>2. P \in PlanType /\ Marks(e) \in [Book -> SUBSET [Device -> Stamp]] BY NewPlanOK
  <1>3. \A p \in Device, b \in Book : \A v \in Marks(e)[b] : Has(e, p, b, v[p])
    BY DEF Marks, StoredInv, CheckpointMerged
  <1>. DEFINE from == (Peers(e) \cup {e}) \cap indexed
              p0 == [books |-> Remote \cup Local(e), shelf |-> Local(e),
                     peers |-> Peers(e), from |-> from, reading |-> Chosen(e),
                     index |-> [q \in Device |-> IF q \in from THEN index[q] ELSE NoIndex],
                     audit |-> auditDue[e], resumable |-> Peers(e) \subseteq indexed]
  <1>4. /\ P.books = Remote \cup Local(e) /\ P.peers = Peers(e) /\ P.from = from
        /\ \A q \in Device : P.index[q] = IF q \in from THEN index[q] ELSE NoIndex
        /\ P.resumable = p0.resumable
        /\ P.reading = {b \in Chosen(e) : ~Completed(e, p0, Marks(e), b)}
    BY DEF NewPlan
  <1>5. StoredInv(e)'
    <2>1. CheckpointMerged(e)' BY <1>1, <1>3 DEF CheckpointMerged, Has, AtLeast
    <2>2. PeersListed(e)' BY <1>1 DEF StoredInv, PeersListed
    <2>. QED BY <1>1, <2>1, <2>2, IndexFrame, DigestFrame DEF StoredInv
  <1>6. Control(e)' BY <1>1 DEF Control
  <1>7. InHand(e)' = {} /\ Remaining(e)' = P.reading BY <1>1 DEF InHand, Remaining
  <1>8. \A q \in Device \ {e}, b \in Book : q \notin P.peers => P.index[q][b].ver = 0
    BY <1>4 DEF NoIndex, NoStamp
  <1>9. PlanMade(e)'
    <2>1. ASSUME NEW q \in Device, NEW b \in Book PROVE P.index[q][b].ver <= uploads[q][b]
      <3>1. P.index[q][b] \in {index[q][b], NoStamp} BY <1>4 DEF NoIndex
      <3>2. /\ index[q][b].ver <= recorded[q][b].ver
            /\ recorded[q][b].ver <= uploads[q][b]
        BY DEF UploadInv, IndexTrails
      <3>. QED BY <3>1, <3>2 DEF NoStamp, TypeOK, ServerOK, CacheOK, EnvOK, Stamp
    <2>2. e \notin P.peers /\ P.from \ {e} \subseteq listedIn \cap indexed
      BY <1>4 DEF Peers
    <2>3. ASSUME NEW b \in known[e] PROVE <<e, b>> \in left \/ b \in P.books
      <3>1. b \in Book BY DEF TypeOK, CacheOK
      <3>2. Point(e) /\ ShelfHanded(e) /\ WithinReach(e, b)
        BY DEF ShelfInv, PlannedInReach
      <3>3. Handed(e) BY <1>1, <3>2 DEF Point, Handed
      <3>4. CASE b \in Shelf(e)
        BY <1>4, <3>2, <3>3, <3>4 DEF ShelfHanded, Local, Shelf
      <3>5. CASE \E q \in listedIn : b \in library[q] BY <1>4, <3>5 DEF Remote
      <3>. QED BY <3>2, <3>4, <3>5 DEF WithinReach
    <2>4. \A q \in appliedFrom[e] \ {e} : q \in P.from
      BY <1>4 DEF Peers, StoredInv, PeersListed
    <2>. QED BY <1>1, <1>8, <2>1, <2>2, <2>3, <2>4 DEF PlanMade
  <1>10. PlanDone(e)'
    <2>1. ASSUME NEW b \in P.books \ P.reading, NEW q \in Device \ {e}
          PROVE  <<e, b>> \in left \/ Has(e, q, b, P.index[q][b])
      <3>1. b \in Book BY <1>2 DEF PlanType
      <3>2. CASE b \in Chosen(e)
        <4>1. Completed(e, p0, Marks(e), b) BY <1>4, <2>1, <3>2
        <4>2. CheckpointValue(P, b) = CheckpointValue(p0, b) BY <1>4 DEF CheckpointValue
        <4>3. Completed(e, P, Marks(e), b) BY <1>4, <4>1, <4>2 DEF Completed
        <4>. QED BY <1>2, <1>3, <1>8, <3>1, <4>3, CompletedHas
      <3>3. CASE b \notin Chosen(e) /\ q \in P.peers
        <4>1. ~Fallback(e) /\ b \notin Changed(e) /\ b \in known[e]
          BY <1>4, <3>1, <3>3 DEF Chosen
        <4>2. q \in Peers(e) /\ q \in indexed /\ q \in appliedFrom[e]
          BY <1>4, <3>3, <4>1 DEF Fallback
        <4>3. P.index[q][b] = applied[e][q][b] BY <1>4, <3>1, <4>1, <4>2 DEF Changed
        <4>. QED BY <4>1, <4>2, <4>3 DEF StoredInv, IndexMerged
      <3>4. CASE q \notin P.peers
        <4>1. P.index[q][b].ver = 0 /\ merged[e][q][b] \in Stamp
          BY <1>8, <3>1, <3>4 DEF TypeOK, StoreOK
        <4>. QED BY <4>1 DEF Has, AtLeast, Stamp
      <3>. QED BY <3>2, <3>3, <3>4
    <2>. QED BY <1>1, <1>7, <2>1 DEF PlanDone, Has, AtLeast
  <1>11. PlanInHand(e)' BY <1>7 DEF PlanInHand
  <1>. QED BY <1>5, <1>6, <1>9, <1>10, <1>11 DEF PlanInv

\* Taking a book: its listing is made after the plan, so it has what the plan
\* asks for.
LEMMA TakeInv ==
  ASSUME TypeOK, TypeOK', UploadInv, Grows, NEW e \in Device, DeviceInv(e), HasPlan(e),
         NEW b \in Book, NEW P, Take(e, b, P), Remaining(e) \subseteq Remaining(e)',
         UNCHANGED <<digest, applied, appliedFrom, known, checkpoint, loop, plan, state, lost>>
  PROVE  DeviceInv(e)'
  <1>. USE DEF DeviceInv
  <1>1. pc'[e] \in {"put", "merge"} /\ book'[e] = b
        /\ \A q \in Device \ {e} : listing'[e][q] = state[q][b]
    BY DEF Take, ListFiles, Goto, TypeOK, JobOK
  <1>2. InHand(e)' = {b} BY <1>1 DEF InHand, HasPlan
  <1>3. PlanMade(e) /\ PlanDone(e) BY DEF PlanInv
  <1>4. StoredInv(e)' BY StoredFrame
  <1>5. Control(e)' BY <1>1 DEF Control
  <1>6. PlanMade(e)' BY <1>3, PlanMadeFrame
  <1>7. PlanDone(e)' BY <1>3, PlanDoneFrame
  <1>8. PlanInHand(e)'
    <2>1. ASSUME NEW q \in Device \ {e}
          PROVE  \/ <<q, b>> \in lost
                 \/ AtLeast(listing'[e][q], plan[e].index[q][b])
      BY <1>1, <1>3, FileNewer
    <2>. QED BY <1>2, <2>1 DEF PlanInHand, Has, AtLeast
  <1>. QED BY <1>4, <1>5, <1>6, <1>7, <1>8 DEF PlanInv

LEMMA OwnPlanBook ==
  ASSUME TypeOK, TypeOK', UploadInv, Grows, NEW e \in Device, DeviceInv(e), Point(e),
         PlanBook(e)
  PROVE  DeviceInv(e)'
  <1>1. PICK b \in todo[e] : todo' = [todo EXCEPT ![e] = @ \ {b}] /\ Take(e, b, due[e])
    BY DEF PlanBook
  <1>2. /\ UNCHANGED <<digest, applied, appliedFrom, known, checkpoint, loop, plan, state,
                       lost>>
        /\ pc[e] = "plan" /\ loop[e] = "plan"
    BY DEF PlanBook, Point, appliedVars, cacheVars, sessionVars, planVars, serverVars, envVars
  <1>3. /\ b \in Book /\ todo'[e] = todo[e] \ {b} /\ book'[e] = b
        /\ pc'[e] \in {"put", "merge"}
    BY <1>1 DEF Take, Goto, TypeOK, JobOK
  <1>4. HasPlan(e) /\ Remaining(e) \subseteq Remaining(e)'
    BY <1>2, <1>3 DEF HasPlan, InHand, Remaining
  <1>. QED BY <1>1, <1>2, <1>3, <1>4, TakeInv

LEMMA OwnDownload ==
  ASSUME TypeOK, TypeOK', UploadInv, Grows, NEW e \in Device, DeviceInv(e), Point(e),
         Download(e)
  PROVE  DeviceInv(e)'
  <1>1. PICK b \in fetch[e] :
          IF b \in plan[e].reading
          THEN Take(e, b, PendingReading(e))
          ELSE /\ Goto(e, "deliver")
               /\ UNCHANGED <<snap, pushed, listing>>
    BY DEF Download
  <1>2. /\ UNCHANGED <<merged, digest, applied, appliedFrom, known, checkpoint, loop, plan,
                       todo, state, lost>>
        /\ pc[e] = "download" /\ loop[e] = "download"
    BY DEF Download, Point, storeVars, appliedVars, cacheVars, sessionVars, planVars, serverVars,
           envVars
  <1>3. b \in Book BY DEF TypeOK, JobOK
  <1>4. HasPlan(e) /\ Remaining(e) = plan[e].reading /\ plan[e].reading \subseteq Remaining(e)'
    BY <1>2 DEF HasPlan, InHand, Remaining
  <1>5. CASE b \in plan[e].reading
    BY <1>1, <1>2, <1>3, <1>4, <1>5, TakeInv
  <1>6. CASE b \notin plan[e].reading
    <2>1. pc'[e] = "deliver" /\ UNCHANGED listing BY <1>1, <1>6 DEF Goto, TypeOK, JobOK
    <2>2. StoredInv(e)' BY <1>2, StoredFrame DEF DeviceInv
    <2>3. Control(e)' BY <2>1 DEF Control
    <2>4. InHand(e)' = {} BY <2>1 DEF InHand
    <2>5. PlanInv(e)' BY <1>2, <1>4, <2>1, <2>4, PlanFrame DEF DeviceInv
    <2>. QED BY <2>2, <2>3, <2>5 DEF DeviceInv
  <1>. QED BY <1>5, <1>6

\* Once nothing is listed, the store has what the book in hand needs.
LEMMA OwnCheckpoint ==
  ASSUME TypeOK, TypeOK', Grows, NEW e \in Device, DeviceInv(e), Point(e), Checkpoint(e)
  PROVE  DeviceInv(e)'
  <1>. USE DEF DeviceInv
  <1>1. /\ UNCHANGED <<merged, digest, applied, appliedFrom, known, loop, todo, book, pushed,
                       listing, peer, plan, lost>>
        /\ pc[e] \in {"checkpoint", "merge"} /\ pc'[e] \in {"deliver", "plan"}
        /\ Listed(e) = {}
        /\ loop[e] # "changed"
    BY DEF Checkpoint, Control, Point, storeVars, appliedVars, loopVars, handVars, planVars, envVars,
           Goto, TypeOK, JobOK
  <1>2. HasPlan(e) /\ InHand(e) = {book[e]} /\ InHand(e)' = {}
        /\ Remaining(e) = Remaining(e)' \cup {book[e]}
    BY <1>1 DEF HasPlan, InHand, Remaining
  <1>3. PlanMade(e) /\ PlanDone(e) /\ PlanInHand(e) BY <1>2 DEF PlanInv
  <1>4. book[e] \in Book /\ plan[e] \in PlanType BY DEF TypeOK, JobOK
  <1>5. ASSUME NEW q \in Device \ {e} PROVE Has(e, q, book[e], plan[e].index[q][book[e]])
    <2>. DEFINE s == plan[e].index[q][book[e]]
    <2>1. listing[e][q] = NoStamp BY <1>1 DEF Listed
    <2>2. s \in Stamp /\ merged[e][q][book[e]] \in Stamp
      BY <1>4 DEF PlanType, TypeOK, StoreOK
    <2>3. CASE AtLeast(listing[e][q], s) BY <2>1, <2>2, <2>3 DEF NoStamp, AtLeast, Stamp, Has
    <2>. QED BY <1>2, <1>3, <2>3 DEF PlanInHand
  <1>6. CheckpointMerged(e)'
    <2>1. ASSUME NEW p \in Device, NEW b \in Book, NEW v \in checkpoint'[e][b]
          PROVE  Has(e, p, b, v[p])
      <3>1. CASE v \in checkpoint[e][b] BY <3>1 DEF StoredInv, CheckpointMerged
      <3>2. CASE v \notin checkpoint[e][b]
        <4>1. b = book[e] /\ v = CheckpointValue(plan[e], b)
          BY <2>1, <3>2 DEF Checkpoint, TypeOK, CacheOK
        <4>2. CASE p \in plan[e].peers
          <5>1. p # e /\ v[p] = plan[e].index[p][b]
            BY <1>3, <4>1, <4>2 DEF PlanMade, CheckpointValue
          <5>. QED BY <1>5, <4>1, <5>1
        <4>3. CASE p \notin plan[e].peers
          <5>1. v[p] = NoStamp /\ merged[e][p][b] \in Stamp
            BY <4>1, <4>3 DEF CheckpointValue, TypeOK, StoreOK
          <5>. QED BY <5>1 DEF Has, AtLeast, NoStamp, Stamp
        <4>. QED BY <4>2, <4>3
      <3>. QED BY <3>1, <3>2
    <2>. QED BY <1>1, <2>1 DEF CheckpointMerged, Has, AtLeast
  <1>7. StoredInv(e)'
    <2>1. PeersListed(e)' BY <1>1 DEF StoredInv, PeersListed, Grows
    <2>. QED BY <1>1, <1>6, <2>1, IndexFrame, DigestFrame DEF StoredInv
  <1>8. Control(e)' BY <1>1 DEF Control
  <1>9. PlanMade(e)' BY <1>1, <1>3, PlanMadeFrame
  <1>10. PlanDone(e)'
    <2>1. \A b \in plan[e].books \ Remaining(e)', q \in Device \ {e} :
              <<e, b>> \in left \/ Has(e, q, b, plan[e].index[q][b])
      BY <1>2, <1>3, <1>5 DEF PlanDone
    <2>. QED BY <1>1, <2>1 DEF PlanDone, Has, AtLeast, Grows
  <1>11. PlanInHand(e)' BY <1>2 DEF PlanInHand
  <1>. QED BY <1>7, <1>8, <1>9, <1>10, <1>11 DEF PlanInv

\* Acknowledging: the work list is empty, so the store has the plan's indexes.
LEMMA OwnAckIndex ==
  ASSUME TypeOK, TypeOK', Grows, NEW e \in Device, DeviceInv(e), Point(e), AckIndex(e)
  PROVE  DeviceInv(e)'
  <1>. USE DEF DeviceInv
  <1>1. PICK q \in plan[e].from :
          /\ applied' = [applied EXCEPT ![e][q] = plan[e].index[q]]
          /\ appliedFrom' = [appliedFrom EXCEPT ![e] = @ \cup {q}]
          /\ plan' = [plan EXCEPT ![e].from = @ \ {q}]
    BY DEF AckIndex
  <1>2. /\ UNCHANGED <<merged, digest, known, checkpoint, pc, loop, todo, book,
                       pushed, listing, peer, left, lost, listedIn, indexed, uploads>>
        /\ pc[e] = "ackIndex"
    BY DEF AckIndex, storeVars, sessionVars, loopVars, handVars, serverVars, envVars
  <1>3. loop[e] = "plan" /\ todo[e] = {} /\ HasPlan(e) /\ InHand(e) = {}
    BY <1>2 DEF Control, Point, HasPlan, InHand
  <1>4. PlanMade(e) /\ PlanDone(e) BY <1>3 DEF PlanInv
  <1>5. plan[e] \in PlanType /\ q \in Device BY DEF TypeOK, JobOK, PlanType
  <1>6. /\ plan'[e].books = plan[e].books /\ plan'[e].shelf = plan[e].shelf
        /\ plan'[e].peers = plan[e].peers /\ plan'[e].index = plan[e].index
        /\ plan'[e].from = plan[e].from \ {q}
        /\ appliedFrom'[e] = appliedFrom[e] \cup {q}
        /\ applied'[e][q] = plan[e].index[q]
        /\ \A p \in Device \ {q} : applied'[e][p] = applied[e][p]
    BY <1>1, <1>5 DEF TypeOK, JobOK, CacheOK, PlanType
  <1>7. IndexMerged(e)'
    <2>1. ASSUME NEW b \in known[e], NEW p \in appliedFrom'[e] \ {e}
          PROVE  <<e, b>> \in left \/ Has(e, p, b, applied'[e][p][b])
      <3>0. p \in Device /\ b \in Book BY <1>5, <1>6 DEF TypeOK, CacheOK
      <3>1. CASE p = q
        <4>1. <<e, b>> \in left \/ b \in plan[e].books BY <1>4, <3>0 DEF PlanMade
        <4>2. ASSUME b \in plan[e].books
              PROVE  <<e, b>> \in left \/ Has(e, p, b, plan[e].index[p][b])
          BY <1>3, <1>4, <2>1, <3>0, <4>2 DEF PlanDone, Remaining
        <4>3. applied'[e][p][b] = plan[e].index[p][b] BY <1>6, <3>1
        <4>. QED BY <4>1, <4>2, <4>3 DEF Has
      <3>2. CASE p # q
        <4>1. p \in appliedFrom[e] \ {e} /\ applied'[e][p] = applied[e][p]
          BY <1>6, <2>1, <3>0, <3>2
        <4>. QED BY <4>1 DEF StoredInv, IndexMerged
      <3>. QED BY <3>1, <3>2
    <2>. QED BY <1>2, <2>1 DEF IndexMerged, Has, AtLeast
  <1>8. StoredInv(e)'
    <2>1. PeersListed(e)' BY <1>2, <1>4, <1>6 DEF StoredInv, PeersListed, PlanMade
    <2>. QED BY <1>2, <1>7, <2>1, DigestFrame, CheckpointFrame DEF StoredInv
  <1>9. Control(e)' BY <1>2, <1>3 DEF Control, Listed, AtLeast
  <1>10. InHand(e)' = {} BY <1>2 DEF InHand
  <1>11. PlanMade(e)'
    <2>1. \A p \in appliedFrom'[e] \ {e} :
             p \in plan'[e].from \/ applied'[e][p] = plan'[e].index[p]
      BY <1>4, <1>5, <1>6 DEF PlanMade, TypeOK, CacheOK
    <2>. QED BY <1>2, <1>4, <1>6, <2>1 DEF PlanMade
  <1>12. PlanDone(e)' BY <1>2, <1>3, <1>4, <1>6, <1>10 DEF PlanDone, Remaining, Has, AtLeast
  <1>13. PlanInHand(e)' BY <1>10 DEF PlanInHand
  <1>. QED BY <1>8, <1>9, <1>11, <1>12, <1>13 DEF PlanInv

LEMMA OwnAckBooks ==
  ASSUME TypeOK, TypeOK', Grows, NEW e \in Device, DeviceInv(e), Point(e), AckBooks(e)
  PROVE  DeviceInv(e)'
  <1>. USE DEF DeviceInv
  <1>1. /\ UNCHANGED <<merged, digest, applied, appliedFrom, checkpoint, loop,
                       todo, book, pushed, listing, peer, plan, left, lost, listedIn,
                       indexed, uploads>>
        /\ pc[e] = "ackIndex" /\ pc'[e] \in {"ackAudit", "ackSession"}
        /\ plan[e].from = {} /\ known'[e] = known[e] \cup plan[e].books
    BY DEF AckBooks, storeVars, sessionVars, loopVars, handVars, planVars, serverVars,
           envVars, Goto, TypeOK, CacheOK, JobOK
  <1>2. loop[e] = "plan" /\ todo[e] = {} /\ HasPlan(e) /\ InHand(e) = {} /\ InHand(e)' = {}
    BY <1>1 DEF Control, Point, HasPlan, InHand
  <1>3. PlanMade(e) /\ PlanDone(e) BY <1>2 DEF PlanInv
  <1>4. plan[e] \in PlanType BY DEF TypeOK, JobOK
  <1>5. IndexMerged(e)'
    <2>1. ASSUME NEW b \in known'[e], NEW p \in appliedFrom[e] \ {e}
          PROVE  <<e, b>> \in left \/ Has(e, p, b, applied[e][p][b])
      <3>1. p \in Device /\ applied[e][p] = plan[e].index[p]
        BY <1>1, <1>3, <2>1 DEF PlanMade, TypeOK, CacheOK
      <3>2. CASE b \in known[e] BY <3>2 DEF StoredInv, IndexMerged
      <3>3. CASE b \in plan[e].books
        BY <1>2, <1>3, <2>1, <3>1, <3>3 DEF PlanDone, Remaining
      <3>. QED BY <1>1, <2>1, <3>2, <3>3
    <2>. QED BY <1>1, <2>1 DEF IndexMerged, Has, AtLeast
  <1>7. StoredInv(e)'
    <2>1. PeersListed(e)' BY <1>1 DEF StoredInv, PeersListed
    <2>. QED BY <1>1, <1>5, <2>1, DigestFrame, CheckpointFrame DEF StoredInv
  <1>8. Control(e)' BY <1>1, <1>2 DEF Control, Listed, AtLeast
  <1>9. PlanMade(e)' BY <1>1, <1>3 DEF PlanMade
  <1>10. PlanDone(e)' BY <1>1, <1>2, <1>3 DEF PlanDone, Remaining, Has, AtLeast
  <1>11. PlanInHand(e)' BY <1>2 DEF PlanInHand
  <1>. QED BY <1>7, <1>8, <1>9, <1>10, <1>11 DEF PlanInv

LEMMA OwnAckEnd ==
  ASSUME TypeOK, TypeOK', Grows, NEW e \in Device, DeviceInv(e), Point(e),
         AckAudit(e) \/ AckSession(e)
  PROVE  DeviceInv(e)'
  <1>. USE DEF DeviceInv
  <1>1. /\ UNCHANGED <<merged, digest, applied, appliedFrom, known, left, lost,
                       listedIn, indexed, uploads>>
        /\ \A b \in Book : checkpoint'[e][b] = {}
        /\ pc[e] \in {"ackAudit", "ackSession"}
    BY DEF AckAudit, AckSession, EndSession, storeVars, appliedVars, serverVars, envVars, TypeOK, CacheOK
  <1>2. StoredInv(e)'
    <2>1. CheckpointMerged(e)' BY <1>1 DEF CheckpointMerged
    <2>2. PeersListed(e)' BY <1>1 DEF StoredInv, PeersListed
    <2>. QED BY <1>1, <2>1, <2>2, IndexFrame, DigestFrame DEF StoredInv
  <1>3. CASE AckAudit(e)
    <2>1. /\ pc[e] = "ackAudit" /\ pc'[e] = "ackSession" /\ loop[e] = "plan" /\ todo[e] = {}
          /\ UNCHANGED <<loop, todo, book, pushed, listing, peer, plan>>
      BY <1>3 DEF AckAudit, Goto, Control, Point, loopVars, handVars, planVars, TypeOK, JobOK
    <2>2. Control(e)' BY <2>1 DEF Control
    <2>3. HasPlan(e) /\ InHand(e) = {} /\ InHand(e)' = {} /\ Remaining(e)' = Remaining(e)
      BY <2>1 DEF HasPlan, InHand, Remaining
    <2>4. PlanInv(e)' BY <1>1, <2>1, <2>3, PlanFrame
    <2>. QED BY <1>2, <2>2, <2>4
  <1>4. CASE AckSession(e)
    <2>1. pc'[e] = "idle" /\ loop'[e] = "changed"
      BY <1>4 DEF AckSession, Goto, Forget, TypeOK, JobOK
    <2>2. Control(e)' BY <2>1 DEF Control
    <2>3. ~HasPlan(e)' BY <2>1 DEF HasPlan
    <2>. QED BY <1>2, <2>2, <2>3 DEF PlanInv
  <1>. QED BY <1>3, <1>4

LEMMA StepMergeInv == TypeOK /\ UploadInv /\ ShelfInv /\ MergeInv /\ [Next]_vars => MergeInv'
  <1>. SUFFICES ASSUME TypeOK, UploadInv, ShelfInv, MergeInv, [Next]_vars, NEW d \in Device
                PROVE  DeviceInv(d)'
    BY DEF MergeInv
  <1>1. TypeOK' /\ Grows BY StepTypeOK, StepGrows
  <1>2. DeviceInv(d) /\ Point(d) BY DEF MergeInv, ShelfInv
  <1>3. ASSUME Same(d) PROVE DeviceInv(d)' BY <1>1, <1>2, <1>3, SameInv DEF Same
  <1>4. ASSUME NEW e \in Device, Job(e) PROVE DeviceInv(d)'
    <2>1. CASE e # d
      BY <1>3, <1>4, <2>1, StepSame DEF Job, Upload, Merge, Publish, PlanAndAck
    <2>2. CASE e = d
      BY <1>1, <1>2, <1>4, <2>2, OwnControl, OwnSkip, OwnMerge, OwnMark, OwnPrepare,
         OwnDownload, OwnBeginPlan, OwnPlanBook, OwnCheckpoint, OwnAckIndex, OwnAckBooks,
         OwnAckEnd
      DEF Job, Upload, Merge, Publish, PlanAndAck
    <2>. QED BY <2>1, <2>2
  <1>5. ASSUME Environment PROVE DeviceInv(d)'
    <2>1. PICK e \in Device : \/ Reader(e)
                              \/ \E m \in {"reading", "full"} : StartSync(e, m)
                              \/ Abort(e)
                              \/ Import(e)
                              \/ AuditExpires(e)
                              \/ \E b \in Book : LoseState(e, b)
      BY <1>5 DEF Environment
    <2>2. CASE e # d BY <1>3, <2>1, <2>2, StepSame DEF Reader
    <2>3. CASE e = d BY <1>1, <1>2, <2>1, <2>3, OwnControl, OwnShelf DEF Reader
    <2>. QED BY <2>2, <2>3
  <1>6. CASE UNCHANGED vars
    BY <1>3, <1>6 DEF vars, storeVars, cacheVars, indexVars, appliedVars, sessionVars, jobVars,
                      loopVars, handVars, planVars, Same
  <1>. QED BY <1>4, <1>5, <1>6 DEF Next

LEMMA MergeCorrect == Spec => [](TypeOK /\ UploadInv /\ ShelfInv /\ MergeInv)
  <1>1. Init => TypeOK /\ UploadInv /\ ShelfInv /\ MergeInv
    BY InitTypeOK, InitUploadInv, InitShelfInv, InitMergeInv
  <1>2. TypeOK /\ UploadInv /\ ShelfInv /\ MergeInv /\ [Next]_vars
          => (TypeOK /\ UploadInv /\ ShelfInv /\ MergeInv)'
    BY StepTypeOK, StepUploadInv, StepShelfInv, StepMergeInv
  <1>. QED BY <1>1, <1>2, PTL DEF Spec

\* AppliedMerged: an index that was worked off stands for nothing the store
\* lacks, so a job that skips a book whose token has not changed misses
\* nothing that was announced.
THEOREM AppliedMergedAlways == Spec => []AppliedMerged
  <1>1. MergeInv => AppliedMerged
    BY DEF MergeInv, DeviceInv, StoredInv, IndexMerged, AppliedMerged, Has
  <1>. QED BY <1>1, MergeCorrect, PTL

-----------------------------------------------------------------------------
(* The audit advances over checkpointed books only                          *)

\* A resumable plan of an audit compares every book that carries no checkpoint
\* for its indexes, until the session ends.
Audited(d) ==
    HasPlan(d) /\ pc[d] # "ackSession" /\ plan[d].audit /\ plan[d].resumable =>
        \A b \in plan[d].books \ Remaining(d) :
            checkpoint[d][b] = {CheckpointValue(plan[d], b)}

AuditInv(d) == Audited(d) /\ (pc[d] = "ackAudit" => plan[d].audit)

\* A step that keeps the plan and its checkpoints, and compares no book.
LEMMA AuditFrame ==
  ASSUME NEW d \in Device, AuditInv(d),
         HasPlan(d)' /\ pc'[d] # "ackSession" =>
             /\ HasPlan(d) /\ pc[d] # "ackSession"
             /\ UNCHANGED <<plan[d], checkpoint[d]>>
             /\ Remaining(d) \subseteq Remaining(d)',
         pc'[d] = "ackAudit" => pc[d] = "ackAudit" /\ UNCHANGED plan[d]
  PROVE  AuditInv(d)'
  BY DEF AuditInv, Audited, CheckpointValue

LEMMA AuditControl ==
  ASSUME TypeOK, TypeOK', NEW e \in Device, AuditInv(e), Point(e), Control(e)
  PROVE
    /\ \A m \in {"reading", "full"} : StartSync(e, m) => AuditInv(e)'
    /\ Snapshot(e) => AuditInv(e)'
    /\ PutState(e) => AuditInv(e)'
    /\ RecordToken(e) => AuditInv(e)'
    /\ RecordFlag(e) => AuditInv(e)'
    /\ ListStates(e) => AuditInv(e)'
    /\ AckReading(e) => AuditInv(e)'
    /\ PublishNothing(e) => AuditInv(e)'
    /\ PublishIndex(e) => AuditInv(e)'
    /\ PublishDone(e) => AuditInv(e)'
    /\ PublishLibrary(e) => AuditInv(e)'
    /\ Deliver(e) => AuditInv(e)'
    /\ Abort(e) => AuditInv(e)'
    /\ AckSession(e) => AuditInv(e)'
    /\ SkipState(e) => AuditInv(e)'
    /\ MergeState(e) => AuditInv(e)'
    /\ MarkApplied(e) => AuditInv(e)'
  <1>. USE DEF TypeOK, JobOK, cacheVars, sessionVars, jobVars, loopVars, handVars, planVars,
               Point, HasPlan, InHand, Remaining, Goto
  <1>1. ASSUME NEW m \in {"reading", "full"}, StartSync(e, m) PROVE AuditInv(e)'
    BY <1>1, AuditFrame DEF StartSync
  <1>2. ASSUME Snapshot(e) PROVE AuditInv(e)' BY <1>2, AuditFrame DEF Snapshot, TakeSnapshot
  <1>3. ASSUME PutState(e) PROVE AuditInv(e)' BY <1>3, AuditFrame DEF PutState
  <1>4. ASSUME RecordToken(e) PROVE AuditInv(e)'
    BY <1>4, AuditFrame DEF RecordToken, NewToken, AfterRecord
  <1>5. ASSUME RecordFlag(e) PROVE AuditInv(e)' BY <1>5, AuditFrame DEF RecordFlag, AfterRecord
  <1>6. ASSUME ListStates(e) PROVE AuditInv(e)' BY <1>6, AuditFrame DEF ListStates
  <1>7. ASSUME AckReading(e) PROVE AuditInv(e)'
    BY <1>7, AuditFrame DEF AckReading, AtAcknowledge, Acknowledged
  <1>8. ASSUME PublishNothing(e) PROVE AuditInv(e)'
    BY <1>8, AuditFrame DEF PublishNothing, LeavePublish, AfterPublish, AtPublish, Initializing,
                            Forget
  <1>9. ASSUME PublishIndex(e) PROVE AuditInv(e)'
    BY <1>9, AuditFrame DEF PublishIndex, AtPublish
  <1>10. ASSUME PublishDone(e) PROVE AuditInv(e)'
    BY <1>10, AuditFrame, SMTT(30) DEF PublishDone, LeavePublish, AfterPublish, Forget
  <1>11. ASSUME PublishLibrary(e) PROVE AuditInv(e)' BY <1>11, AuditFrame DEF PublishLibrary
  <1>12. ASSUME Deliver(e) PROVE AuditInv(e)' BY <1>12, AuditFrame DEF Deliver
  <1>13. ASSUME Abort(e) PROVE AuditInv(e)' BY <1>13, AuditFrame DEF Abort, Forget
  <1>14. ASSUME AckSession(e) PROVE AuditInv(e)' BY <1>14, AuditFrame DEF AckSession, Forget
  <1>15. ASSUME SkipState(e) PROVE AuditInv(e)' BY <1>15, AuditFrame DEF SkipState
  <1>16. ASSUME MergeState(e) PROVE AuditInv(e)' BY <1>16, AuditFrame DEF MergeState
  <1>17. ASSUME MarkApplied(e) PROVE AuditInv(e)' BY <1>17, AuditFrame DEF MarkApplied
  <1>. QED BY <1>1, <1>2, <1>3, <1>4, <1>5, <1>6, <1>7, <1>8, <1>9, <1>10, <1>11, <1>12, <1>13,
              <1>14, <1>15, <1>16, <1>17

\* Taking a book keeps it in hand.
LEMMA AuditTake ==
  ASSUME TypeOK, TypeOK', NEW e \in Device, AuditInv(e), Point(e)
  PROVE  (Download(e) => AuditInv(e)') /\ (PlanBook(e) => AuditInv(e)')
  <1>1. ASSUME Download(e) PROVE AuditInv(e)'
    <2>1. pc'[e] \in {"put", "merge", "deliver"} /\ UNCHANGED <<plan, checkpoint, loop>>
          /\ pc[e] = "download"
      BY <1>1 DEF Download, Take, Goto, TypeOK, JobOK, planVars, cacheVars, sessionVars
    <2>2. Remaining(e) \subseteq Remaining(e)'
      BY <2>1 DEF Point, Remaining, InHand
    <2>. QED BY <2>1, <2>2, AuditFrame DEF HasPlan
  <1>2. ASSUME PlanBook(e) PROVE AuditInv(e)'
    <2>1. PICK b \in todo[e] : todo' = [todo EXCEPT ![e] = @ \ {b}] /\ Take(e, b, due[e])
      BY <1>2 DEF PlanBook
    <2>2. /\ UNCHANGED <<plan, checkpoint, loop>> /\ pc[e] = "plan" /\ loop[e] = "plan"
          /\ pc'[e] \in {"put", "merge"} /\ book'[e] = b /\ todo'[e] = todo[e] \ {b}
      BY <1>2, <2>1 DEF PlanBook, Take, Goto, Point, TypeOK, JobOK, planVars, cacheVars,
                        sessionVars
    <2>3. Remaining(e) \subseteq Remaining(e)'
      BY <2>2 DEF HasPlan, Remaining, InHand
    <2>. QED BY <2>2, <2>3, AuditFrame DEF HasPlan
  <1>. QED BY <1>1, <1>2

\* An audit chooses every book; those that are passed over are completed.
LEMMA AuditPrepare ==
  ASSUME TypeOK, TypeOK', NEW e \in Device, Prepare(e)
  PROVE  AuditInv(e)'
  <1>1. /\ loop'[e] = "download" /\ pc'[e] = "library"
        /\ plan'[e] = NewPlan(e) /\ checkpoint'[e] = Marks(e)
    BY DEF Prepare, Goto, TypeOK, JobOK, CacheOK
  <1>. DEFINE from == (Peers(e) \cup {e}) \cap indexed
              p0 == [books |-> Remote \cup Local(e), shelf |-> Local(e),
                     peers |-> Peers(e), from |-> from, reading |-> Chosen(e),
                     index |-> [q \in Device |-> IF q \in from THEN index[q] ELSE NoIndex],
                     audit |-> auditDue[e], resumable |-> Peers(e) \subseteq indexed]
              P == NewPlan(e)
  <1>2. /\ P.books = Remote \cup Local(e) /\ P.audit = auditDue[e]
        /\ P.peers = p0.peers /\ P.index = p0.index
        /\ P.reading = {b \in Chosen(e) : ~Completed(e, p0, Marks(e), b)}
    BY DEF NewPlan
  <1>3. Remaining(e)' = P.reading BY <1>1 DEF Remaining, InHand
  <1>4. ASSUME P.audit, NEW b \in P.books \ P.reading
        PROVE  Marks(e)[b] = {CheckpointValue(P, b)}
    <2>1. b \in Chosen(e) BY <1>2, <1>4 DEF Chosen, Fallback
    <2>2. Completed(e, p0, Marks(e), b) BY <1>2, <1>4, <2>1
    <2>3. CheckpointValue(P, b) = CheckpointValue(p0, b) BY <1>2 DEF CheckpointValue
    <2>. QED BY <2>2, <2>3 DEF Completed
  <1>. HIDE DEF p0, P
  <1>5. Audited(e)' BY <1>1, <1>3, <1>4 DEF Audited, CheckpointValue, P
  <1>. QED BY <1>1, <1>5 DEF AuditInv

\* The loop over the plan passes over completed books.
LEMMA AuditBeginPlan ==
  ASSUME TypeOK, TypeOK', NEW e \in Device, AuditInv(e), Point(e), BeginPlan(e)
  PROVE  AuditInv(e)'
  <1>1. /\ UNCHANGED <<plan, checkpoint>> /\ pc[e] = "download" /\ pc'[e] = "plan"
        /\ loop[e] = "download" /\ loop'[e] = "plan"
        /\ \A b \in plan[e].reading \ todo'[e] : Completed(e, plan[e], checkpoint[e], b)
    BY DEF BeginPlan, Goto, Point, TypeOK, JobOK, planVars, cacheVars, sessionVars
  <1>2. HasPlan(e) /\ Remaining(e) = plan[e].reading /\ Remaining(e)' = todo'[e]
    BY <1>1 DEF HasPlan, Remaining, InHand
  <1>. QED BY <1>1, <1>2 DEF AuditInv, Audited, Completed, CheckpointValue

\* A compared book gets its checkpoint.
LEMMA AuditCheckpoint ==
  ASSUME TypeOK, TypeOK', NEW e \in Device, AuditInv(e), Point(e), Control(e), Checkpoint(e)
  PROVE  AuditInv(e)'
  <1>1. /\ UNCHANGED <<plan, loop, todo, book>>
        /\ pc[e] \in {"checkpoint", "merge"} /\ pc'[e] \in {"deliver", "plan"}
    BY DEF Checkpoint, Goto, TypeOK, JobOK, loopVars, handVars, planVars
  <1>2. plan[e].resumable =>
            /\ checkpoint'[e][book[e]] = {CheckpointValue(plan[e], book[e])}
            /\ \A b \in Book \ {book[e]} : checkpoint'[e][b] = checkpoint[e][b]
    BY DEF Checkpoint, TypeOK, CacheOK, JobOK
  <1>3. HasPlan(e) => Remaining(e) = Remaining(e)' \cup {book[e]}
    BY <1>1 DEF HasPlan, Remaining, InHand
  <1>4. plan[e].books \subseteq Book /\ HasPlan(e)' = HasPlan(e)
    BY <1>1 DEF TypeOK, JobOK, PlanType, HasPlan
  <1>. QED BY <1>1, <1>2, <1>3, <1>4 DEF AuditInv, Audited, CheckpointValue

LEMMA AuditAck ==
  ASSUME TypeOK, TypeOK', NEW e \in Device, AuditInv(e), Point(e), Control(e),
         AckIndex(e) \/ AckBooks(e) \/ AckAudit(e)
  PROVE  AuditInv(e)'
  <1>1. CASE AckIndex(e)
    <2>1. /\ UNCHANGED <<pc, loop, todo, book, checkpoint>> /\ pc[e] = "ackIndex"
          /\ \E q \in plan[e].from : plan' = [plan EXCEPT ![e].from = @ \ {q}]
      BY <1>1 DEF AckIndex, loopVars, handVars, sessionVars
    <2>2. /\ plan'[e].books = plan[e].books /\ plan'[e].audit = plan[e].audit
          /\ plan'[e].resumable = plan[e].resumable /\ plan'[e].reading = plan[e].reading
          /\ plan'[e].peers = plan[e].peers /\ plan'[e].index = plan[e].index
      BY <2>1 DEF TypeOK, JobOK, PlanType
    <2>3. HasPlan(e)' = HasPlan(e) /\ Remaining(e)' = Remaining(e)
      BY <2>1, <2>2 DEF HasPlan, Remaining, InHand
    <2>. QED BY <2>1, <2>2, <2>3 DEF AuditInv, Audited, CheckpointValue
  <1>2. CASE AckBooks(e)
    <2>1. /\ UNCHANGED <<plan, loop, todo, book, checkpoint>> /\ pc[e] = "ackIndex"
          /\ pc'[e] = IF plan[e].audit THEN "ackAudit" ELSE "ackSession"
      BY <1>2 DEF AckBooks, Goto, loopVars, handVars, planVars, sessionVars, TypeOK, JobOK
    <2>2. HasPlan(e)' = HasPlan(e) /\ Remaining(e)' = Remaining(e)
      BY <2>1 DEF HasPlan, Remaining, InHand
    <2>. QED BY <2>1, <2>2 DEF AuditInv, Audited, CheckpointValue
  <1>3. CASE AckAudit(e)
    <2>1. pc'[e] = "ackSession" BY <1>3 DEF AckAudit, Goto, TypeOK, JobOK
    <2>. QED BY <2>1 DEF AuditInv, Audited
  <1>. QED BY <1>1, <1>2, <1>3

LEMMA AuditShelf ==
  ASSUME NEW e \in Device, AuditInv(e)
  PROVE
    /\ Reader(e) => AuditInv(e)'
    /\ Import(e) => AuditInv(e)'
    /\ AuditExpires(e) => AuditInv(e)'
    /\ \A b \in Book : LoseState(e, b) => AuditInv(e)'
  BY DEF Reader, Edit, RemoveBook, RestoreBook, Import, AuditExpires, LoseState, cacheVars,
         sessionVars, jobVars, loopVars, handVars, planVars, AuditInv, Audited, HasPlan,
         Remaining, InHand, CheckpointValue

LEMMA StepAuditInv ==
  ASSUME TypeOK, ShelfInv, MergeInv, [Next]_vars, NEW d \in Device, AuditInv(d)
  PROVE  AuditInv(d)'
  <1>1. TypeOK' BY StepTypeOK
  <1>2. Point(d) /\ Control(d) BY DEF ShelfInv, MergeInv, DeviceInv
  <1>3. ASSUME Same(d) PROVE AuditInv(d)'
    BY <1>3 DEF Same, AuditInv, Audited, HasPlan, Remaining, InHand, CheckpointValue
  <1>4. ASSUME NEW e \in Device, Job(e) PROVE AuditInv(d)'
    <2>1. CASE e # d
      BY <1>3, <1>4, <2>1, StepSame DEF Job, Upload, Merge, Publish, PlanAndAck
    <2>2. CASE e = d
      BY <1>1, <1>2, <1>4, <2>2, AuditControl, AuditTake, AuditPrepare, AuditBeginPlan,
         AuditCheckpoint, AuditAck
      DEF Job, Upload, Merge, Publish, PlanAndAck
    <2>. QED BY <2>1, <2>2
  <1>5. ASSUME Environment PROVE AuditInv(d)'
    <2>1. PICK e \in Device : \/ Reader(e)
                              \/ \E m \in {"reading", "full"} : StartSync(e, m)
                              \/ Abort(e)
                              \/ Import(e)
                              \/ AuditExpires(e)
                              \/ \E b \in Book : LoseState(e, b)
      BY <1>5 DEF Environment
    <2>2. CASE e # d BY <1>3, <2>1, <2>2, StepSame DEF Reader
    <2>3. CASE e = d BY <1>1, <1>2, <2>1, <2>3, AuditControl, AuditShelf
    <2>. QED BY <2>2, <2>3
  <1>6. CASE UNCHANGED vars
    BY <1>3, <1>6 DEF vars, storeVars, cacheVars, indexVars, appliedVars, sessionVars, jobVars,
                      loopVars, handVars, planVars, Same
  <1>. QED BY <1>4, <1>5, <1>6 DEF Next

\* AuditCheckpointed: when the time of an audit is advanced, every book of a
\* resumable plan was compared for the very indexes that were acknowledged, by
\* this job or by an earlier one of its session that stopped.
THEOREM AuditCheckpointedAlways == Spec => []AuditCheckpointed
  <1>. DEFINE AllAudited == \A d \in Device : AuditInv(d)
              Inv == TypeOK /\ UploadInv /\ ShelfInv /\ MergeInv
  <1>1. Init => AllAudited BY DEF Init, AuditInv, Audited, HasPlan
  <1>2. Inv /\ AllAudited /\ [Next]_vars => AllAudited' BY StepAuditInv
  <1>3. Inv /\ AllAudited => AuditCheckpointed
    <2>. SUFFICES ASSUME Inv, AllAudited, NEW d \in Device, pc[d] = "ackAudit",
                         plan[d].resumable, NEW b \in plan[d].books
                  PROVE  checkpoint[d][b] = {CheckpointValue(plan[d], b)}
      BY DEF AuditCheckpointed
    <2>1. loop[d] = "plan" /\ todo[d] = {}
      BY DEF ShelfInv, MergeInv, DeviceInv, Point, Control
    <2>2. HasPlan(d) /\ Remaining(d) = {} BY <2>1 DEF HasPlan, Remaining, InHand
    <2>. QED BY <2>2 DEF AuditInv, Audited
  <1>4. Spec => []Inv BY MergeCorrect
  <1>. QED BY <1>1, <1>2, <1>3, <1>4, PTL DEF Spec
==============================================================================
