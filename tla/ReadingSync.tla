----------------------------- MODULE ReadingSync -----------------------------
(***************************************************************************)
(* How one reading change (a progress or annotation write) travels from    *)
(* the device that made it to every other device of the account.           *)
(*                                                                         *)
(* Each device keeps a SQLite store and shares a WebDAV tree in which it   *)
(* writes only its own files.  A sync job                                  *)
(*   - uploads state/<book>/devices/<self>.json for every book whose local *)
(*     revision exceeds the acknowledged one (sync_changed_reading),       *)
(*   - records a fresh token for each upload in a local change index and   *)
(*     publishes that index afterwards (changes::record, changes::publish),*)
(*   - in a full job, compares every peer's index with the one it applied  *)
(*     last, merges the state files of the books that differ, checkpoints  *)
(*     each of them, and acknowledges the indexes (changes::Plan).         *)
(*                                                                         *)
(* The model keeps every durable write as a step of its own, because a job *)
(* may stop between any two of them (Abort), and abstracts what is merged: *)
(* a state file is a stamp (its upload number and the revision its snapshot*)
(* was taken at).  Annotation and progress contents are the subject of     *)
(* other modules.  A fresh uuid token is the stamp of the upload it stands *)
(* for, which no other upload shares.                                      *)
(***************************************************************************)
EXTENDS Integers, FiniteSets

CONSTANTS Device,        \* devices of one account
          Book,          \* book ids (content digests)
          Editors,       \* devices whose reader makes changes
          Planners,      \* devices that run full jobs, not only reading jobs
          Owners,        \* devices that have imported the books at the start
          Joined,        \* owners that have completed a full job by then
          Auditors,      \* devices whose audit comes due again after the first
          MaxRevision,   \* bound on reading_changes.revision per device and book
          MaxAborts,     \* bound on jobs that stop half way, over all devices
          MaxMoves,      \* bound on removals of books from shelves
          MaxLosses,     \* bound on state files the server loses
          MaxFaults      \* bound on stops, removals and losses together

ASSUME BoundsAssumption ==
    /\ Book # {}
    /\ Editors \subseteq Device
    /\ Planners \subseteq Device
    /\ Owners \subseteq Device
    /\ Joined \subseteq Owners
    /\ Auditors \subseteq Device
    /\ MaxRevision \in Nat
    /\ MaxAborts \in Nat
    /\ MaxMoves \in Nat
    /\ MaxLosses \in Nat
    /\ MaxFaults \in Nat

VARIABLES
    \* the store of each device (sync-v1.sqlite3)
    membership,  \* [Device -> [Book -> {"unknown", "present", "removed"}]]
    revision,    \* reading_changes.revision of the device's own changes
    acked,       \* reading_ack.revision
    merged,      \* merged[d][p][b]: p's newest state file merged into d's store
    \* the transfer cache in the same database
    digest,      \* "applied:<path>": p's state file d last finished merging
    recorded,    \* LOCAL: the device's own change index before publication
    pending,     \* PENDING: recorded holds a token not yet published
    applied,     \* "change-index:applied:<p>": peer index d has worked off
    appliedFrom, \* peers for which that key exists
    known,       \* "change-index:book:<b>" marks
    auditDue,    \* REPAIR is missing or older than RECHECK_MS
    session,     \* SESSION: {} or {peers} of the resumable session
    checkpoint,  \* "change-index:checkpoint:false:<b>": {} or {value}
    \* the WebDAV server
    state,       \* state/<b>/devices/<p>.json
    index,       \* library/changes/<p>.json
    indexed,     \* devices whose index file exists
    library,     \* library/devices/<p>.json, the books it lists as present
    listedIn,    \* devices whose library file exists
    \* the sync job of each device, gone when the job ends
    pc,          \* the next step
    mode,        \* "reading" or "full"
    loop,        \* which loop over books runs: "changed", "download" or "plan"
    todo, due,   \* books left to that loop, and those of them found pending
    fetch,       \* books left to download
    book,        \* the book in hand
    snap,        \* revision of its uploaded snapshot
    pushed,      \* it was uploaded
    listing,     \* its listed files that are not merged yet
    peer,        \* whose file is being merged
    plan,        \* changes::Plan
    \* the host's queue
    arrived,     \* books it was told of (Downloaded) but has not imported
    \* history: uploads made so far, which makes each upload's stamp unique,
    \* and what the environment has done
    uploads, aborts, moves,
    left,        \* <<d, b>>: b left d's shelf, or another shelf while not on d's
    lost         \* <<p, b>>: the server lost p's state file for b

storeVars   == <<membership, revision, acked, merged>>
indexVars   == <<recorded, pending>>
appliedVars == <<digest, applied, appliedFrom, known>>
sessionVars == <<auditDue, session, checkpoint>>
cacheVars   == <<indexVars, appliedVars, sessionVars>>
serverVars  == <<state, index, indexed, library, listedIn>>
loopVars    == <<mode, loop, todo, due, fetch>>
handVars    == <<book, snap, pushed, listing, peer>>
planVars    == <<plan, arrived>>
jobVars     == <<pc, loopVars, handVars, planVars>>
envVars     == <<uploads, aborts, moves, left, lost>>
vars        == <<storeVars, cacheVars, serverVars, jobVars, envVars>>

-----------------------------------------------------------------------------
(* Values *)

Stamp   == [ver : Nat, rev : Nat]
NoStamp == [ver |-> 0, rev |-> 0]          \* no such file, no such token
NoIndex == [b \in Book |-> NoStamp]
AtLeast(s, t) == s.ver >= t.ver

PlanType == [books : SUBSET Book, shelf : SUBSET Book, peers : SUBSET Device,
             from : SUBSET Device, reading : SUBSET Book, index : [Device -> [Book -> Stamp]],
             audit : BOOLEAN, resumable : BOOLEAN]
NoPlan   == [books |-> {}, shelf |-> {}, peers |-> {}, from |-> {},
             reading |-> {}, index |-> [p \in Device |-> NoIndex],
             audit |-> FALSE, resumable |-> FALSE]

Steps == {"idle", "changed", "put", "record", "flag", "list", "merge", "mark",
          "checkpoint", "published", "prepare", "library", "download", "deliver", "plan",
          "ackIndex", "ackAudit", "ackSession"}

\* Mutant: the first change after an acknowledgement is not counted.
PendingBeyond(d) == {b \in Book : revision[d][b] > acked[d][b] + 1}

\* Books whose own changes await upload.
PendingReading(d) == {b \in Book : revision[d][b] > acked[d][b]}

Shelf(d) == {b \in Book : membership[d][b] = "present"}

\* The remote revisions of a book that a checkpoint of this plan stands for.
CheckpointValue(p, b) ==
    [q \in Device |-> IF q \in p.peers THEN p.index[q][b] ELSE NoStamp]

Completed(d, p, marks, b) ==
    p.resumable /\ marks[b] = {CheckpointValue(p, b)}

Listed(d) == {p \in Device : listing[d][p] # NoStamp}

-----------------------------------------------------------------------------
\* A joined device has published an empty index and its library, in a full job
\* that saw no other device yet.
Init ==
    /\ membership = [d \in Device |->
                        [b \in Book |-> IF d \in Owners THEN "present" ELSE "unknown"]]
    /\ revision = [d \in Device |-> [b \in Book |-> 0]]
    /\ acked = revision
    /\ merged = [d \in Device |-> [p \in Device |-> NoIndex]]
    /\ digest = merged
    /\ recorded = [d \in Device |-> NoIndex]
    /\ pending = [d \in Device |-> FALSE]
    /\ applied = merged
    /\ appliedFrom = [d \in Device |-> {d} \cap Joined]
    /\ known = [d \in Device |-> IF d \in Joined THEN Book ELSE {}]
    /\ auditDue = [d \in Device |-> d \notin Joined]
    /\ session = [d \in Device |-> {}]
    /\ checkpoint = [d \in Device |-> [b \in Book |-> {}]]
    /\ state = recorded
    /\ index = recorded
    /\ indexed = Joined
    /\ library = known
    /\ listedIn = Joined
    /\ pc = [d \in Device |-> "idle"]
    /\ mode = [d \in Device |-> "reading"]
    /\ loop = [d \in Device |-> "changed"]
    /\ todo = [d \in Device |-> {}]
    /\ due = todo
    /\ fetch = todo
    /\ arrived = todo
    /\ book = [d \in Device |-> CHOOSE b \in Book : TRUE]
    /\ snap = [d \in Device |-> 0]
    /\ pushed = pending
    /\ listing = [d \in Device |-> [p \in Device |-> NoStamp]]
    /\ peer = [d \in Device |-> d]
    /\ plan = [d \in Device |-> NoPlan]
    /\ uploads = revision
    /\ aborts = 0
    /\ moves = 0
    /\ left = {}
    /\ lost = {}

\* Another stop, removal or loss stays within the bound on all of them.
FaultLeft == aborts + moves + Cardinality(lost) < MaxFaults

Goto(d, step) == pc' = [pc EXCEPT ![d] = step]

-----------------------------------------------------------------------------
(* The reader and the shelf *)

\* A progress save, highlight, note edit or deletion in a book on the shelf.
Edit(d, b) ==
    /\ d \in Editors
    /\ membership[d][b] = "present"
    /\ revision[d][b] < MaxRevision
    /\ revision' = [revision EXCEPT ![d][b] = @ + 1]
    /\ UNCHANGED <<membership, acked, merged, cacheVars, serverVars, jobVars, envVars>>

\* set_book_present(book, false) leaves a tombstone on this device only.
RemoveBook(d, b) ==
    /\ membership[d][b] = "present"
    /\ moves < MaxMoves
    /\ FaultLeft
    /\ moves' = moves + 1
    /\ membership' = [membership EXCEPT ![d][b] = "removed"]
    /\ left' = left \cup {<<p, b>> : p \in {q \in Device : q = d \/ membership[q][b] # "present"}}
    /\ UNCHANGED <<revision, acked, merged, cacheVars, serverVars, jobVars,
                   uploads, aborts, lost>>

\* Importing the file again clears the tombstone.
RestoreBook(d, b) ==
    /\ membership[d][b] = "removed"
    /\ membership' = [membership EXCEPT ![d][b] = "present"]
    /\ UNCHANGED <<revision, acked, merged, cacheVars, serverVars, jobVars, envVars>>

\* The host adds a downloaded book to its library and the store registers it,
\* or the import fails and the book is downloaded again by a later job.
Import(d) ==
    /\ \E b \in arrived[d], imported \in BOOLEAN :
          /\ arrived' = [arrived EXCEPT ![d] = @ \ {b}]
          /\ membership' = [membership EXCEPT ![d][b] =
                               IF @ = "unknown" /\ imported THEN "present" ELSE @]
    /\ UNCHANGED <<revision, acked, merged, cacheVars, serverVars, pc, loopVars,
                   handVars, plan, envVars>>

-----------------------------------------------------------------------------
(* A job: upload what changed *)

\* run_sync: pending books are read once, when the job begins, and a full job
\* is handed the books of the shelf.  The hosts ask for a reading job after a
\* change; without one it would end at once.  They handle the events of one
\* job before they start the next.
StartSync(d, m) ==
    /\ pc[d] = "idle"
    /\ arrived[d] = {}
    /\ IF m = "full" THEN d \in Planners ELSE PendingReading(d) # {} \/ pending[d]
    /\ mode' = [mode EXCEPT ![d] = m]
    /\ loop' = [loop EXCEPT ![d] = "changed"]
    /\ todo' = [todo EXCEPT ![d] = PendingReading(d)]
    /\ plan' = [plan EXCEPT ![d].shelf = IF m = "full" THEN Shelf(d) ELSE {}]
    /\ Goto(d, "changed")
    /\ UNCHANGED <<due, fetch, handVars, arrived, storeVars, cacheVars, serverVars, envVars>>

\* A pending book: its revision and contents are read in one transaction.
TakeSnapshot(d) ==
    /\ pc[d] = "changed"
    /\ \E b \in todo[d] :
          /\ todo' = [todo EXCEPT ![d] = @ \ {b}]
          /\ book' = [book EXCEPT ![d] = b]
          /\ snap' = [snap EXCEPT ![d] = revision[d][b]]
    /\ pushed' = [pushed EXCEPT ![d] = TRUE]
    /\ UNCHANGED <<mode, loop, due, fetch, listing, peer, planVars, storeVars, cacheVars,
                   serverVars, envVars>>

\* Mutant: the failure of the upload is ignored.
SnapshotUnsent(d) == TakeSnapshot(d) /\ Goto(d, "record")

Snapshot(d) == TakeSnapshot(d) /\ Goto(d, "put")

\* The snapshot becomes the device's state file.  Each snapshot carries a new
\* clock value, so every upload differs from the file it replaces.
PutState(d) ==
    /\ pc[d] = "put"
    /\ uploads' = [uploads EXCEPT ![d][book[d]] = @ + 1]
    /\ state' = [state EXCEPT ![d][book[d]] =
                     [ver |-> uploads[d][book[d]] + 1, rev |-> snap[d]]]
    /\ Goto(d, "record")
    /\ UNCHANGED <<loopVars, handVars, planVars, storeVars, cacheVars, index, indexed,
                   library, listedIn, aborts, moves, left, lost>>

\* Where a loop goes once the upload is recorded: sync_reading_data has listed
\* the book's files before, sync_changed_reading lists them now.
AfterRecord(d) == IF loop[d] = "changed" THEN "list" ELSE "merge"

\* changes::record, first write: a fresh token in the local index ...
NewToken(d) ==
    /\ pc[d] = "record"
    /\ recorded' = [recorded EXCEPT ![d][book[d]] =
                        [ver |-> uploads[d][book[d]], rev |-> snap[d]]]
    /\ UNCHANGED <<loopVars, handVars, planVars, storeVars, pending, appliedVars,
                   sessionVars, serverVars, envVars>>

\* Mutant: only the first of the two writes.
RecordTokenOnly(d) == NewToken(d) /\ Goto(d, AfterRecord(d))

RecordToken(d) == NewToken(d) /\ Goto(d, "flag")

\* ... second write: the index has something to publish.
RecordFlag(d) ==
    /\ pc[d] = "flag"
    /\ pending' = [pending EXCEPT ![d] = TRUE]
    /\ Goto(d, AfterRecord(d))
    /\ UNCHANGED <<loopVars, handVars, planVars, storeVars, recorded, appliedVars,
                   sessionVars, serverVars, envVars>>

\* PROPFIND of state/<book>/devices/ without the own file.
ListFiles(d, b) ==
    listing' = [listing EXCEPT ![d] =
                   [p \in Device |-> IF p = d THEN NoStamp ELSE state[p][b]]]

ListStates(d) ==
    /\ pc[d] = "list"
    /\ ListFiles(d, book[d])
    /\ Goto(d, "merge")
    /\ UNCHANGED <<loopVars, book, snap, pushed, peer, planVars, storeVars, cacheVars,
                   serverVars, envVars>>

Unlist(d, p) == listing' = [listing EXCEPT ![d][p] = NoStamp]

\* What get_optional may return for a listed file: the present file, or the
\* listed one from the object cache while the listing is fresh.
Fetched(d, p) == {state[p][book[d]], listing[d][p]}

\* The file vanished, or its digest was applied before.
SkipState(d) ==
    /\ pc[d] = "merge"
    /\ \E p \in Listed(d) :
          /\ \E f \in Fetched(d, p) : f \in {NoStamp, digest[d][p][book[d]]}
          /\ Unlist(d, p)
    /\ UNCHANGED <<pc, loopVars, book, snap, pushed, peer, planVars, storeVars, cacheVars,
                   serverVars, envVars>>

\* merge_progress and merge_annotations.  Resolving an annotation that another
\* device than p changed concurrently is a change of this device as well
\* (mark_reading_changed).
MergeState(d) ==
    /\ pc[d] = "merge"
    /\ \E p \in Listed(d), resolved \in BOOLEAN :
          \E f \in Fetched(d, p) \ {NoStamp, digest[d][p][book[d]]} :
             /\ merged' = [merged EXCEPT ![d][p][book[d]] =
                              IF AtLeast(@, f) THEN @ ELSE f]
             /\ resolved => /\ ~AtLeast(merged[d][p][book[d]], f)
                            /\ \E q \in Device \ {p} : revision[q][book[d]] > 0
                            /\ revision[d][book[d]] < MaxRevision
             /\ revision' = [revision EXCEPT ![d][book[d]] =
                                IF resolved THEN @ + 1 ELSE @]
             /\ listing' = [listing EXCEPT ![d][p] = f]
             /\ peer' = [peer EXCEPT ![d] = p]
    /\ Goto(d, "mark")
    /\ UNCHANGED <<loopVars, book, snap, pushed, planVars, membership, acked, cacheVars,
                   serverVars, envVars>>

\* The digest of the merged file is kept only after both merges committed.
MarkApplied(d) ==
    /\ pc[d] = "mark"
    /\ digest' = [digest EXCEPT ![d][peer[d]][book[d]] = listing[d][peer[d]]]
    /\ Unlist(d, peer[d])
    /\ peer' = [peer EXCEPT ![d] = d]
    /\ Goto(d, "merge")
    /\ UNCHANGED <<loopVars, book, snap, pushed, planVars, storeVars, indexVars, applied,
                   appliedFrom, known, sessionVars, serverVars, envVars>>

\* Everything listed for an uploaded book has been merged.
AtAcknowledge(d) == pc[d] = "merge" /\ Listed(d) = {} /\ pushed[d]

\* Where the job goes once the book in hand is acknowledged.
Acknowledged(d) ==
    /\ snap' = [snap EXCEPT ![d] = 0]
    /\ pushed' = [pushed EXCEPT ![d] = FALSE]
    /\ Goto(d, IF loop[d] = "changed" THEN "changed" ELSE "checkpoint")
    /\ UNCHANGED <<loopVars, book, listing, peer, planVars, membership, revision, merged,
                   cacheVars, serverVars, envVars>>

\* Mutant: what is stored by now is acknowledged, not what was uploaded.
AckReadingCurrent(d) ==
    /\ AtAcknowledge(d)
    /\ acked' = [acked EXCEPT ![d][book[d]] = revision[d][book[d]]]
    /\ Acknowledged(d)

\* Mutant: the acknowledgement counts the changes that are still unsent.
AckReadingDelta(d) ==
    /\ AtAcknowledge(d)
    /\ acked' = [acked EXCEPT ![d][book[d]] = snap[d] - revision[d][book[d]]]
    /\ Acknowledged(d)

\* acknowledge_reading with the revision of the snapshot, never lowering it.
AckReading(d) ==
    /\ AtAcknowledge(d)
    /\ acked' = [acked EXCEPT ![d][book[d]] = IF @ > snap[d] THEN @ ELSE snap[d]]
    /\ Acknowledged(d)

-----------------------------------------------------------------------------
(* A job: publish the change index *)

\* Only the last publication of a full job initializes a missing index.
Initializing(d) == loop[d] = "plan"

\* The published index, extended by what was recorded since.
Extended(d) ==
    [b \in Book |-> IF recorded[d][b] = NoStamp THEN index[d][b] ELSE recorded[d][b]]

AfterPublish(d) ==
    IF mode[d] = "reading" THEN "idle"
    ELSE IF loop[d] = "changed" THEN "prepare" ELSE "ackIndex"

\* A job that ends forgets everything that is not in the store.
Forget(d) ==
    /\ mode' = [mode EXCEPT ![d] = "reading"]
    /\ loop' = [loop EXCEPT ![d] = "changed"]
    /\ todo' = [todo EXCEPT ![d] = {}]
    /\ due' = [due EXCEPT ![d] = {}]
    /\ fetch' = [fetch EXCEPT ![d] = {}]
    /\ book' = [book EXCEPT ![d] = CHOOSE b \in Book : TRUE]
    /\ snap' = [snap EXCEPT ![d] = 0]
    /\ pushed' = [pushed EXCEPT ![d] = FALSE]
    /\ listing' = [listing EXCEPT ![d] = [p \in Device |-> NoStamp]]
    /\ peer' = [peer EXCEPT ![d] = d]
    /\ plan' = [plan EXCEPT ![d] = NoPlan]

\* Leave the publication, ending a reading job.
LeavePublish(d) ==
    /\ Goto(d, AfterPublish(d))
    /\ IF AfterPublish(d) = "idle"
       THEN Forget(d)
       ELSE UNCHANGED <<loopVars, handVars, plan>>
    /\ UNCHANGED arrived

\* All selected books are done: changes::publish comes next.
AtPublish(d) == pc[d] \in {"changed", "plan"} /\ todo[d] = {}

PublishNothing(d) ==
    /\ AtPublish(d)
    /\ ~pending[d]
    /\ ~Initializing(d)
    /\ LeavePublish(d)
    /\ UNCHANGED <<storeVars, cacheVars, serverVars, envVars>>

PublishIndex(d) ==
    /\ AtPublish(d)
    /\ pending[d] \/ Initializing(d)
    /\ index' = [index EXCEPT ![d] = Extended(d)]
    /\ indexed' = indexed \cup {d}
    /\ Goto(d, "published")
    /\ UNCHANGED <<loopVars, handVars, planVars, storeVars, cacheVars, state, library,
                   listedIn, envVars>>

\* LOCAL becomes the published index, then PENDING is cleared.
PublishDone(d) ==
    /\ pc[d] = "published"
    /\ recorded' = [recorded EXCEPT ![d] = index[d]]
    /\ pending' = [pending EXCEPT ![d] = FALSE]
    /\ LeavePublish(d)
    /\ UNCHANGED <<storeVars, appliedVars, sessionVars, serverVars, envVars>>

-----------------------------------------------------------------------------
(* A full job: plan, merge what peers changed, acknowledge *)

\* A peer is planned for once its library file or, for this device, nothing
\* is needed: discover_remote_books plus devices.insert(self).
Peers(d) == listedIn \ {d}
Remote == UNION {library[q] : q \in listedIn}

\* Mutant: the audit forces no comparison.
FallbackUnaudited(d) ==
    \/ \E q \in Peers(d) \cup {d} : q \notin indexed
    \/ \E q \in Peers(d) : q \notin appliedFrom[d]

\* The audit is due, an index is missing, or a peer's index was never worked off.
Fallback(d) ==
    \/ auditDue[d]
    \/ \E q \in Peers(d) \cup {d} : q \notin indexed
    \/ \E q \in Peers(d) : q \notin appliedFrom[d]

\* Books for which a peer's token differs from the one applied last.
Changed(d) ==
    {b \in Book : \E q \in Peers(d) \cap indexed \cap appliedFrom[d] :
                      index[q][b] # applied[d][q][b]}

\* The books the job was handed, without those removed since.
Local(d) == {b \in plan[d].shelf : membership[d][b] # "removed"}

\* The books to compare with the server, but for completed ones.
Chosen(d) ==
    LET books == Remote \cup Local(d)
    IN  IF Fallback(d) THEN books ELSE books \cap (Changed(d) \cup (Book \ known[d]))

\* A session with other peers, or none, starts a new token: no earlier
\* checkpoint can match it.
Marks(d) ==
    IF session[d] = {Peers(d)} THEN checkpoint[d] ELSE [b \in Book |-> {}]

\* Plan::prepare, with prepare_local_books and discover_remote_books before it.
NewPlan(d) ==
    LET from == (Peers(d) \cup {d}) \cap indexed
        p    == [books |-> Remote \cup Local(d), shelf |-> Local(d), peers |-> Peers(d),
                 from |-> from, reading |-> Chosen(d),
                 index |-> [q \in Device |-> IF q \in from THEN index[q] ELSE NoIndex],
                 audit |-> auditDue[d],
                 resumable |-> Peers(d) \subseteq indexed]
    IN  [p EXCEPT !.reading = {b \in @ : ~Completed(d, p, Marks(d), b)}]

Prepare(d) ==
    /\ pc[d] = "prepare"
    /\ plan' = [plan EXCEPT ![d] = NewPlan(d)]
    /\ loop' = [loop EXCEPT ![d] = "download"]
    /\ session' = [session EXCEPT ![d] = {Peers(d)}]
    /\ checkpoint' = [checkpoint EXCEPT ![d] = Marks(d)]
    /\ Goto(d, "library")
    /\ UNCHANGED <<mode, todo, due, fetch, handVars, arrived, storeVars, indexVars,
                   appliedVars, auditDue, serverVars, envVars>>

\* publish_device_library: the books of this job that are still on the shelf.
\* download_in_batches then looks for books that are missing here.
PublishLibrary(d) ==
    /\ pc[d] = "library"
    /\ library' = [library EXCEPT ![d] = plan[d].shelf \cap Shelf(d)]
    /\ listedIn' = listedIn \cup {d}
    /\ fetch' = [fetch EXCEPT ![d] =
                    {b \in plan[d].books \ plan[d].shelf : membership[d][b] # "removed"}]
    /\ Goto(d, "download")
    /\ UNCHANGED <<mode, loop, todo, due, handVars, planVars, storeVars, cacheVars, state,
                   index, indexed, envVars>>

\* Whether a book that is not pending is pushed because the server lost the
\* own file.  A peer's change may have superseded all that the file would hold;
\* then there is nothing to push.
Repairs(d, b) ==
    IF state[d][b] # NoStamp \/ revision[d][b] = 0 THEN {FALSE}
    ELSE IF \E q \in Device \ {d} : merged[d][q][b].rev > 0 THEN BOOLEAN
    ELSE {TRUE}

\* Mutant: a repair pushes nothing but what is pending.
TakePending(d, b, pend) ==
    \E repair \in Repairs(d, b) :
        LET push == b \in pend \/ repair
        IN  /\ book' = [book EXCEPT ![d] = b]
            /\ ListFiles(d, b)
            /\ pushed' = [pushed EXCEPT ![d] = push]
            /\ snap' = [snap EXCEPT ![d] = IF b \in pend THEN revision[d][b] ELSE 0]
            /\ Goto(d, IF push THEN "put" ELSE "merge")

\* sync_reading_data takes a book: list its files, push if pending or to repair.
Take(d, b, pend) ==
    \E repair \in Repairs(d, b) :
        LET push == b \in pend \/ repair
        IN  /\ book' = [book EXCEPT ![d] = b]
            /\ ListFiles(d, b)
            /\ pushed' = [pushed EXCEPT ![d] = push]
            /\ snap' = [snap EXCEPT ![d] = IF push THEN revision[d][b] ELSE 0]
            /\ Goto(d, IF push THEN "put" ELSE "merge")

\* download_books: a planned book is compared as soon as its file is here.
Download(d) ==
    /\ pc[d] = "download"
    /\ \E b \in fetch[d] :
          /\ fetch' = [fetch EXCEPT ![d] = @ \ {b}]
          /\ IF b \in plan[d].reading
             THEN Take(d, b, PendingReading(d))
             ELSE /\ book' = [book EXCEPT ![d] = b]
                  /\ Goto(d, "deliver")
                  /\ UNCHANGED <<snap, pushed, listing>>
    /\ UNCHANGED <<mode, loop, todo, due, peer, planVars, storeVars, cacheVars,
                   serverVars, envVars>>

\* The host is told of the downloaded book.
Deliver(d) ==
    /\ pc[d] = "deliver"
    /\ arrived' = [arrived EXCEPT ![d] = @ \cup {book[d]}]
    /\ Goto(d, "download")
    /\ UNCHANGED <<loopVars, handVars, plan, storeVars, cacheVars, serverVars, envVars>>

\* sync_reading_data: the books pending by now are fixed for the whole loop,
\* which passes over books that were completed with their download.
BeginPlan(d) ==
    /\ pc[d] = "download"
    /\ fetch[d] = {}
    /\ due' = [due EXCEPT ![d] = PendingReading(d)]
    /\ todo' = [todo EXCEPT ![d] =
                   {b \in plan[d].reading : \/ b \in PendingReading(d)
                                            \/ ~Completed(d, plan[d], checkpoint[d], b)}]
    /\ loop' = [loop EXCEPT ![d] = "plan"]
    /\ Goto(d, "plan")
    /\ UNCHANGED <<mode, fetch, handVars, planVars, storeVars, cacheVars, serverVars, envVars>>

PlanBook(d) ==
    /\ pc[d] = "plan"
    /\ \E b \in todo[d] : /\ todo' = [todo EXCEPT ![d] = @ \ {b}]
                          /\ Take(d, b, due[d])
    /\ UNCHANGED <<mode, loop, due, fetch, peer, planVars, storeVars, cacheVars,
                   serverVars, envVars>>

\* plan.checkpoint, after everything listed for the book has been merged and,
\* if it was pushed, acknowledged.
Checkpoint(d) ==
    /\ \/ pc[d] = "checkpoint"
       \/ pc[d] = "merge" /\ Listed(d) = {} /\ ~pushed[d]
    /\ checkpoint' = IF plan[d].resumable
                     THEN [checkpoint EXCEPT ![d][book[d]] =
                              {CheckpointValue(plan[d], book[d])}]
                     ELSE checkpoint
    /\ Goto(d, IF loop[d] = "download" THEN "deliver" ELSE "plan")
    /\ UNCHANGED <<loopVars, handVars, planVars, storeVars, indexVars, appliedVars,
                   auditDue, session, serverVars, envVars>>

\* Mutant: the index the peer has published by now is acknowledged.
AckIndexCurrent(d) ==
    /\ pc[d] = "ackIndex"
    /\ \E q \in plan[d].from :
          /\ applied' = [applied EXCEPT ![d][q] = index[q]]
          /\ appliedFrom' = [appliedFrom EXCEPT ![d] = @ \cup {q}]
          /\ plan' = [plan EXCEPT ![d].from = @ \ {q}]
    /\ UNCHANGED <<pc, loopVars, handVars, arrived, storeVars, indexVars, digest, known,
                   sessionVars, serverVars, envVars>>

\* Plan::acknowledge, one write after the other: each peer's index, as the plan
\* was made from it ...
AckIndex(d) ==
    /\ pc[d] = "ackIndex"
    /\ \E q \in plan[d].from :
          /\ applied' = [applied EXCEPT ![d][q] = plan[d].index[q]]
          /\ appliedFrom' = [appliedFrom EXCEPT ![d] = @ \cup {q}]
          /\ plan' = [plan EXCEPT ![d].from = @ \ {q}]
    /\ UNCHANGED <<pc, loopVars, handVars, arrived, storeVars, indexVars, digest, known,
                   sessionVars, serverVars, envVars>>

\* ... the books of the plan ...
AckBooks(d) ==
    /\ pc[d] = "ackIndex"
    /\ plan[d].from = {}
    /\ known' = [known EXCEPT ![d] = @ \cup plan[d].books]
    /\ Goto(d, IF plan[d].audit THEN "ackAudit" ELSE "ackSession")
    /\ UNCHANGED <<loopVars, handVars, planVars, storeVars, indexVars, digest, applied,
                   appliedFrom, sessionVars, serverVars, envVars>>

\* No later plan can match a checkpoint made under another session token, so
\* the marks of a session end with it.
EndSession(d) ==
    /\ session' = [session EXCEPT ![d] = {}]
    /\ checkpoint' = [checkpoint EXCEPT ![d] = [b \in Book |-> {}]]

\* ... the time of the audit, which is part of the session's identity ...
AckAudit(d) ==
    /\ pc[d] = "ackAudit"
    /\ auditDue' = [auditDue EXCEPT ![d] = FALSE]
    /\ EndSession(d)
    /\ Goto(d, "ackSession")
    /\ UNCHANGED <<loopVars, handVars, planVars, storeVars, indexVars, appliedVars,
                   serverVars, envVars>>

\* ... and the end of the session.
AckSession(d) ==
    /\ pc[d] = "ackSession"
    /\ EndSession(d)
    /\ Goto(d, "idle")
    /\ Forget(d)
    /\ UNCHANGED <<arrived, storeVars, indexVars, appliedVars, auditDue, serverVars, envVars>>

-----------------------------------------------------------------------------
(* Failures and time *)

\* A request fails, the task is cancelled or the process ends; in the last two
\* cases the host's queue is gone too.
Abort(d) ==
    /\ pc[d] # "idle"
    /\ aborts < MaxAborts
    /\ FaultLeft
    /\ aborts' = aborts + 1
    /\ Goto(d, "idle")
    /\ Forget(d)
    /\ arrived' \in {arrived, [arrived EXCEPT ![d] = {}]}
    /\ UNCHANGED <<storeVars, cacheVars, serverVars, uploads, moves, left, lost>>

\* RECHECK_MS have passed since the last audit.
AuditExpires(d) ==
    /\ ~auditDue[d]
    /\ d \in Auditors
    /\ auditDue' = [auditDue EXCEPT ![d] = TRUE]
    /\ UNCHANGED <<storeVars, indexVars, appliedVars, session, checkpoint, serverVars,
                   jobVars, envVars>>

\* Someone deletes a state file on the server.
LoseState(p, b) ==
    /\ state[p][b] # NoStamp
    /\ Cardinality(lost) < MaxLosses
    /\ FaultLeft
    /\ state' = [state EXCEPT ![p][b] = NoStamp]
    /\ lost' = lost \cup {<<p, b>>}
    /\ UNCHANGED <<storeVars, cacheVars, index, indexed, library, listedIn,
                   jobVars, uploads, aborts, moves, left>>

-----------------------------------------------------------------------------
Merge(d) == SkipState(d) \/ MergeState(d) \/ MarkApplied(d)

Upload(d) == Snapshot(d) \/ PutState(d) \/ RecordToken(d) \/ RecordFlag(d)
             \/ ListStates(d) \/ AckReading(d)

Publish(d) == PublishNothing(d) \/ PublishIndex(d) \/ PublishDone(d)

PlanAndAck(d) == Prepare(d) \/ PublishLibrary(d) \/ Download(d) \/ Deliver(d)
                 \/ BeginPlan(d)
                 \/ PlanBook(d) \/ Checkpoint(d) \/ AckIndex(d) \/ AckBooks(d)
                 \/ AckAudit(d) \/ AckSession(d)

Job(d) == Upload(d) \/ Merge(d) \/ Publish(d) \/ PlanAndAck(d)

Reader(d) == \E b \in Book : Edit(d, b) \/ RemoveBook(d, b) \/ RestoreBook(d, b)

Environment == \E d \in Device :
                  \/ Reader(d)
                  \/ \E m \in {"reading", "full"} : StartSync(d, m)
                  \/ Abort(d)
                  \/ Import(d)
                  \/ AuditExpires(d)
                  \/ \E b \in Book : LoseState(d, b)

Next == Environment \/ \E d \in Device : Job(d)

Spec == Init /\ [][Next]_vars

\* A job that runs goes on, the host imports what arrived and keeps starting
\* full jobs (every FULL_SYNC_INTERVAL), and the audit comes due again.
Fairness == \A d \in Device : /\ WF_vars(Job(d))
                              /\ WF_vars(Import(d))
                              /\ WF_vars(StartSync(d, "full"))
                              /\ WF_vars(AuditExpires(d))

FairSpec == Spec /\ Fairness

-----------------------------------------------------------------------------
(* Properties *)

StoreOK ==
    /\ membership \in [Device -> [Book -> {"unknown", "present", "removed"}]]
    /\ revision \in [Device -> [Book -> Nat]]
    /\ acked \in [Device -> [Book -> Nat]]
    /\ merged \in [Device -> [Device -> [Book -> Stamp]]]

CacheOK ==
    /\ digest \in [Device -> [Device -> [Book -> Stamp]]]
    /\ recorded \in [Device -> [Book -> Stamp]]
    /\ pending \in [Device -> BOOLEAN]
    /\ applied \in [Device -> [Device -> [Book -> Stamp]]]
    /\ appliedFrom \in [Device -> SUBSET Device]
    /\ known \in [Device -> SUBSET Book]
    /\ auditDue \in [Device -> BOOLEAN]
    /\ session \in [Device -> SUBSET SUBSET Device]
    /\ checkpoint \in [Device -> [Book -> SUBSET [Device -> Stamp]]]

ServerOK ==
    /\ state \in [Device -> [Book -> Stamp]]
    /\ index \in [Device -> [Book -> Stamp]]
    /\ indexed \subseteq Device
    /\ library \in [Device -> SUBSET Book]
    /\ listedIn \subseteq Device

JobOK ==
    /\ pc \in [Device -> Steps]
    /\ mode \in [Device -> {"reading", "full"}]
    /\ loop \in [Device -> {"changed", "download", "plan"}]
    /\ todo \in [Device -> SUBSET Book]
    /\ due \in [Device -> SUBSET Book]
    /\ fetch \in [Device -> SUBSET Book]
    /\ book \in [Device -> Book]
    /\ snap \in [Device -> Nat]
    /\ pushed \in [Device -> BOOLEAN]
    /\ listing \in [Device -> [Device -> Stamp]]
    /\ peer \in [Device -> Device]
    /\ plan \in [Device -> PlanType]
    /\ arrived \in [Device -> SUBSET Book]

EnvOK ==
    /\ uploads \in [Device -> [Book -> Nat]]
    /\ aborts \in Nat
    /\ moves \in Nat
    /\ left \subseteq Device \X Book
    /\ lost \subseteq Device \X Book

\* Every variable has its type.
TypeOK == StoreOK /\ CacheOK /\ ServerOK /\ JobOK /\ EnvOK

\* A revision is acknowledged only after a state file taken at that revision
\* or later was accepted by the server (push_reading_state before
\* acknowledge_reading), whatever is edited while the upload runs.
AckedUploaded ==
    \A d \in Device, b \in Book :
        <<d, b>> \in lost \/ acked[d][b] <= state[d][b].rev

\* "The index is published only after its referenced payloads have been
\* accepted": a token a peer can read never precedes the state file it is for.
IndexBacked ==
    \A d \in Device, b \in Book :
        \/ <<d, b>> \in lost
        \/ /\ AtLeast(state[d][b], index[d][b])
           /\ state[d][b].rev >= index[d][b].rev

\* An acknowledged revision is never forgotten by the change index: its token
\* is published, or still due to be published (PENDING), across every stop.
AckedSignalled ==
    \A d \in Device, b \in Book :
        acked[d][b] <= (IF pending[d] THEN recorded ELSE index)[d][b].rev

\* Once a device has worked off a peer's index, the store holds the state
\* file that index stood for, for every book it has ever planned for.  (A book
\* that is neither on the own shelf nor listed by a peer is outside the plan,
\* whose indexes are worked off all the same: when such a book comes back it
\* waits for the next audit.)
AppliedMerged ==
    \A d \in Device, b \in Book : \A q \in appliedFrom[d] \ {d} :
        b \in known[d] /\ <<d, b>> \notin left /\ <<q, b>> \notin lost =>
            AtLeast(merged[d][q][b], applied[d][q][b])

\* Caught up: when everything a device wrote is uploaded and announced, and
\* another one has worked off that announcement, the other one shows all of it,
\* and nothing more, for every book it has ever planned for.  Token, revision
\* and file of one upload stay together through stops, edits during an upload,
\* repairs and files served from the cache.
CaughtUp ==
    \A d \in Device : \A b \in known[d], p \in appliedFrom[d] \ {d} :
        /\ b \notin PendingReading(p) /\ ~pending[p]
        /\ applied[d][p][b] = index[p][b]
        /\ <<d, b>> \notin left /\ <<p, b>> \notin lost
        => merged[d][p][b].rev = revision[p][b]

\* Work is complete before the time of an audit is advanced: when a resumable
\* plan of an audit is acknowledged, every planned book carries a checkpoint
\* for the very indexes the job acknowledged, whether this job or an earlier
\* one that stopped has compared it.
AuditCheckpointed ==
    \A d \in Device : pc[d] = "ackAudit" /\ plan[d].resumable =>
        \A b \in plan[d].books : checkpoint[d][b] = {CheckpointValue(plan[d], b)}

\* Every change a reader makes reaches the store of every other device.
Delivered ==
    \A d, p \in Device, b \in Book : \A r \in 1..MaxRevision :
        d # p => (revision[p][b] >= r ~> merged[d][p][b].rev >= r)
==============================================================================
