--------------------------- MODULE AnnotationMerge ---------------------------
(***************************************************************************)
(* One highlight of one book on several devices: its versions, the copies  *)
(* that conflicts leave behind, tombstones, and the merge of state files.  *)
(*                                                                         *)
(* A content stands for ranges, quote and note.  A version is stamped by   *)
(* its device; only the order of stamps matters, so a stamp is a number    *)
(* that no other version has.  How clocks make that order is the subject   *)
(* of ProgressClock: here a device may stamp with any number beyond its    *)
(* own last one.  How a state file travels is the subject of ReadingSync:  *)
(* here uploading and merging one are single steps.                        *)
(***************************************************************************)
EXTENDS Integers, FiniteSetsExt

CONSTANTS Device,
          Rank,        \* [Device -> Nat], the order of the device ids
          Author,      \* the device that makes the highlight
          Content,
          Editable,    \* what readers edit: highlights, copies
          Deletable,   \* what readers delete
          Skewed,      \* may device clocks disagree
          MaxStamp,    \* bound on the stamps of edits
          MaxEdits     \* bound on edits and deletions

ASSUME MergeAssumption ==
    /\ Rank \in [Device -> Nat]
    /\ \A d, e \in Device : Rank[d] = Rank[e] => d = e
    /\ \A d \in Device : Rank[d] > 0
    /\ Author \in Device
    /\ Editable \subseteq {"highlight", "copy"}
    /\ Deletable \subseteq {"highlight", "copy"}
    /\ Skewed \in BOOLEAN
    /\ MaxStamp \in Nat
    /\ MaxEdits \in Nat

VARIABLES
    annotations,  \* [Device -> [ids -> Annotation]], table annotations
    last,         \* [Device -> Nat], the device's last stamp
    changed,      \* reading_changes has a revision that is not acknowledged
    file,         \* the annotations in the device's state file
    number,       \* [Device -> Nat], how often the file was uploaded
    applied,      \* [Device -> [Device -> Nat]], the upload merged last
    edits,        \* edits and deletions so far
    used,         \* history: the stamps given
    written,      \* history: the contents readers wrote
    repeated,     \* history: a content was written again
    discarded,    \* history: contents of deleted highlights
    standing      \* history: what readers wrote and did not replace

vars == <<annotations, last, changed, file, number, applied,
          edits, used, written, repeated, discarded, standing>>

Stamp == Nat
VectorClock == [Device -> Nat]

\* The highlight, and the copies of conflicts, named by the origin and the stamp
\* of the version they keep (conflict_id).
Root == <<0, 0>>
Id   == Nat \X Stamp
Kind(i) == IF i = Root THEN "highlight" ELSE "copy"

Annotation == [content : Content, stamp : Stamp, clock : VectorClock,
               deleted : BOOLEAN, origin : Device]

\* The order of ids in queries and files.
Precedes(i, j) == i[1] < j[1] \/ (i[1] = j[1] /\ i[2] < j[2])
LastId(S) == CHOOSE i \in S : \A j \in S \ {i} : Precedes(j, i)
FirstId(S) == CHOOSE i \in S : \A j \in S \ {i} : Precedes(i, j)

\* Applies op to the ids of S in order.
InOrder(op(_, _), base, S) == MapThenFoldSet(op, base, LAMBDA i : i, LastId, S)

-----------------------------------------------------------------------------
(* Versions *)

\* compare_clocks: c is Before or Equal to e.
Leq(c, e) == \A d \in Device : c[d] <= e[d]

\* Mutant: an entry that only one clock has is forgotten.
JoinedCommon(c, e) == [d \in {f \in Device : c[f] > 0 /\ e[f] > 0} |-> IF c[d] < e[d] THEN e[d] ELSE c[d]]

\* join_clock
Joined(c, e) == [d \in Device |-> IF c[d] < e[d] THEN e[d] ELSE c[d]]

Advanced(c, d) == [c EXCEPT ![d] = @ + 1]

\* A store is what a merge reads and writes in its transaction.
Store(d) == [annotations |-> annotations[d], last |-> last[d],
             changed |-> changed[d], used |-> used]

\* write_annotation
Written(store, i, a) ==
    [store EXCEPT !.annotations = [j \in DOMAIN @ \cup {i} |-> IF j = i THEN a ELSE @[j]]]

\* Mutant: a join of histories counts as an edit.
PublishedAdvanced(store, d, i, a) ==
    [Written(store, i, [a EXCEPT !.origin = d, !.clock = Advanced(@, d)]) EXCEPT !.changed = TRUE]

\* Mutant: what is published keeps its author, who may never see it.
PublishedForeign(store, d, i, a) == [Written(store, i, a) EXCEPT !.changed = TRUE]

\* publish
Published(store, d, i, a) ==
    [Written(store, i, [a EXCEPT !.origin = d]) EXCEPT !.changed = TRUE]

\* Mutant: each device prefers its own version.
WinnerCurrent(current, incoming) == current

\* The version that prevails among concurrent ones.
Winner(current, incoming) ==
    LET same == current.content = incoming.content
    IN  IF /\ ~(same /\ current.deleted)
           /\ \/ same /\ incoming.deleted
              \/ current.stamp < incoming.stamp
        THEN incoming
        ELSE current

\* Mutant: the loser of a conflict is dropped.
RetainedNever(store, d, loser) == store

\* retain_conflict
Retained(store, d, loser) ==
    LET ids  == DOMAIN store.annotations
        same == {i \in ids \ {Root} : store.annotations[i].content = loser.content}
        copy == <<Rank[loser.origin], loser.stamp>>
    IN  IF same # {}
        THEN LET i == FirstId(same)
                 a == store.annotations[i]
             IN  IF Leq(loser.clock, a.clock)
                 THEN store
                 ELSE Published(store, d, i, [a EXCEPT !.clock = Joined(@, loser.clock)])
        ELSE IF copy \in ids THEN store ELSE Published(store, d, copy, loser)

\* Mutant: the winner keeps its own history.
ResolvedUnjoined(store, d, i, incoming) ==
    Published(store, d, i, Winner(store.annotations[i], incoming))

\* The arm of merge for concurrent versions.
Resolved(store, d, i, incoming) ==
    LET current == store.annotations[i]
        winner  == Winner(current, incoming)
        loser   == IF winner = incoming THEN current ELSE incoming
        kept    == IF /\ loser.content # winner.content
                      /\ ~loser.deleted
                      /\ i = Root
                   THEN Retained(store, d, loser)
                   ELSE store
    IN  Published(kept, d, i, [winner EXCEPT !.clock = Joined(@, loser.clock)])

\* tick(observed): the next stamp is beyond an observed one if clocks agree.
Ticked(store, observed) ==
    IF Skewed THEN store ELSE [store EXCEPT !.last = Max({@, observed})]

\* Mutant: what is concurrent and not later is dropped, history and all.
MergedLatest(store, d, i, incoming) ==
    LET ticked == Ticked(store, incoming.stamp)
    IN  IF /\ i \in DOMAIN store.annotations
           /\ incoming.stamp <= store.annotations[i].stamp
        THEN ticked
        ELSE Written(ticked, i, incoming)

\* Mutant: every annotation of a merged file counts as a change.
MergedMarked(store, d, i, incoming) ==
    LET ticked == Ticked(store, incoming.stamp)
        known  == i \in DOMAIN store.annotations
        clock  == store.annotations[i].clock
    IN  IF known /\ Leq(incoming.clock, clock)
        THEN [ticked EXCEPT !.changed = TRUE]
        ELSE IF known => Leq(clock, incoming.clock)
             THEN Written(ticked, i, incoming)
             ELSE Resolved(ticked, d, i, incoming)

\* merge, for one incoming annotation.
Merged(store, d, i, incoming) ==
    LET ticked == Ticked(store, incoming.stamp)
        known  == i \in DOMAIN store.annotations
        clock  == store.annotations[i].clock
    IN  IF known /\ Leq(incoming.clock, clock)
        THEN ticked
        ELSE IF known => Leq(clock, incoming.clock)
             THEN Written(ticked, i, incoming)
             ELSE Resolved(ticked, d, i, incoming)

\* The stamps that a device can give next, up to a bound.
Free(store, bound) == ((store.last + 1)..bound) \ store.used

Live(table) == {i \in DOMAIN table : ~table[i].deleted}

\* compact, for one annotation: it is removed if a live one before it has its
\* content.  Of the stamps its removal can get, it takes the first: a removed
\* copy's stamp decides only against another removal.
CompactedOne(store, d, i) ==
    LET table     == store.annotations
        survivors == {j \in Live(table) : Precedes(j, i) /\ table[j].content = table[i].content}
    IN  IF survivors = {}
        THEN store
        ELSE LET j     == FirstId(survivors)
                 clock == Joined(table[j].clock, table[i].clock)
                 next  == Min(Free(store, store.last + 1 + Cardinality(store.used)))
                 met   == IF clock = table[j].clock
                          THEN store
                          ELSE Published(store, d, j, [table[j] EXCEPT !.clock = clock])
             IN  [Written(met, i, [table[i] EXCEPT !.clock = Advanced(clock, d), !.stamp = next,
                                                   !.deleted = TRUE, !.origin = d])
                  EXCEPT !.last = next, !.changed = TRUE, !.used = @ \cup {next}]

Compacted(store, d) ==
    InOrder(LAMBDA i, s : CompactedOne(s, d, i), store, Live(store.annotations))

\* merge of a state file.
MergedFile(store, d, incoming) ==
    IF incoming = <<>>
    THEN store
    ELSE Compacted(InOrder(LAMBDA i, s : Merged(s, d, i, incoming[i]), store, DOMAIN incoming), d)

Commit(d, store) ==
    /\ annotations' = [annotations EXCEPT ![d] = store.annotations]
    /\ last' = [last EXCEPT ![d] = store.last]
    /\ changed' = [changed EXCEPT ![d] = store.changed]
    /\ used' = store.used

-----------------------------------------------------------------------------
Init ==
    /\ annotations = [d \in Device |-> <<>>]
    /\ last = [d \in Device |-> 0]
    /\ changed = [d \in Device |-> FALSE]
    /\ file = [d \in Device |-> <<>>]
    /\ number = [d \in Device |-> 0]
    /\ applied = [d \in Device |-> [p \in Device |-> 0]]
    /\ edits = 0
    /\ used = {}
    /\ written = {}
    /\ repeated = FALSE
    /\ discarded = {}
    /\ standing = {}

\* A reader leaves version a of annotation i on d; contents are what it says now.
Write(d, i, a, contents) ==
    /\ Commit(d, [Written(Store(d), i, a) EXCEPT !.last = a.stamp, !.changed = TRUE,
                                                 !.used = @ \cup {a.stamp}])
    /\ written' = written \cup contents
    /\ repeated' = (repeated \/ contents \cap written # {})
    /\ UNCHANGED <<file, number, applied>>

\* create_annotation
Create ==
    /\ used = {}
    /\ \E c \in Content :
          LET a == [content |-> c, stamp |-> 1, clock |-> [d \in Device |-> IF d = Author THEN 1 ELSE 0],
                    deleted |-> FALSE, origin |-> Author]
          IN  /\ Write(Author, Root, a, {c})
              /\ standing' = {[content |-> c, clock |-> a.clock]}
    /\ UNCHANGED <<edits, discarded>>

\* What stands, less what a reader who saw version a has replaced by an edit.
Replaced(a) == {v \in standing : v.content = a.content /\ Leq(v.clock, a.clock)}

\* update_annotation_note, or a repair of the ranges.
Edit(d, i, c) ==
    LET a == annotations[d][i]
    IN  /\ edits < MaxEdits
        /\ edits' = edits + 1
        /\ Kind(i) \in Editable
        /\ c # a.content
        /\ \E s \in Free(Store(d), MaxStamp) :
              Write(d, i, [a EXCEPT !.content = c, !.stamp = s, !.clock = Advanced(@, d),
                                    !.origin = d], {c})
        /\ standing' = (standing \ Replaced(a))
                          \cup {[content |-> c, clock |-> Advanced(a.clock, d)]}
        /\ UNCHANGED discarded

\* delete_annotation
Delete(d, i) ==
    LET a == annotations[d][i]
    IN  /\ edits < MaxEdits
        /\ edits' = edits + 1
        /\ Kind(i) \in Deletable
        /\ \E s \in Free(Store(d), MaxStamp) :
              Write(d, i, [a EXCEPT !.deleted = TRUE, !.stamp = s, !.clock = Advanced(@, d),
                                    !.origin = d], {})
        /\ standing' = standing \ Replaced(a)
        /\ discarded' = discarded \cup {a.content}

\* compact_conflicts, when a reader opens the book.
Open(d) ==
    /\ Compacted(Store(d), d) # Store(d)
    /\ Commit(d, Compacted(Store(d), d))
    /\ UNCHANGED <<file, number, applied, edits, written, repeated, discarded, standing>>

\* reading_snapshot and its upload: the annotations that this device wrote last.
Upload(d) ==
    /\ changed[d]
    /\ changed' = [changed EXCEPT ![d] = FALSE]
    /\ number' = [number EXCEPT ![d] = @ + 1]
    /\ file' = [file EXCEPT ![d] = Restrict(annotations[d],
                    {i \in DOMAIN annotations[d] : annotations[d][i].origin = d})]
    /\ UNCHANGED <<annotations, last, applied, edits, used, written, repeated, discarded, standing>>

\* merge_annotations for p's file.
Merge(d, p) ==
    /\ p # d
    /\ applied[d][p] # number[p]
    /\ applied' = [applied EXCEPT ![d][p] = number[p]]
    /\ Commit(d, MergedFile(Store(d), d, file[p]))
    /\ UNCHANGED <<file, number, edits, written, repeated, discarded, standing>>

Next ==
    \/ Create
    \/ \E d \in Device :
          \/ \E i \in Live(annotations[d]) : \/ Delete(d, i)
                                             \/ \E c \in Content : Edit(d, i, c)
          \/ Open(d)
          \/ Upload(d)
          \/ \E p \in Device : Merge(d, p)

Spec == Init /\ [][Next]_vars

-----------------------------------------------------------------------------
(* Properties *)

\* Types: what the tables hold has its type, and copies have the ids of copies.
TypeOK ==
    /\ \A d \in Device : /\ DOMAIN annotations[d] \subseteq Id
                          /\ \A i \in DOMAIN annotations[d] : annotations[d][i] \in Annotation
    /\ last \in [Device -> Nat]
    /\ changed \in [Device -> BOOLEAN]

\* All changes are uploaded and all files are merged.
Settled == \A d \in Device : /\ ~changed[d]
                             /\ \A p \in Device \ {d} : applied[d][p] = number[p]

Shown(d) == {<<i, annotations[d][i].content>> : i \in Live(annotations[d])}

\* Convergence: when nothing is left to upload or to merge, all devices show the
\* same highlight and the same copies, whoever resolved which conflict first
\* (merge, retain_conflict and compact).
Converged == Settled => \A d, e \in Device : Shown(d) = Shown(e)

\* What equal contents can break: one that was deleted and is written once more
\* (a tombstone prevails over an equal content, a later stamp over another one).
\* Without that, two devices converge.  A third one can edit what the two have
\* deleted at the same time, each with a stamp of its own.
ConvergedFresh == (~repeated \/ discarded = {}) => Converged

Contents(d) == {annotations[d][i].content : i \in Live(annotations[d])}

\* No loss: when nothing is left to merge, every content that a reader wrote, and
\* that no reader who saw it replaced or deleted, is shown on every device, in
\* the highlight or in a copy of a conflict (retain_conflict, compact).
NoneLost ==
    Settled => \A v \in standing :
                  v.content \in discarded \/ \A d \in Device : v.content \in Contents(d)

\* As NoneLost, of two devices whose readers write no content twice.  A third one
\* can get a copy before the outcome of the conflict that the copy is of.
NoneLostFresh == ~repeated => NoneLost

\* The version, without its history.
Version(a) == [content |-> a.content, stamp |-> a.stamp, deleted |-> a.deleted]

\* No echo: of two devices, one that holds every version of a file already publishes
\* nothing when it merges the file, whatever either has joined to the histories.
\* So devices that resolve the same conflict at the same time come to rest (publish
\* does not count a join as an edit).  Among three devices, histories that two of
\* them joined to one version may still have to be joined to each other.
Quiet ==
    \A d, p \in Device :
       /\ \A i \in DOMAIN file[p] : /\ i \in DOMAIN annotations[d]
                                     /\ Version(file[p][i]) = Version(annotations[d][i])
       /\ Compacted(Store(d), d) = Store(d)
       => MergedFile(Store(d), d, file[p]).changed = changed[d]

\* Memory: whatever a device merges, resolves, keeps as a copy or compacts, it
\* forgets none of its annotations and nothing of their histories: no version
\* that it has seen can come back to it as news (join_clock in merge,
\* retain_conflict and compact).
HistoryGrows ==
    [][\A d \in Device : \A i \in DOMAIN annotations[d] :
          /\ i \in DOMAIN annotations'[d]
          /\ Leq(annotations[d][i].clock, annotations'[d][i].clock)]_vars

\* News: a device gets something to upload only in a step in which one of its
\* annotations is new or its history grows, so that no merge, of a known file or of
\* another device's resolution, starts an exchange that repeats itself (merge,
\* retain_conflict and compact publish what they join, and nothing else).
PublishesNews ==
    [][\A d \in Device : changed'[d] /\ ~changed[d] =>
          \E i \in DOMAIN annotations'[d] :
             \/ i \notin DOMAIN annotations[d]
             \/ annotations'[d][i].clock # annotations[d][i].clock]_vars

\* Coverage: once a device has merged the present file of another one, and as long
\* as that file is the present one, it has every annotation of the file with a
\* history that covers the file's, also after conflicts, compaction and edits of
\* its own; its own file it covers too (merge writes, joins or skips).
MergedCovered ==
    \A d, p \in Device :
       p = d \/ applied[d][p] = number[p] =>
          \A i \in DOMAIN file[p] : /\ i \in DOMAIN annotations[d]
                                     /\ Leq(file[p][i].clock, annotations[d][i].clock)

\* Histories: when nothing is left to upload or to merge, all devices have the same
\* annotations, deleted ones too, each under the same history: whatever versions
\* they merged, in whatever order, they know that nobody has news for them
\* (join_clock, publish and the origins of what reading_snapshot uploads).
HistoriesAgree ==
    Settled => \A d, e \in Device : \A i \in DOMAIN annotations[d] :
                  /\ i \in DOMAIN annotations[e]
                  /\ annotations[d][i].clock = annotations[e][i].clock
==============================================================================
