------------------------ MODULE AnnotationMerge_proofs ------------------------
(***************************************************************************)
(* For any number of devices, texts and copies and files of any length: no *)
(* device forgets an annotation, or anything of its history; devices that  *)
(* have exchanged their files agree on all histories; and, if clocks agree *)
(* and the highlight is not deleted, on the highlight.                     *)
(*                                                                         *)
(* A merge and a compaction go through annotations one by one, as a fold.  *)
(* What a fold does to a store is shown by induction over the ids it has   *)
(* gone through.  The provers cannot instantiate an induction theorem for  *)
(* a predicate, so SubsetInduction speaks of a set of sets; it follows     *)
(* from the well-foundedness of the strict subsets of a finite set.        *)
(***************************************************************************)
EXTENDS AnnotationMerge, FiniteSetTheorems, TLAPS

-----------------------------------------------------------------------------
(* Induction, least elements, and the order of ids *)

\* A non-empty set of subsets of a finite set has a minimal one.
LEMMA MinimalSubset ==
  ASSUME NEW S, IsFiniteSet(S), NEW T, T \subseteq SUBSET S, T # {}
  PROVE  \E x \in T : \A y \in T : y \subseteq x => y = x
  <1>1. T \subseteq FiniteSubsetsOf(S) BY FS_FiniteSubsetsOfFinite
  <1>2. PICK x \in T : \A y \in T : ~(<<y, x>> \in StrictSubsetOrdering(S))
    BY <1>1, WFMin, FS_StrictSubsetOrderingWellFounded
  <1>3. ASSUME NEW y \in T, y \subseteq x, y # x PROVE FALSE
    <2>1. <<y, x>> \in StrictSubsetOrdering(S) BY <1>3 DEF StrictSubsetOrdering
    <2>. QED BY <1>2, <2>1
  <1>. QED BY <1>3

\* Induction over the subsets of a finite set.
LEMMA SubsetInduction ==
  ASSUME NEW S, IsFiniteSet(S), NEW A, {} \in A,
         \A t \in SUBSET S : t # {} /\ (\A x \in t : t \ {x} \in A) => t \in A
  PROVE  SUBSET S \subseteq A
  <1>. SUFFICES ASSUME (SUBSET S) \ A # {} PROVE FALSE OBVIOUS
  <1>. DEFINE B == (SUBSET S) \ A
  <1>1. B \subseteq SUBSET S /\ B # {} OBVIOUS
  <1>. HIDE DEF B
  <1>2. PICK t \in B : \A u \in B : u \subseteq t => u = t
    BY <1>1, MinimalSubset
  <1>. USE DEF B
  <1>3. t # {} OBVIOUS
  <1>4. ASSUME NEW x \in t PROVE t \ {x} \in A
    <2>1. t \ {x} \in SUBSET S /\ t \ {x} \subseteq t /\ t \ {x} # t OBVIOUS
    <2>. QED BY <1>2, <2>1
  <1>. QED BY <1>3, <1>4

\* Every non-empty set of naturals has a least element.
LEMMA LeastNatural ==
  ASSUME NEW S, S \subseteq Nat, S # {}
  PROVE  \E x \in S : \A y \in S : x <= y
  <1>. PICK n \in S : TRUE OBVIOUS
  <1>. DEFINE Below == 0..n
              T == {0..x : x \in {y \in S : y <= n}}
  <1>1. IsFiniteSet(Below) BY FS_Interval
  <1>2. T \subseteq SUBSET Below /\ T # {}
    <2>1. 0..n \in T OBVIOUS
    <2>2. ASSUME NEW x \in S, x <= n PROVE 0..x \subseteq 0..n BY <2>2
    <2>. QED BY <2>1, <2>2
  <1>. HIDE DEF T, Below
  <1>3. PICK t \in T : \A u \in T : u \subseteq t => u = t BY <1>1, <1>2, MinimalSubset
  <1>. USE DEF T
  <1>4. PICK x \in S : x <= n /\ t = 0..x OBVIOUS
  <1>5. ASSUME NEW y \in S, y < x PROVE FALSE
    <2>1. 0..y \in T BY <1>4, <1>5
    <2>2. 0..y \subseteq 0..x /\ x \in 0..x /\ x \notin 0..y BY <1>5
    <2>. QED BY <1>3, <1>4, <2>1, <2>2
  <1>. QED BY <1>5

LEMMA MinProperties ==
  ASSUME NEW S, S \subseteq Nat, S # {}
  PROVE  Min(S) \in S
  BY LeastNatural DEF Min

LEMMA MaxOfTwo ==
  ASSUME NEW m \in Nat, NEW n \in Nat
  PROVE  Max({m, n}) \in Nat /\ m <= Max({m, n}) /\ n <= Max({m, n})
  <1>1. \E x \in {m, n} : \A y \in {m, n} : x >= y OBVIOUS
  <1>. QED BY <1>1 DEF Max

LEMMA PrecedesTotal ==
  /\ \A i, j \in Id : i = j \/ Precedes(i, j) \/ Precedes(j, i)
  /\ \A i, j, k \in Id : Precedes(i, j) /\ Precedes(j, k) => Precedes(i, k)
  BY DEF Precedes, Id, Stamp

LEMMA LastIdIn ==
  ASSUME NEW S, S \subseteq Id, IsFiniteSet(S), S # {}
  PROVE  LastId(S) \in S
  <1>. DEFINE A == {t \in SUBSET S : t # {} => \E i \in t : \A j \in t \ {i} : Precedes(j, i)}
  <1>1. {} \in A OBVIOUS
  <1>2. ASSUME NEW t \in SUBSET S, t # {}, \A x \in t : t \ {x} \in A PROVE t \in A
    <2>1. PICK x \in t : TRUE BY <1>2
    <2>2. t \ {x} \in A BY <1>2
    <2>3. CASE t \ {x} = {} BY <2>3
    <2>4. CASE t \ {x} # {}
      <3>1. PICK i \in t \ {x} : \A j \in (t \ {x}) \ {i} : Precedes(j, i) BY <2>2, <2>4
      <3>2. CASE Precedes(x, i) BY <3>1, <3>2
      <3>3. CASE Precedes(i, x)
        <4>1. \A j \in t \ {x} : Precedes(j, x) BY <3>1, <3>3, PrecedesTotal
        <4>. QED BY <4>1
      <3>. QED BY <3>2, <3>3, PrecedesTotal
    <2>. QED BY <2>3, <2>4
  <1>. HIDE DEF A
  <1>3. S \in A BY <1>1, <1>2, SubsetInduction
  <1>4. \E i \in S : \A j \in S \ {i} : Precedes(j, i) BY <1>3 DEF A
  <1>. QED BY <1>4 DEF LastId

LEMMA FirstIdIn ==
  ASSUME NEW S, S \subseteq Id, IsFiniteSet(S), S # {}
  PROVE  FirstId(S) \in S
  <1>. DEFINE A == {t \in SUBSET S : t # {} => \E i \in t : \A j \in t \ {i} : Precedes(i, j)}
  <1>1. {} \in A OBVIOUS
  <1>2. ASSUME NEW t \in SUBSET S, t # {}, \A x \in t : t \ {x} \in A PROVE t \in A
    <2>1. PICK x \in t : TRUE BY <1>2
    <2>2. t \ {x} \in A BY <1>2
    <2>3. CASE t \ {x} = {} BY <2>3
    <2>4. CASE t \ {x} # {}
      <3>1. PICK i \in t \ {x} : \A j \in (t \ {x}) \ {i} : Precedes(i, j) BY <2>2, <2>4
      <3>2. CASE Precedes(i, x) BY <3>1, <3>2
      <3>3. CASE Precedes(x, i)
        <4>1. \A j \in t \ {x} : Precedes(x, j) BY <3>1, <3>3, PrecedesTotal
        <4>. QED BY <4>1
      <3>. QED BY <3>2, <3>3, PrecedesTotal
    <2>. QED BY <2>3, <2>4
  <1>. HIDE DEF A
  <1>3. S \in A BY <1>1, <1>2, SubsetInduction
  <1>4. \E i \in S : \A j \in S \ {i} : Precedes(i, j) BY <1>3 DEF A
  <1>. QED BY <1>4 DEF FirstId

\* Induction over the naturals, for a set.
LEMMA NatSetInduction ==
  ASSUME NEW A, 0 \in A, \A n \in Nat : n \in A => n + 1 \in A
  PROVE  Nat \subseteq A
  <1>. SUFFICES ASSUME Nat \ A # {} PROVE FALSE OBVIOUS
  <1>. DEFINE B == Nat \ A
  <1>1. B \subseteq Nat /\ B # {} OBVIOUS
  <1>. HIDE DEF B
  <1>2. PICK n \in B : \A m \in B : n <= m BY <1>1, LeastNatural
  <1>. USE DEF B
  <1>3. n \in Nat /\ n # 0 OBVIOUS
  <1>4. n - 1 \in Nat /\ n - 1 \notin B BY <1>2, <1>3
  <1>5. n - 1 \in A BY <1>4
  <1>6. (n - 1) + 1 = n BY <1>3
  <1>. QED BY <1>4, <1>5, <1>6

-----------------------------------------------------------------------------
(* Versions *)

LEMMA LeqReflexive ==
  ASSUME NEW c \in VectorClock PROVE Leq(c, c)
  BY DEF Leq, VectorClock

LEMMA LeqTransitive ==
  ASSUME NEW b \in VectorClock, NEW c \in VectorClock, NEW e \in VectorClock,
         Leq(b, c), Leq(c, e)
  PROVE  Leq(b, e)
  BY DEF Leq, VectorClock

LEMMA LeqAntisymmetric ==
  ASSUME NEW c \in VectorClock, NEW e \in VectorClock, Leq(c, e), Leq(e, c)
  PROVE  c = e
  BY DEF Leq, VectorClock

LEMMA JoinedProperties ==
  ASSUME NEW c \in VectorClock, NEW e \in VectorClock
  PROVE  /\ Joined(c, e) \in VectorClock
         /\ Leq(c, Joined(c, e))
         /\ Leq(e, Joined(c, e))
         /\ Joined(c, e) = Joined(e, c)
  BY DEF Leq, Joined, VectorClock

LEMMA AdvancedProperties ==
  ASSUME NEW c \in VectorClock, NEW d \in Device
  PROVE  /\ Advanced(c, d) \in VectorClock
         /\ Leq(c, Advanced(c, d))
         /\ ~Leq(Advanced(c, d), c)
  BY DEF Leq, Advanced, VectorClock

LEMMA WinnerOneOf ==
  ASSUME NEW a, NEW b
  PROVE  Winner(a, b) = a \/ Winner(a, b) = b
  BY DEF Winner

-----------------------------------------------------------------------------
(* Stores *)

IsTable(t) ==
    /\ IsFiniteSet(DOMAIN t)
    /\ DOMAIN t \subseteq Id
    /\ \A i \in DOMAIN t : t[i] \in Annotation

IsStore(s) ==
    /\ s \in [annotations : {s.annotations}, last : Nat, changed : BOOLEAN, used : SUBSET Nat]
    /\ IsTable(s.annotations)
    /\ IsFiniteSet(s.used)

\* The table t has an annotation that s has not, or more history of one.
News(s, t) == \E i \in DOMAIN t : i \notin DOMAIN s \/ t[i].clock # s[i].clock

\* s became t: nothing is forgotten, and only news is a change to upload.
Grows(s, t) ==
    /\ t.changed # s.changed => News(s.annotations, t.annotations)
    /\ s.used \subseteq t.used
    /\ \A i \in DOMAIN s.annotations :
          /\ i \in DOMAIN t.annotations
          /\ Leq(s.annotations[i].clock, t.annotations[i].clock)

LEMMA GrowsReflexive ==
  ASSUME NEW s, IsStore(s) PROVE Grows(s, s)
  BY LeqReflexive DEF Grows, IsStore, IsTable, Annotation

LEMMA GrowsTransitive ==
  ASSUME NEW r, NEW s, NEW t, IsStore(r), IsStore(s), IsStore(t), Grows(r, s), Grows(s, t)
  PROVE  Grows(r, t)
  <1>1. r.used \subseteq t.used BY DEF Grows
  <1>2. ASSUME NEW i \in DOMAIN r.annotations
        PROVE  /\ i \in DOMAIN t.annotations
               /\ Leq(r.annotations[i].clock, t.annotations[i].clock)
    <2>1. i \in DOMAIN s.annotations /\ i \in DOMAIN t.annotations BY DEF Grows
    <2>2. /\ r.annotations[i].clock \in VectorClock
          /\ s.annotations[i].clock \in VectorClock
          /\ t.annotations[i].clock \in VectorClock
      BY <2>1 DEF IsStore, IsTable, Annotation
    <2>3. /\ Leq(r.annotations[i].clock, s.annotations[i].clock)
          /\ Leq(s.annotations[i].clock, t.annotations[i].clock)
      BY <2>1 DEF Grows
    <2>. QED BY <2>1, <2>2, <2>3, LeqTransitive
  <1>3. ASSUME t.changed # r.changed PROVE News(r.annotations, t.annotations)
    <2>1. CASE s.changed # r.changed
      <3>1. PICK i \in DOMAIN s.annotations :
               i \notin DOMAIN r.annotations \/ s.annotations[i].clock # r.annotations[i].clock
        BY <2>1 DEF Grows, News
      <3>2. /\ i \in DOMAIN t.annotations
            /\ Leq(s.annotations[i].clock, t.annotations[i].clock)
        BY DEF Grows
      <3>3. CASE i \notin DOMAIN r.annotations BY <3>2, <3>3 DEF News
      <3>4. CASE i \in DOMAIN r.annotations
        <4>1. Leq(r.annotations[i].clock, s.annotations[i].clock) BY <3>4 DEF Grows
        <4>2. r.annotations[i].clock \in VectorClock /\ s.annotations[i].clock \in VectorClock
          BY <3>4 DEF IsStore, IsTable, Annotation
        <4>3. t.annotations[i].clock # r.annotations[i].clock
          BY <3>1, <3>2, <3>4, <4>1, <4>2, LeqAntisymmetric
        <4>. QED BY <3>2, <4>3 DEF News
      <3>. QED BY <3>3, <3>4
    <2>2. CASE t.changed # s.changed
      <3>1. PICK i \in DOMAIN t.annotations :
               i \notin DOMAIN s.annotations \/ t.annotations[i].clock # s.annotations[i].clock
        BY <2>2 DEF Grows, News
      <3>2. CASE i \notin DOMAIN r.annotations BY <3>2 DEF News
      <3>3. CASE i \in DOMAIN r.annotations
        <4>1. /\ i \in DOMAIN s.annotations
              /\ Leq(r.annotations[i].clock, s.annotations[i].clock)
              /\ Leq(s.annotations[i].clock, t.annotations[i].clock)
          BY <3>3 DEF Grows
        <4>2. r.annotations[i].clock \in VectorClock /\ s.annotations[i].clock \in VectorClock
          BY <3>3, <4>1 DEF IsStore, IsTable, Annotation
        <4>3. t.annotations[i].clock # r.annotations[i].clock
          BY <3>1, <4>1, <4>2, LeqAntisymmetric
        <4>. QED BY <4>3 DEF News
      <3>. QED BY <3>2, <3>3
    <2>. QED BY <1>3, <2>1, <2>2
  <1>. QED BY <1>1, <1>2, <1>3 DEF Grows

LEMMA WrittenStore ==
  ASSUME NEW s, IsStore(s), NEW i \in Id, NEW a \in Annotation
  PROVE  LET t == Written(s, i, a)
         IN  /\ IsStore(t)
             /\ DOMAIN t.annotations = DOMAIN s.annotations \cup {i}
             /\ t.annotations[i] = a
             /\ \A j \in DOMAIN s.annotations \ {i} : t.annotations[j] = s.annotations[j]
             /\ t.last = s.last /\ t.changed = s.changed /\ t.used = s.used
  <1>. DEFINE t == Written(s, i, a)
              u == [j \in DOMAIN s.annotations \cup {i} |-> IF j = i THEN a ELSE s.annotations[j]]
  <1>1. /\ t.annotations = u
        /\ t.last = s.last /\ t.changed = s.changed /\ t.used = s.used
        /\ t \in [annotations : {u}, last : Nat, changed : BOOLEAN, used : SUBSET Nat]
    BY DEF IsStore, Written
  <1>. HIDE DEF t
  <1>2. IsFiniteSet(DOMAIN s.annotations \cup {i}) BY FS_AddElement DEF IsStore, IsTable
  <1>3. IsTable(u) BY <1>2 DEF IsStore, IsTable
  <1>4. IsStore(t) BY <1>1, <1>3 DEF IsStore
  <1>5. /\ DOMAIN t.annotations = DOMAIN s.annotations \cup {i}
        /\ t.annotations[i] = a
        /\ \A j \in DOMAIN s.annotations \ {i} : t.annotations[j] = s.annotations[j]
    BY <1>1
  <1>. QED BY <1>1, <1>4, <1>5 DEF t

\* A version may be replaced by one that covers it.
LEMMA WrittenGrows ==
  ASSUME NEW s, IsStore(s), NEW i \in Id, NEW a \in Annotation,
         i \in DOMAIN s.annotations => Leq(s.annotations[i].clock, a.clock)
  PROVE  Grows(s, Written(s, i, a))
  <1>. DEFINE t == Written(s, i, a)
  <1>1. /\ DOMAIN t.annotations = DOMAIN s.annotations \cup {i}
        /\ t.annotations[i] = a
        /\ \A j \in DOMAIN s.annotations \ {i} : t.annotations[j] = s.annotations[j]
        /\ t.used = s.used /\ t.changed = s.changed
    BY WrittenStore
  <1>. HIDE DEF t
  <1>2. \A j \in DOMAIN s.annotations : Leq(s.annotations[j].clock, s.annotations[j].clock)
    BY LeqReflexive DEF IsStore, IsTable, Annotation
  <1>3. Grows(s, t) BY <1>1, <1>2 DEF Grows
  <1>. QED BY <1>3 DEF t

\* What is published covers and exceeds what it replaces.
LEMMA PublishedStore ==
  ASSUME NEW s, IsStore(s), NEW d \in Device, NEW i \in Id, NEW a \in Annotation,
         i \in DOMAIN s.annotations =>
             Leq(s.annotations[i].clock, a.clock) /\ s.annotations[i].clock # a.clock
  PROVE  LET t == Published(s, d, i, a)
         IN  /\ IsStore(t)
             /\ Grows(s, t)
             /\ i \in DOMAIN t.annotations
             /\ t.annotations[i] = [a EXCEPT !.origin = d]
  <1>. DEFINE b == [a EXCEPT !.origin = d]
              w == Written(s, i, b)
              t == Published(s, d, i, a)
  <1>1. b \in Annotation /\ b.clock = a.clock BY DEF Annotation
  <1>. HIDE DEF b
  <1>2. /\ IsStore(w) /\ i \in DOMAIN w.annotations /\ w.annotations[i] = b
        /\ w.used = s.used
    BY <1>1, WrittenStore
  <1>3. Grows(s, w) BY <1>1, WrittenGrows
  <1>4. t = [w EXCEPT !.changed = TRUE] BY DEF Published, b
  <1>. HIDE DEF t, w
  <1>5. /\ t.annotations = w.annotations /\ t.used = w.used
        /\ t \in [annotations : {w.annotations}, last : Nat, changed : BOOLEAN, used : SUBSET Nat]
    BY <1>2, <1>4 DEF IsStore
  <1>6. IsStore(t) BY <1>2, <1>5 DEF IsStore
  <1>7. News(s.annotations, t.annotations) BY <1>1, <1>2, <1>5 DEF News
  <1>8. Grows(s, t) BY <1>3, <1>5, <1>7 DEF Grows
  <1>. QED BY <1>2, <1>5, <1>6, <1>8 DEF t, b

\* ... which leaves the other annotations alone.
LEMMA PublishedOthers ==
  ASSUME NEW s, IsStore(s), NEW d \in Device, NEW i \in Id, NEW a \in Annotation,
         NEW j \in DOMAIN s.annotations, j # i
  PROVE  Published(s, d, i, a).annotations[j] = s.annotations[j]
  <1>. DEFINE b == [a EXCEPT !.origin = d]
              w == Written(s, i, b)
  <1>1. b \in Annotation BY DEF Annotation
  <1>. HIDE DEF b
  <1>2. IsStore(w) /\ w.annotations[j] = s.annotations[j] BY <1>1, WrittenStore
  <1>3. Published(s, d, i, a) = [w EXCEPT !.changed = TRUE] BY DEF Published, b
  <1>. HIDE DEF w
  <1>. QED BY <1>2, <1>3 DEF IsStore

\* The copy of a loser is a copy: the highlight itself stays as it is.
LEMMA RetainedStore ==
  ASSUME NEW s, IsStore(s), NEW d \in Device, NEW loser \in Annotation,
         Root \in DOMAIN s.annotations
  PROVE  LET t == Retained(s, d, loser)
         IN  /\ IsStore(t)
             /\ Grows(s, t)
             /\ Root \in DOMAIN t.annotations
             /\ t.annotations[Root] = s.annotations[Root]
  <1>. DEFINE ids  == DOMAIN s.annotations
              same == {i \in ids \ {Root} : s.annotations[i].content = loser.content}
              copy == <<Rank[loser.origin], loser.stamp>>
              j    == FirstId(same)
              a    == s.annotations[j]
              b    == [a EXCEPT !.clock = Joined(@, loser.clock)]
              t    == Retained(s, d, loser)
  <1>1. CASE t = s BY <1>1, GrowsReflexive
  <1>2. CASE same # {} /\ ~Leq(loser.clock, a.clock) /\ t = Published(s, d, j, b)
    <2>1. same \subseteq Id /\ IsFiniteSet(same) BY FS_Subset DEF IsStore, IsTable
    <2>2. j \in same BY <1>2, <2>1, FirstIdIn
    <2>3. j \in Id /\ a \in Annotation /\ j # Root BY <2>1, <2>2 DEF IsStore, IsTable
    <2>. HIDE DEF j, a, t
    <2>4. /\ Joined(a.clock, loser.clock) \in VectorClock
          /\ Leq(a.clock, Joined(a.clock, loser.clock))
          /\ Leq(loser.clock, Joined(a.clock, loser.clock))
      BY <2>3, JoinedProperties DEF Annotation
    <2>5. b \in Annotation /\ Leq(a.clock, b.clock) /\ Leq(loser.clock, b.clock)
      BY <2>3, <2>4 DEF Annotation
    <2>. HIDE DEF b
    <2>6. Leq(s.annotations[j].clock, b.clock) /\ s.annotations[j].clock # b.clock
      BY <1>2, <2>5 DEF a
    <2>7. /\ IsStore(t) /\ Grows(s, t)
      BY <1>2, <2>3, <2>5, <2>6, PublishedStore
    <2>8. t.annotations[Root] = s.annotations[Root]
      BY <1>2, <2>3, <2>5, PublishedOthers
    <2>. QED BY <2>7, <2>8 DEF t, Grows
  <1>3. CASE copy \notin ids /\ t = Published(s, d, copy, loser)
    <2>1. copy \in Id /\ copy # Root BY MergeAssumption DEF Id, Root, Stamp, Annotation
    <2>. HIDE DEF t, copy
    <2>2. /\ IsStore(t) /\ Grows(s, t)
      BY <1>3, <2>1, PublishedStore
    <2>3. t.annotations[Root] = s.annotations[Root] BY <1>3, <2>1, PublishedOthers
    <2>. QED BY <2>2, <2>3 DEF t, Grows
  <1>4. \/ t = s
        \/ same # {} /\ ~Leq(loser.clock, a.clock) /\ t = Published(s, d, j, b)
        \/ copy \notin ids /\ t = Published(s, d, copy, loser)
    BY DEF Retained
  <1>. QED BY <1>1, <1>2, <1>3, <1>4

\* The version that Resolved leaves.
Resolution(current, incoming) ==
    LET winner == Winner(current, incoming)
        loser  == IF winner = incoming THEN current ELSE incoming
    IN  [winner EXCEPT !.clock = Joined(@, loser.clock)]

LEMMA ResolvedStore ==
  ASSUME NEW s, IsStore(s), NEW d \in Device, NEW i \in DOMAIN s.annotations,
         NEW incoming \in Annotation, ~Leq(incoming.clock, s.annotations[i].clock)
  PROVE  LET t == Resolved(s, d, i, incoming)
         IN  /\ IsStore(t)
             /\ Grows(s, t)
             /\ Leq(incoming.clock, t.annotations[i].clock)
             /\ t.annotations[i] = [Resolution(s.annotations[i], incoming) EXCEPT !.origin = d]
  <1>. DEFINE current == s.annotations[i]
              winner  == Winner(current, incoming)
              loser   == IF winner = incoming THEN current ELSE incoming
              kept    == IF /\ loser.content # winner.content
                            /\ ~loser.deleted
                            /\ i = Root
                         THEN Retained(s, d, loser)
                         ELSE s
              b == [winner EXCEPT !.clock = Joined(@, loser.clock)]
              t == Resolved(s, d, i, incoming)
  <1>1. t = Published(kept, d, i, b) BY DEF Resolved
  <1>2. current \in Annotation /\ i \in Id BY DEF IsStore, IsTable
  <1>3. /\ winner \in Annotation /\ loser \in Annotation
        /\ {winner, loser} = {current, incoming}
    BY <1>2, WinnerOneOf
  <1>. HIDE DEF winner, loser, t
  <1>4. /\ IsStore(kept) /\ Grows(s, kept)
        /\ i \in DOMAIN kept.annotations /\ kept.annotations[i] = current
    BY <1>3, RetainedStore, GrowsReflexive
  <1>5. /\ Joined(winner.clock, loser.clock) \in VectorClock
        /\ Leq(winner.clock, Joined(winner.clock, loser.clock))
        /\ Leq(loser.clock, Joined(winner.clock, loser.clock))
    BY <1>3, JoinedProperties DEF Annotation
  <1>6. b \in Annotation /\ b.clock = Joined(winner.clock, loser.clock)
    BY <1>3, <1>5 DEF Annotation
  <1>7. b = Resolution(current, incoming) BY DEF Resolution, winner, loser
  <1>. HIDE DEF b, current, kept
  <1>8. /\ Leq(current.clock, b.clock) /\ Leq(incoming.clock, b.clock)
        /\ current.clock # b.clock
    <2>1. Leq(current.clock, b.clock) /\ Leq(incoming.clock, b.clock) BY <1>3, <1>5, <1>6
    <2>. QED BY <2>1 DEF current
  <1>9. /\ IsStore(t) /\ Grows(kept, t)
        /\ t.annotations[i] = [b EXCEPT !.origin = d]
    BY <1>1, <1>2, <1>4, <1>6, <1>8, PublishedStore
  <1>10. t.annotations[i].clock = b.clock BY <1>6, <1>9 DEF Annotation
  <1>11. Grows(s, t) BY <1>4, <1>9, GrowsTransitive
  <1>. QED BY <1>8, <1>9, <1>10, <1>11, <1>7 DEF t, current

LEMMA TickedStore ==
  ASSUME NEW s, IsStore(s), NEW observed \in Nat
  PROVE  LET t == Ticked(s, observed)
         IN  IsStore(t) /\ t.annotations = s.annotations /\ t.used = s.used /\ Grows(s, t)
  <1>. DEFINE m == Max({s.last, observed})
              t == Ticked(s, observed)
  <1>1. m \in Nat BY MaxOfTwo DEF IsStore
  <1>2. t = IF Skewed THEN s ELSE [s EXCEPT !.last = m] BY DEF Ticked
  <1>. HIDE DEF m, t
  <1>3. /\ t.annotations = s.annotations /\ t.used = s.used /\ t.changed = s.changed
        /\ t \in [annotations : {s.annotations}, last : Nat, changed : BOOLEAN, used : SUBSET Nat]
    BY <1>1, <1>2 DEF IsStore
  <1>4. IsStore(t) BY <1>3 DEF IsStore
  <1>5. Grows(s, t) BY <1>3, GrowsReflexive DEF Grows
  <1>. QED BY <1>3, <1>4, <1>5 DEF t

LEMMA MergedStore ==
  ASSUME NEW s, IsStore(s), NEW d \in Device, NEW i \in Id, NEW incoming \in Annotation
  PROVE  LET t == Merged(s, d, i, incoming)
         IN  /\ IsStore(t)
             /\ Grows(s, t)
             /\ i \in DOMAIN t.annotations
             /\ Leq(incoming.clock, t.annotations[i].clock)
  <1>. DEFINE ticked == Ticked(s, incoming.stamp)
              known  == i \in DOMAIN s.annotations
              clock  == s.annotations[i].clock
              t      == Merged(s, d, i, incoming)
  <1>1. /\ IsStore(ticked) /\ ticked.annotations = s.annotations /\ Grows(s, ticked)
        /\ incoming.clock \in VectorClock
    BY TickedStore DEF Annotation, Stamp
  <1>2. t = IF known /\ Leq(incoming.clock, clock)
            THEN ticked
            ELSE IF known => Leq(clock, incoming.clock)
                 THEN Written(ticked, i, incoming)
                 ELSE Resolved(ticked, d, i, incoming)
    BY DEF Merged
  <1>. HIDE DEF t, ticked
  <1>3. CASE known /\ Leq(incoming.clock, clock) BY <1>1, <1>2, <1>3 DEF t
  <1>4. CASE ~(known /\ Leq(incoming.clock, clock)) /\ (known => Leq(clock, incoming.clock))
    <2>1. t = Written(ticked, i, incoming) BY <1>2, <1>4
    <2>2. IsStore(t) /\ i \in DOMAIN t.annotations /\ t.annotations[i] = incoming
      BY <1>1, <2>1, WrittenStore
    <2>3. Grows(ticked, t) BY <1>1, <1>4, <2>1, WrittenGrows
    <2>4. Grows(s, t) BY <1>1, <2>2, <2>3, GrowsTransitive
    <2>. QED BY <1>1, <2>2, <2>4, LeqReflexive DEF t
  <1>5. CASE ~(known /\ Leq(incoming.clock, clock)) /\ ~(known => Leq(clock, incoming.clock))
    <2>1. /\ t = Resolved(ticked, d, i, incoming) /\ i \in DOMAIN ticked.annotations
          /\ ~Leq(incoming.clock, ticked.annotations[i].clock)
      BY <1>1, <1>2, <1>5
    <2>2. /\ IsStore(t) /\ Grows(ticked, t)
          /\ Leq(incoming.clock, t.annotations[i].clock)
      BY <1>1, <2>1, ResolvedStore
    <2>3. Grows(s, t) BY <1>1, <2>2, GrowsTransitive
    <2>. QED BY <2>1, <2>2, <2>3 DEF Grows, t
  <1>. QED BY <1>3, <1>4, <1>5

\* More stamps are offered than are used, so one is free.
LEMMA FreeStamp ==
  ASSUME NEW s, IsStore(s)
  PROVE  LET next == Min(Free(s, s.last + 1 + Cardinality(s.used)))
         IN  next \in Nat /\ s.last < next
  <1>. DEFINE n == Cardinality(s.used)
              X == (s.last + 1)..(s.last + 1 + n)
  <1>1. n \in Nat /\ s.last \in Nat BY FS_CardinalityType DEF IsStore
  <1>. HIDE DEF n
  <1>2. Cardinality(X) = n + 1 BY <1>1, FS_Interval
  <1>3. ~(X \subseteq s.used)
    <2>. HIDE DEF X
    <2>1. X \subseteq s.used => Cardinality(X) <= n BY FS_Subset DEF IsStore, n
    <2>. QED BY <1>1, <1>2, <2>1
  <1>4. Free(s, s.last + 1 + n) = X \ s.used BY DEF Free
  <1>5. X \ s.used # {} /\ X \ s.used \subseteq Nat BY <1>1, <1>3
  <1>. HIDE DEF X
  <1>6. Min(X \ s.used) \in X BY <1>5, MinProperties
  <1>. QED BY <1>1, <1>4, <1>6 DEF n, X

LEMMA CompactedOneStore ==
  ASSUME NEW s, IsStore(s), NEW d \in Device, NEW i \in DOMAIN s.annotations
  PROVE  LET t == CompactedOne(s, d, i)
         IN  IsStore(t) /\ Grows(s, t)
  <1>. DEFINE table == s.annotations
              survivors == {j \in Live(table) : Precedes(j, i) /\ table[j].content = table[i].content}
              j     == FirstId(survivors)
              clock == Joined(table[j].clock, table[i].clock)
              next  == Min(Free(s, s.last + 1 + Cardinality(s.used)))
              b     == [table[j] EXCEPT !.clock = clock]
              met   == IF clock = table[j].clock THEN s ELSE Published(s, d, j, b)
              a     == [table[i] EXCEPT !.clock = Advanced(clock, d), !.stamp = next,
                                        !.deleted = TRUE, !.origin = d]
              w     == Written(met, i, a)
              t     == CompactedOne(s, d, i)
  <1>1. t = IF survivors = {}
            THEN s
            ELSE [w EXCEPT !.last = next, !.changed = TRUE, !.used = @ \cup {next}]
    BY DEF CompactedOne
  <1>2. CASE survivors = {} BY <1>1, <1>2, GrowsReflexive
  <1>3. CASE survivors # {}
    <2>1. survivors \subseteq DOMAIN table BY DEF Live
    <2>2. survivors \subseteq Id /\ IsFiniteSet(survivors)
      BY <2>1, FS_Subset DEF IsStore, IsTable
    <2>3. j \in survivors BY <1>3, <2>2, FirstIdIn
    <2>4. /\ i \in Id /\ j \in Id /\ j \in DOMAIN table
          /\ table[i] \in Annotation /\ table[j] \in Annotation
      BY <2>1, <2>2, <2>3 DEF IsStore, IsTable
    <2>5. j # i
      <3>1. Precedes(j, i) BY <2>3
      <3>2. ~Precedes(i, i) BY <2>4 DEF Precedes, Id, Stamp
      <3>. QED BY <3>1, <3>2
    <2>6. next \in Nat BY FreeStamp
    <2>. HIDE DEF j, next, survivors
    <2>7. /\ clock \in VectorClock
          /\ Leq(table[j].clock, clock) /\ Leq(table[i].clock, clock)
      BY <2>4, JoinedProperties DEF Annotation
    <2>8. b \in Annotation /\ b.clock = clock BY <2>4, <2>7 DEF Annotation
    <2>. HIDE DEF clock, b
    <2>9. /\ IsStore(met) /\ Grows(s, met)
          /\ i \in DOMAIN met.annotations /\ met.annotations[i] = table[i]
      <3>1. CASE met = s BY <3>1, GrowsReflexive
      <3>2. CASE clock # table[j].clock /\ met = Published(s, d, j, b)
        <4>. HIDE DEF met
        <4>1. Leq(s.annotations[j].clock, b.clock) /\ s.annotations[j].clock # b.clock
          BY <2>7, <2>8, <3>2
        <4>2. /\ IsStore(met) /\ Grows(s, met)
          BY <2>4, <2>8, <3>2, <4>1, PublishedStore
        <4>3. met.annotations[i] = s.annotations[i]
          BY <2>4, <2>5, <2>8, <3>2, PublishedOthers
        <4>. QED BY <4>2, <4>3 DEF Grows
      <3>. QED BY <3>1, <3>2
    <2>. HIDE DEF met
    <2>10. /\ Advanced(clock, d) \in VectorClock /\ Leq(clock, Advanced(clock, d))
           /\ Leq(table[i].clock, Advanced(clock, d))
           /\ table[i].clock # Advanced(clock, d)
      <3>1. /\ Advanced(clock, d) \in VectorClock /\ Leq(clock, Advanced(clock, d))
            /\ ~Leq(Advanced(clock, d), clock)
        BY <2>7, AdvancedProperties
      <3>2. table[i].clock \in VectorClock BY <2>4 DEF Annotation
      <3>. QED BY <2>7, <3>1, <3>2, LeqTransitive
    <2>11. a \in Annotation /\ a.clock = Advanced(clock, d)
      BY <2>4, <2>6, <2>10 DEF Annotation, Stamp
    <2>. HIDE DEF a
    <2>12. IsStore(w) /\ i \in DOMAIN w.annotations /\ w.annotations[i] = a
      <3>1. i \in Id /\ IsStore(met) /\ a \in Annotation BY <2>4, <2>9, <2>11
      <3>. QED BY <3>1, WrittenStore
    <2>13. Grows(met, w) BY <2>4, <2>9, <2>10, <2>11, WrittenGrows
    <2>14. Grows(s, w) BY <2>9, <2>12, <2>13, GrowsTransitive
    <2>15. t = [w EXCEPT !.last = next, !.changed = TRUE, !.used = @ \cup {next}]
      BY <1>1, <1>3
    <2>. HIDE DEF w, t
    <2>16. /\ t.annotations = w.annotations /\ t.used = w.used \cup {next}
           /\ t \in [annotations : {w.annotations}, last : Nat, changed : BOOLEAN, used : SUBSET Nat]
      BY <2>6, <2>12, <2>15 DEF IsStore
    <2>17. IsFiniteSet(t.used)
      <3>1. IsFiniteSet(w.used) BY <2>12 DEF IsStore
      <3>2. IsFiniteSet(w.used \cup {next}) BY <3>1, FS_AddElement
      <3>. QED BY <2>16, <3>2
    <2>18. IsStore(t) BY <2>12, <2>16, <2>17 DEF IsStore
    <2>19. News(s.annotations, t.annotations) BY <2>10, <2>11, <2>12, <2>16 DEF News
    <2>20. Grows(s, t) BY <2>14, <2>16, <2>19 DEF Grows
    <2>. QED BY <2>18, <2>20 DEF t
  <1>. QED BY <1>2, <1>3

\* Two devices that resolve the same conflict at the same time, each with its own
\* version as the current one, get the same version under the same clock, so they
\* do not take each other's resolution for a new conflict.  Only of two tombstones
\* of one text each keeps its own stamp (merge, the concurrent arm).
THEOREM ResolvedAlike ==
  ASSUME NEW s, IsStore(s), NEW t, IsStore(t), NEW d \in Device, NEW e \in Device,
         NEW i \in DOMAIN s.annotations, i \in DOMAIN t.annotations,
         NEW a, a = s.annotations[i], NEW b, b = t.annotations[i],
         ~Leq(a.clock, b.clock), ~Leq(b.clock, a.clock),
         a.stamp # b.stamp,
         ~(a.content = b.content /\ a.deleted /\ b.deleted)
  PROVE  LET x == Resolved(s, d, i, b).annotations[i]
             y == Resolved(t, e, i, a).annotations[i]
         IN  Version(x) = Version(y) /\ x.clock = y.clock
  <1>. DEFINE x == Resolved(s, d, i, b).annotations[i]
              y == Resolved(t, e, i, a).annotations[i]
  <1>1. a \in Annotation /\ b \in Annotation BY DEF IsStore, IsTable
  <1>2. Winner(a, b) = Winner(b, a) BY <1>1 DEF Winner, Annotation, Stamp
  <1>. DEFINE c == Resolution(a, b)
  <1>3. c \in Annotation
    <2>1. Winner(a, b) \in Annotation BY <1>1, WinnerOneOf
    <2>. QED BY <1>1, <2>1, JoinedProperties DEF Resolution, Annotation
  <1>4. Resolution(b, a) = c
    <2>1. a # b BY <1>1 DEF Annotation
    <2>2. Winner(a, b) = a \/ Winner(a, b) = b BY WinnerOneOf
    <2>. QED BY <1>2, <2>1, <2>2 DEF Resolution
  <1>. HIDE DEF c
  <1>5. x = [c EXCEPT !.origin = d] BY <1>1, ResolvedStore DEF c
  <1>6. y = [c EXCEPT !.origin = e] BY <1>1, <1>4, ResolvedStore
  <1>. HIDE DEF x, y
  <1>7. Version(x) = Version(c) /\ x.clock = c.clock BY <1>3, <1>5 DEF Version, Annotation
  <1>8. Version(y) = Version(c) /\ y.clock = c.clock BY <1>3, <1>6 DEF Version, Annotation
  <1>. QED BY <1>7, <1>8 DEF x, y

-----------------------------------------------------------------------------
(* Files: merging and compaction go through annotations one by one *)

FoldOne(kind, d, incoming, i, s) ==
    IF kind = "merge" THEN Merged(s, d, i, incoming[i]) ELSE CompactedOne(s, d, i)

FoldStep(kind, store, d, incoming, g, s) ==
    IF s = {}
    THEN store
    ELSE FoldOne(kind, d, incoming, LastId(s), g[s \ {LastId(s)}])

IsFold(kind, store, d, incoming, S, g) ==
    g = [s \in SUBSET S |-> FoldStep(kind, store, d, incoming, g, s)]

\* The recursive function of a fold exists: it does on the sets of up to n ids, for
\* every n.
LEMMA FoldExists ==
  ASSUME NEW kind, NEW store, NEW d, NEW incoming,
         NEW S, S \subseteq Id, IsFiniteSet(S)
  PROVE  \E g : IsFold(kind, store, d, incoming, S, g)
  <1>. DEFINE Small(n) == {s \in SUBSET S : Cardinality(s) <= n}
              One(g, s) == FoldStep(kind, store, d, incoming, g, s)
              Solves(g, X) == g = [s \in X |-> One(g, s)]
              A == {n \in Nat : \E g : Solves(g, Small(n))}
  <1>1. ASSUME NEW s \in SUBSET S
        PROVE  /\ IsFiniteSet(s) /\ Cardinality(s) \in Nat
               /\ Cardinality(s) = 0 <=> s = {}
               /\ s # {} => /\ s \ {LastId(s)} \in SUBSET S
                            /\ Cardinality(s \ {LastId(s)}) = Cardinality(s) - 1
    <2>1. IsFiniteSet(s) BY FS_Subset
    <2>. QED BY <2>1, FS_CardinalityType, FS_EmptySet, FS_RemoveElement, LastIdIn
  <1>2. 0 \in A
    <2>1. ASSUME NEW s \in SUBSET S, Cardinality(s) <= 0 PROVE s = {}
      <3>1. Cardinality(s) \in Nat /\ (Cardinality(s) = 0 <=> s = {}) BY <1>1
      <3>. QED BY <2>1, <3>1
    <2>. DEFINE g == [s \in Small(0) |-> store]
    <2>2. \A s \in Small(0) : One(g, s) = store BY <2>1 DEF FoldStep
    <2>. HIDE DEF Small
    <2>3. Solves(g, Small(0)) BY <2>2
    <2>. QED BY <2>3
  <1>3. ASSUME NEW n \in Nat, n \in A PROVE n + 1 \in A
    <2>1. PICK f : Solves(f, Small(n)) BY <1>3
    <2>. DEFINE g == [s \in Small(n + 1) |-> One(f, s)]
    <2>2. ASSUME NEW s \in Small(n + 1) PROVE One(f, s) = One(g, s)
      <3>1. CASE s = {} BY <3>1 DEF FoldStep
      <3>2. CASE s # {}
        <4>. DEFINE r == s \ {LastId(s)}
        <4>1. /\ Cardinality(s) \in Nat /\ Cardinality(s) <= n + 1
              /\ r \in SUBSET S /\ Cardinality(r) = Cardinality(s) - 1
          BY <1>1, <3>2
        <4>2. r \in Small(n) /\ r \in Small(n + 1) BY <4>1
        <4>3. f[r] = One(f, r) BY <2>1, <4>2
        <4>4. g[r] = One(f, r) BY <4>2
        <4>. QED BY <3>2, <4>3, <4>4 DEF FoldStep
      <3>. QED BY <3>1, <3>2
    <2>. HIDE DEF Small
    <2>3. g = [s \in Small(n + 1) |-> One(g, s)] BY <2>2
    <2>. HIDE DEF g
    <2>4. Solves(g, Small(n + 1)) BY <2>3
    <2>. QED BY <2>4
  <1>4. Cardinality(S) \in A
    <2>. HIDE DEF A
    <2>1. Nat \subseteq A BY <1>2, <1>3, NatSetInduction
    <2>. QED BY <1>1, <2>1
  <1>5. Small(Cardinality(S)) = SUBSET S
    <2>1. \A s \in SUBSET S : Cardinality(s) <= Cardinality(S) BY FS_Subset
    <2>. QED BY <2>1
  <1>6. \E g : Solves(g, SUBSET S)
    <2>. HIDE DEF Small
    <2>. QED BY <1>4, <1>5
  <1>. QED BY <1>6 DEF IsFold

\* The result of MergedFile before it compacts.
MergedAll(store, d, incoming) ==
    InOrder(LAMBDA i, s : Merged(s, d, i, incoming[i]), store, DOMAIN incoming)

LEMMA MergedAllFold ==
  ASSUME NEW store, NEW d, NEW incoming, IsTable(incoming)
  PROVE  \E g : /\ MergedAll(store, d, incoming) = g[DOMAIN incoming]
                /\ \A s \in SUBSET DOMAIN incoming :
                      g[s] = FoldStep("merge", store, d, incoming, g, s)
  <1>. DEFINE S == DOMAIN incoming
              One(g, s) == IF s = {}
                           THEN store
                           ELSE Merged(g[s \ {LastId(s)}], d, LastId(s), incoming[LastId(s)])
              h == CHOOSE g : g = [s \in SUBSET S |-> One(g, s)]
  <1>1. MergedAll(store, d, incoming) = h[S] BY DEF MergedAll, InOrder, MapThenFoldSet
  <1>2. \A g, s : One(g, s) = FoldStep("merge", store, d, incoming, g, s)
    BY DEF FoldStep, FoldOne
  <1>3. PICK f : IsFold("merge", store, d, incoming, S, f) BY FoldExists DEF IsTable
  <1>4. f = [s \in SUBSET S |-> One(f, s)]
    <2>. HIDE DEF One
    <2>. QED BY <1>2, <1>3 DEF IsFold
  <1>5. h = [s \in SUBSET S |-> One(h, s)] BY <1>4
  <1>. HIDE DEF h, One
  <1>6. \A s \in SUBSET S : h[s] = FoldStep("merge", store, d, incoming, h, s)
    BY <1>2, <1>5
  <1>. QED BY <1>1, <1>6

LEMMA CompactedFold ==
  ASSUME NEW store, IsStore(store), NEW d
  PROVE  \E g : /\ Compacted(store, d) = g[Live(store.annotations)]
                /\ \A s \in SUBSET Live(store.annotations) :
                      g[s] = FoldStep("compact", store, d, {}, g, s)
  <1>. DEFINE S == Live(store.annotations)
              One(g, s) == IF s = {}
                           THEN store
                           ELSE CompactedOne(g[s \ {LastId(s)}], d, LastId(s))
              h == CHOOSE g : g = [s \in SUBSET S |-> One(g, s)]
  <1>1. Compacted(store, d) = h[S] BY DEF Compacted, InOrder, MapThenFoldSet
  <1>2. \A g, s : One(g, s) = FoldStep("compact", store, d, {}, g, s)
    BY DEF FoldStep, FoldOne
  <1>3. S \subseteq Id /\ IsFiniteSet(S) BY FS_Subset DEF IsStore, IsTable, Live
  <1>. HIDE DEF S
  <1>4. PICK f : IsFold("compact", store, d, {}, S, f) BY <1>3, FoldExists
  <1>5. f = [s \in SUBSET S |-> One(f, s)]
    <2>. HIDE DEF One
    <2>. QED BY <1>2, <1>4 DEF IsFold
  <1>6. h = [s \in SUBSET S |-> One(h, s)] BY <1>5
  <1>. HIDE DEF h, One
  <1>7. \A s \in SUBSET S : h[s] = FoldStep("compact", store, d, {}, h, s)
    BY <1>2, <1>6
  <1>. QED BY <1>1, <1>7 DEF S

LEMMA CompactedStore ==
  ASSUME NEW store, IsStore(store), NEW d \in Device
  PROVE  /\ IsStore(Compacted(store, d))
         /\ Grows(store, Compacted(store, d))
         /\ Live(store.annotations) = {} => Compacted(store, d) = store
  <1>. DEFINE S == Live(store.annotations)
  <1>1. S \subseteq Id /\ IsFiniteSet(S) /\ S \subseteq DOMAIN store.annotations
    BY FS_Subset DEF IsStore, IsTable, Live
  <1>2. PICK g : /\ Compacted(store, d) = g[S]
                 /\ \A s \in SUBSET S : g[s] = FoldStep("compact", store, d, {}, g, s)
    BY CompactedFold
  <1>. HIDE DEF S
  <1>. DEFINE A == {s \in SUBSET S : IsStore(g[s]) /\ Grows(store, g[s])}
  <1>3. g[{}] = store BY <1>2 DEF FoldStep
  <1>4. {} \in A BY <1>3, GrowsReflexive
  <1>5. ASSUME NEW s \in SUBSET S, s # {}, \A x \in s : s \ {x} \in A PROVE s \in A
    <2>. DEFINE i == LastId(s)
                r == g[s \ {i}]
    <2>1. i \in s
      <3>1. IsFiniteSet(s) BY <1>1, FS_Subset
      <3>. QED BY <1>1, <1>5, <3>1, LastIdIn
    <2>2. IsStore(r) /\ Grows(store, r) BY <1>5, <2>1
    <2>3. i \in DOMAIN r.annotations BY <1>1, <2>1, <2>2 DEF Grows
    <2>4. g[s] = CompactedOne(r, d, i) BY <1>2, <1>5 DEF FoldStep, FoldOne
    <2>. HIDE DEF i, r
    <2>5. IsStore(g[s]) /\ Grows(r, g[s]) BY <2>2, <2>3, <2>4, CompactedOneStore
    <2>6. Grows(store, g[s]) BY <2>2, <2>5, GrowsTransitive
    <2>. QED BY <2>5, <2>6
  <1>. HIDE DEF A
  <1>6. S \in A BY <1>1, <1>4, <1>5, SubsetInduction
  <1>. QED BY <1>2, <1>3, <1>6 DEF A, S

LEMMA MergedFileStore ==
  ASSUME NEW store, IsStore(store), NEW d \in Device, NEW incoming, IsTable(incoming)
  PROVE  LET t == MergedFile(store, d, incoming)
         IN  /\ IsStore(t)
             /\ Grows(store, t)
             /\ incoming = <<>> => t = store
             /\ \A i \in DOMAIN incoming :
                   /\ i \in DOMAIN t.annotations
                   /\ Leq(incoming[i].clock, t.annotations[i].clock)
  <1>. DEFINE t == MergedFile(store, d, incoming)
              S == DOMAIN incoming
              m == MergedAll(store, d, incoming)
              Covers(u, s) == \A i \in s : /\ i \in DOMAIN u.annotations
                                           /\ Leq(incoming[i].clock, u.annotations[i].clock)
  <1>1. CASE incoming = <<>>
    <2>1. t = store BY <1>1 DEF MergedFile
    <2>. QED BY <1>1, <2>1, GrowsReflexive
  <1>2. CASE incoming # <<>>
    <2>1. S \subseteq Id /\ IsFiniteSet(S) /\ \A i \in S : incoming[i] \in Annotation
      BY DEF IsTable
    <2>2. PICK g : /\ m = g[S]
                   /\ \A s \in SUBSET S : g[s] = FoldStep("merge", store, d, incoming, g, s)
      BY MergedAllFold
    <2>3. t = Compacted(m, d) BY <1>2 DEF MergedFile, MergedAll
    <2>. HIDE DEF S, t, m
    <2>. DEFINE A == {s \in SUBSET S : IsStore(g[s]) /\ Grows(store, g[s]) /\ Covers(g[s], s)}
    <2>4. {} \in A
      <3>1. g[{}] = store BY <2>2 DEF FoldStep
      <3>. QED BY <3>1, GrowsReflexive
    <2>5. ASSUME NEW s \in SUBSET S, s # {}, \A x \in s : s \ {x} \in A PROVE s \in A
      <3>. DEFINE i == LastId(s)
                  r == g[s \ {i}]
      <3>1. i \in s
        <4>1. IsFiniteSet(s) BY <2>1, FS_Subset
        <4>. QED BY <2>1, <2>5, <4>1, LastIdIn
      <3>2. IsStore(r) /\ Grows(store, r) /\ Covers(r, s \ {i}) BY <2>5, <3>1
      <3>3. g[s] = Merged(r, d, i, incoming[i]) BY <2>2, <2>5 DEF FoldStep, FoldOne
      <3>4. i \in Id /\ incoming[i] \in Annotation BY <2>1, <3>1
      <3>. HIDE DEF i, r
      <3>5. /\ IsStore(g[s]) /\ Grows(r, g[s])
            /\ i \in DOMAIN g[s].annotations
            /\ Leq(incoming[i].clock, g[s].annotations[i].clock)
        BY <3>2, <3>3, <3>4, MergedStore
      <3>6. Grows(store, g[s]) BY <3>2, <3>5, GrowsTransitive
      <3>7. ASSUME NEW j \in s \ {i}
            PROVE  /\ j \in DOMAIN g[s].annotations
                   /\ Leq(incoming[j].clock, g[s].annotations[j].clock)
        <4>1. /\ j \in DOMAIN r.annotations /\ j \in DOMAIN g[s].annotations
              /\ Leq(incoming[j].clock, r.annotations[j].clock)
              /\ Leq(r.annotations[j].clock, g[s].annotations[j].clock)
          BY <3>2, <3>5 DEF Grows
        <4>2. /\ incoming[j].clock \in VectorClock
              /\ r.annotations[j].clock \in VectorClock
              /\ g[s].annotations[j].clock \in VectorClock
          BY <2>1, <3>2, <3>5, <4>1 DEF IsStore, IsTable, Annotation
        <4>. QED BY <4>1, <4>2, LeqTransitive
      <3>. QED BY <3>5, <3>6, <3>7
    <2>. HIDE DEF A
    <2>6. S \in A BY <2>1, <2>4, <2>5, SubsetInduction
    <2>7. IsStore(m) /\ Grows(store, m) /\ Covers(m, S) BY <2>2, <2>6 DEF A
    <2>8. IsStore(t) /\ Grows(m, t) BY <2>3, <2>7, CompactedStore
    <2>9. Grows(store, t) BY <2>7, <2>8, GrowsTransitive
    <2>10. ASSUME NEW i \in S
           PROVE  /\ i \in DOMAIN t.annotations
                  /\ Leq(incoming[i].clock, t.annotations[i].clock)
      <3>1. /\ i \in DOMAIN m.annotations /\ i \in DOMAIN t.annotations
            /\ Leq(incoming[i].clock, m.annotations[i].clock)
            /\ Leq(m.annotations[i].clock, t.annotations[i].clock)
        BY <2>7, <2>8 DEF Grows
      <3>2. /\ incoming[i].clock \in VectorClock
            /\ m.annotations[i].clock \in VectorClock
            /\ t.annotations[i].clock \in VectorClock
        BY <2>1, <2>7, <2>8, <3>1 DEF IsStore, IsTable, Annotation
      <3>. QED BY <3>1, <3>2, LeqTransitive
    <2>. QED BY <1>2, <2>8, <2>9, <2>10 DEF S, t
  <1>. QED BY <1>1, <1>2
-----------------------------------------------------------------------------
(* The invariant *)

\* The tables of all devices.
StoresOK ==
    /\ annotations = [d \in Device |-> annotations[d]]
    /\ \A d \in Device : IsTable(annotations[d])
    /\ last \in [Device -> Nat]
    /\ changed \in [Device -> BOOLEAN]
    /\ used \subseteq Nat
    /\ IsFiniteSet(used)

FilesOK ==
    /\ file = [d \in Device |-> file[d]]
    /\ \A d \in Device : IsTable(file[d])
    /\ number \in [Device -> Nat]
    /\ applied \in [Device -> [Device -> Nat]]
    /\ \A d, p \in Device : applied[d][p] <= number[p]

\* Nothing exists before the highlight is made.
Unmade ==
    used = {} => \A d \in Device : annotations[d] = <<>> /\ file[d] = <<>> /\ ~changed[d]

MergeInv == StoresOK /\ FilesOK /\ Unmade /\ MergedCovered

\* What HistoryGrows and PublishesNews say of a step.
Grown ==
    \A d \in Device :
       /\ changed'[d] /\ ~changed[d] => News(annotations[d], annotations'[d])
       /\ \A i \in DOMAIN annotations[d] :
             /\ i \in DOMAIN annotations'[d]
             /\ Leq(annotations[d][i].clock, annotations'[d][i].clock)

LEMMA StoreStore ==
  ASSUME StoresOK, NEW d \in Device
  PROVE  /\ IsStore(Store(d))
         /\ Store(d).annotations = annotations[d]
         /\ Store(d).used = used
         /\ Store(d).last = last[d]
         /\ Store(d).changed = changed[d]
  BY DEF StoresOK, Store, IsStore

\* A transaction of d that forgets nothing.
LEMMA CommitStore ==
  ASSUME StoresOK, NEW d \in Device, NEW t, IsStore(t), Grows(Store(d), t), Commit(d, t)
  PROVE  /\ StoresOK'
         /\ Grown
         /\ annotations'[d] = t.annotations
         /\ used \subseteq used' /\ used' = t.used
  <1>1. /\ annotations' = [annotations EXCEPT ![d] = t.annotations]
        /\ last' = [last EXCEPT ![d] = t.last]
        /\ changed' = [changed EXCEPT ![d] = t.changed]
        /\ used' = t.used
    BY DEF Commit
  <1>2. /\ IsTable(t.annotations) /\ t.last \in Nat /\ t.changed \in BOOLEAN
        /\ t.used \subseteq Nat /\ IsFiniteSet(t.used)
    BY DEF IsStore
  <1>3. /\ annotations'[d] = t.annotations
        /\ \A e \in Device \ {d} : annotations'[e] = annotations[e]
        /\ annotations' = [e \in Device |-> annotations'[e]]
    BY <1>1 DEF StoresOK
  <1>4. last' \in [Device -> Nat] /\ changed' \in [Device -> BOOLEAN]
    BY <1>1, <1>2 DEF StoresOK
  <1>5. \A e \in Device : IsTable(annotations'[e]) BY <1>2, <1>3 DEF StoresOK
  <1>6. StoresOK' BY <1>1, <1>2, <1>3, <1>4, <1>5 DEF StoresOK
  <1>7. ASSUME NEW e \in Device, NEW i \in DOMAIN annotations[e]
        PROVE  /\ i \in DOMAIN annotations'[e]
               /\ Leq(annotations[e][i].clock, annotations'[e][i].clock)
    <2>1. CASE e = d BY <1>3, <2>1, StoreStore DEF Grows
    <2>2. CASE e # d
      <3>1. annotations[e][i].clock \in VectorClock BY DEF StoresOK, IsTable, Annotation
      <3>. QED BY <1>3, <2>2, <3>1, LeqReflexive
    <2>. QED BY <2>1, <2>2
  <1>8. used \subseteq used' BY <1>1, StoreStore DEF Grows
  <1>9. ASSUME NEW e \in Device, changed'[e] # changed[e]
        PROVE  News(annotations[e], annotations'[e])
    <2>1. e = d BY <1>1, <1>9 DEF StoresOK
    <2>2. t.changed # Store(d).changed BY <1>1, <1>9, <2>1, StoreStore DEF StoresOK
    <2>. QED BY <1>3, <2>1, <2>2, StoreStore DEF Grows
  <1>. QED BY <1>1, <1>3, <1>6, <1>7, <1>8, <1>9 DEF Grown

\* What was covered stays covered.
LEMMA CoveredStays ==
  ASSUME StoresOK, StoresOK', Grown, NEW d \in Device, NEW t, IsTable(t),
         \A i \in DOMAIN t : /\ i \in DOMAIN annotations[d]
                             /\ Leq(t[i].clock, annotations[d][i].clock)
  PROVE  \A i \in DOMAIN t : /\ i \in DOMAIN annotations'[d]
                             /\ Leq(t[i].clock, annotations'[d][i].clock)
  <1>. TAKE i \in DOMAIN t
  <1>1. /\ i \in DOMAIN annotations[d] /\ i \in DOMAIN annotations'[d]
        /\ Leq(t[i].clock, annotations[d][i].clock)
        /\ Leq(annotations[d][i].clock, annotations'[d][i].clock)
    BY DEF Grown
  <1>2. /\ t[i].clock \in VectorClock
        /\ annotations[d][i].clock \in VectorClock
        /\ annotations'[d][i].clock \in VectorClock
    BY <1>1 DEF StoresOK, IsTable, Annotation
  <1>. QED BY <1>1, <1>2, LeqTransitive

\* A step that touches no file.
LEMMA LocalStep ==
  ASSUME MergeInv, StoresOK', Grown, UNCHANGED <<file, number, applied>>,
         used' # {} \/ UNCHANGED <<annotations, changed, used>>
  PROVE  MergeInv'
  <1>1. FilesOK' BY DEF MergeInv, FilesOK
  <1>2. Unmade' BY DEF MergeInv, Unmade
  <1>3. MergedCovered'
    <2>. SUFFICES ASSUME NEW d \in Device, NEW p \in Device,
                         p = d \/ applied[d][p] = number[p]
                  PROVE  \A i \in DOMAIN file[p] :
                            /\ i \in DOMAIN annotations'[d]
                            /\ Leq(file[p][i].clock, annotations'[d][i].clock)
      BY DEF MergedCovered
    <2>1. IsTable(file[p]) BY DEF MergeInv, FilesOK
    <2>2. \A i \in DOMAIN file[p] : /\ i \in DOMAIN annotations[d]
                                    /\ Leq(file[p][i].clock, annotations[d][i].clock)
      BY DEF MergeInv, MergedCovered
    <2>. QED BY <2>1, <2>2, CoveredStays DEF MergeInv
  <1>. QED BY <1>1, <1>2, <1>3 DEF MergeInv

LEMMA WriteStore ==
  ASSUME NEW s, IsStore(s), NEW i \in Id, NEW a \in Annotation,
         i \in DOMAIN s.annotations =>
             Leq(s.annotations[i].clock, a.clock) /\ s.annotations[i].clock # a.clock
  PROVE  LET w == Written(s, i, a)
             t == [w EXCEPT !.last = a.stamp, !.changed = TRUE, !.used = @ \cup {a.stamp}]
         IN  /\ IsStore(t)
             /\ Grows(s, t)
             /\ t.annotations = w.annotations
             /\ t.changed
             /\ t.used # {}
  <1>. DEFINE w == Written(s, i, a)
              t == [w EXCEPT !.last = a.stamp, !.changed = TRUE, !.used = @ \cup {a.stamp}]
  <1>1. /\ IsStore(w) /\ Grows(s, w)
        /\ i \in DOMAIN w.annotations /\ w.annotations[i] = a
    BY WrittenStore, WrittenGrows
  <1>. HIDE DEF w
  <1>2. a.stamp \in Nat BY DEF Annotation, Stamp
  <1>3. /\ t.annotations = w.annotations /\ t.used = w.used \cup {a.stamp}
        /\ t.changed = TRUE
        /\ t \in [annotations : {w.annotations}, last : Nat, changed : BOOLEAN, used : SUBSET Nat]
    BY <1>1, <1>2 DEF IsStore
  <1>. HIDE DEF t
  <1>4. IsFiniteSet(t.used)
    <2>1. IsFiniteSet(w.used) BY <1>1 DEF IsStore
    <2>2. IsFiniteSet(w.used \cup {a.stamp}) BY <2>1, FS_AddElement
    <2>. QED BY <1>3, <2>2
  <1>5. IsStore(t) BY <1>1, <1>3, <1>4 DEF IsStore
  <1>6. Grows(s, t)
    <2>1. News(s.annotations, t.annotations) BY <1>1, <1>3 DEF News
    <2>. QED BY <1>1, <1>3, <2>1 DEF Grows
  <1>. QED BY <1>3, <1>5, <1>6 DEF t, w

\* A reader writes a version that covers and exceeds the one it replaces.
ReaderWrites ==
    \E d \in Device, i \in Id, a \in Annotation : \E contents :
       /\ a.origin = d
       /\ i \in DOMAIN annotations[d] => /\ Leq(annotations[d][i].clock, a.clock)
                                         /\ annotations[d][i].clock # a.clock
       /\ Write(d, i, a, contents)

\* The transaction in which d writes a.
Transaction(d, i, a) ==
    [Written(Store(d), i, a) EXCEPT !.last = a.stamp, !.changed = TRUE,
                                    !.used = @ \cup {a.stamp}]

LEMMA TransactionStore ==
  ASSUME MergeInv, NEW d \in Device, NEW i \in Id, NEW a \in Annotation, NEW contents,
         i \in DOMAIN annotations[d] => /\ Leq(annotations[d][i].clock, a.clock)
                                        /\ annotations[d][i].clock # a.clock,
         Write(d, i, a, contents)
  PROVE  LET t == Transaction(d, i, a)
         IN  /\ IsStore(t) /\ Grows(Store(d), t) /\ Commit(d, t)
             /\ t.annotations = Written(Store(d), i, a).annotations
             /\ t.changed
             /\ t.used # {}
  <1>1. IsStore(Store(d)) /\ Store(d).annotations = annotations[d]
    BY StoreStore DEF MergeInv
  <1>2. Commit(d, Transaction(d, i, a)) BY DEF Write, Transaction
  <1>. DEFINE s == Store(d)
  <1>3. Transaction(d, i, a) = [Written(s, i, a) EXCEPT !.last = a.stamp, !.changed = TRUE,
                                                        !.used = @ \cup {a.stamp}]
    BY DEF Transaction
  <1>. HIDE DEF s
  <1>4. /\ IsStore(s)
        /\ i \in DOMAIN s.annotations => /\ Leq(s.annotations[i].clock, a.clock)
                                         /\ s.annotations[i].clock # a.clock
    BY <1>1 DEF s
  <1>. DEFINE t == Transaction(d, i, a)
  <1>. HIDE DEF t
  <1>5. t = [Written(s, i, a) EXCEPT !.last = a.stamp, !.changed = TRUE,
                                     !.used = @ \cup {a.stamp}]
    BY <1>3 DEF t
  <1>6. /\ IsStore(t) /\ Grows(s, t) /\ t.annotations = Written(s, i, a).annotations
        /\ t.changed /\ t.used # {}
    BY <1>4, <1>5, WriteStore
  <1>. QED BY <1>2, <1>6 DEF s, t

LEMMA WriteStep ==
  ASSUME MergeInv, ReaderWrites
  PROVE  MergeInv' /\ Grown
  <1>1. PICK d \in Device, i \in Id, a \in Annotation : \E contents :
           /\ a.origin = d
           /\ i \in DOMAIN annotations[d] => /\ Leq(annotations[d][i].clock, a.clock)
                                             /\ annotations[d][i].clock # a.clock
           /\ Write(d, i, a, contents)
    BY DEF ReaderWrites
  <1>. DEFINE t == Transaction(d, i, a)
  <1>2. IsStore(t) /\ Grows(Store(d), t) /\ Commit(d, t) /\ t.used # {}
    BY <1>1, TransactionStore
  <1>3. UNCHANGED <<file, number, applied>> BY <1>1 DEF Write
  <1>. HIDE DEF t
  <1>4. StoresOK' /\ Grown /\ used' = t.used BY <1>2, CommitStore DEF MergeInv
  <1>. QED BY <1>2, <1>3, <1>4, LocalStep

LEMMA InitMergeInv == Init => MergeInv
  <1>. SUFFICES ASSUME Init PROVE MergeInv OBVIOUS
  <1>1. IsTable(<<>>)
    <2>1. DOMAIN <<>> = {} OBVIOUS
    <2>. QED BY <2>1, FS_EmptySet DEF IsTable
  <1>2. StoresOK BY <1>1, FS_EmptySet DEF Init, StoresOK
  <1>3. FilesOK BY <1>1 DEF Init, FilesOK
  <1>4. Unmade BY DEF Init, Unmade
  <1>5. MergedCovered
    <2>1. \A p \in Device : DOMAIN file[p] = {} BY DEF Init
    <2>. QED BY <2>1 DEF MergedCovered
  <1>. QED BY <1>2, <1>3, <1>4, <1>5 DEF MergeInv

LEMMA CreateWrites ==
  ASSUME MergeInv, Create PROVE ReaderWrites
  <1>. PICK c \in Content :
          LET a == [content |-> c, stamp |-> 1,
                    clock |-> [d \in Device |-> IF d = Author THEN 1 ELSE 0],
                    deleted |-> FALSE, origin |-> Author]
          IN  Write(Author, Root, a, {c})
    BY DEF Create
  <1>. DEFINE a == [content |-> c, stamp |-> 1,
                    clock |-> [d \in Device |-> IF d = Author THEN 1 ELSE 0],
                    deleted |-> FALSE, origin |-> Author]
  <1>1. Author \in Device BY MergeAssumption
  <1>2. a \in Annotation /\ a.origin = Author BY <1>1 DEF Annotation, Stamp, VectorClock
  <1>3. Root \in Id BY DEF Root, Id, Stamp
  <1>4. annotations[Author] = <<>> BY <1>1 DEF MergeInv, Unmade, Create
  <1>5. Root \notin DOMAIN annotations[Author] BY <1>4
  <1>. HIDE DEF a
  <1>6. Write(Author, Root, a, {c}) BY DEF a
  <1>. QED BY <1>1, <1>2, <1>3, <1>5, <1>6 DEF ReaderWrites

LEMMA LiveVersion ==
  ASSUME MergeInv, NEW d \in Device, NEW i \in Live(annotations[d])
  PROVE  /\ i \in DOMAIN annotations[d]
         /\ i \in Id
         /\ annotations[d][i] \in Annotation
         /\ Advanced(annotations[d][i].clock, d) \in VectorClock
         /\ Leq(annotations[d][i].clock, Advanced(annotations[d][i].clock, d))
         /\ annotations[d][i].clock # Advanced(annotations[d][i].clock, d)
  <1>1. /\ i \in DOMAIN annotations[d] /\ i \in Id /\ annotations[d][i] \in Annotation
    BY DEF Live, MergeInv, StoresOK, IsTable
  <1>2. annotations[d][i].clock \in VectorClock BY <1>1 DEF Annotation
  <1>3. /\ Advanced(annotations[d][i].clock, d) \in VectorClock
        /\ Leq(annotations[d][i].clock, Advanced(annotations[d][i].clock, d))
        /\ ~Leq(Advanced(annotations[d][i].clock, d), annotations[d][i].clock)
    BY <1>2, AdvancedProperties
  <1>4. Leq(annotations[d][i].clock, annotations[d][i].clock) BY <1>2, LeqReflexive
  <1>. QED BY <1>1, <1>3, <1>4

LEMMA FreeNat ==
  ASSUME MergeInv, NEW d \in Device, NEW s \in Free(Store(d), MaxStamp)
  PROVE  s \in Nat
  <1>1. Store(d).last \in Nat BY StoreStore DEF MergeInv, StoresOK
  <1>. QED BY <1>1, MergeAssumption DEF Free

LEMMA EditWrites ==
  ASSUME MergeInv, NEW d \in Device, NEW i \in Live(annotations[d]), NEW c \in Content,
         Edit(d, i, c)
  PROVE  ReaderWrites
  <1>. DEFINE a == annotations[d][i]
  <1>1. PICK s \in Free(Store(d), MaxStamp) :
           Write(d, i, [a EXCEPT !.content = c, !.stamp = s, !.clock = Advanced(@, d),
                                 !.origin = d], {c})
    BY DEF Edit
  <1>. DEFINE b == [a EXCEPT !.content = c, !.stamp = s, !.clock = Advanced(@, d), !.origin = d]
  <1>2. /\ i \in Id /\ a \in Annotation
        /\ Advanced(a.clock, d) \in VectorClock /\ Leq(a.clock, Advanced(a.clock, d))
        /\ a.clock # Advanced(a.clock, d)
    BY LiveVersion
  <1>3. s \in Nat BY FreeNat
  <1>4. b \in Annotation /\ b.clock = Advanced(a.clock, d) /\ b.origin = d
    BY <1>2, <1>3 DEF Annotation, Stamp
  <1>5. Write(d, i, b, {c}) BY <1>1
  <1>. HIDE DEF b
  <1>. QED BY <1>2, <1>4, <1>5 DEF ReaderWrites

LEMMA DeleteWrites ==
  ASSUME MergeInv, NEW d \in Device, NEW i \in Live(annotations[d]), Delete(d, i)
  PROVE  ReaderWrites
  <1>. DEFINE a == annotations[d][i]
  <1>1. PICK s \in Free(Store(d), MaxStamp) :
           Write(d, i, [a EXCEPT !.deleted = TRUE, !.stamp = s, !.clock = Advanced(@, d),
                                 !.origin = d], {})
    BY DEF Delete
  <1>. DEFINE b == [a EXCEPT !.deleted = TRUE, !.stamp = s, !.clock = Advanced(@, d), !.origin = d]
  <1>2. /\ i \in Id /\ a \in Annotation
        /\ Advanced(a.clock, d) \in VectorClock /\ Leq(a.clock, Advanced(a.clock, d))
        /\ a.clock # Advanced(a.clock, d)
    BY LiveVersion
  <1>3. s \in Nat BY FreeNat
  <1>4. b \in Annotation /\ b.clock = Advanced(a.clock, d) /\ b.origin = d
    BY <1>2, <1>3 DEF Annotation, Stamp
  <1>5. Write(d, i, b, {}) BY <1>1
  <1>. HIDE DEF b
  <1>. QED BY <1>2, <1>4, <1>5 DEF ReaderWrites

LEMMA StepOpen ==
  ASSUME MergeInv, NEW d \in Device, Open(d)
  PROVE  MergeInv' /\ Grown
  <1>. DEFINE t == Compacted(Store(d), d)
  <1>1. StoresOK BY DEF MergeInv
  <1>2. IsStore(Store(d)) BY <1>1, StoreStore
  <1>3. /\ IsStore(t) /\ Grows(Store(d), t)
        /\ Live(Store(d).annotations) = {} => t = Store(d)
    BY <1>2, CompactedStore
  <1>4. t # Store(d) /\ Commit(d, t) /\ UNCHANGED <<file, number, applied>> BY DEF Open
  <1>. HIDE DEF t
  <1>5. StoresOK' /\ Grown /\ used \subseteq used' BY <1>1, <1>3, <1>4, CommitStore
  <1>6. used # {}
    <2>1. ASSUME used = {} PROVE Live(Store(d).annotations) = {}
      <3>1. annotations[d] = <<>> BY <2>1 DEF MergeInv, Unmade
      <3>2. Store(d).annotations = annotations[d] BY <1>1, StoreStore
      <3>. QED BY <3>1, <3>2 DEF Live
    <2>. QED BY <1>3, <1>4, <2>1
  <1>. QED BY <1>4, <1>5, <1>6, LocalStep

LEMMA StepUpload ==
  ASSUME MergeInv, NEW d \in Device, Upload(d)
  PROVE  MergeInv' /\ Grown
  <1>. DEFINE X == {i \in DOMAIN annotations[d] : annotations[d][i].origin = d}
              f == Restrict(annotations[d], X)
  <1>1. /\ changed[d]
        /\ changed' = [changed EXCEPT ![d] = FALSE]
        /\ number' = [number EXCEPT ![d] = @ + 1]
        /\ file' = [file EXCEPT ![d] = f]
        /\ UNCHANGED <<annotations, last, applied, used>>
    BY DEF Upload
  <1>2. StoresOK' BY <1>1 DEF MergeInv, StoresOK
  <1>3. Grown
    <2>1. \A e \in Device : \A i \in DOMAIN annotations[e] : annotations[e][i].clock \in VectorClock
      BY DEF MergeInv, StoresOK, IsTable, Annotation
    <2>2. \A e \in Device : changed'[e] => changed[e] BY <1>1 DEF MergeInv, StoresOK
    <2>. QED BY <1>1, <2>1, <2>2, LeqReflexive DEF Grown
  <1>4. /\ DOMAIN f = X /\ X \subseteq DOMAIN annotations[d]
        /\ \A i \in X : f[i] = annotations[d][i]
    BY DEF Restrict
  <1>. HIDE DEF f, X
  <1>5. IsTable(f)
    <2>1. IsTable(annotations[d]) BY DEF MergeInv, StoresOK
    <2>2. IsFiniteSet(X) BY <1>4, <2>1, FS_Subset DEF IsTable
    <2>. QED BY <1>4, <2>1, <2>2 DEF IsTable
  <1>6. /\ file'[d] = f /\ number'[d] = number[d] + 1
        /\ \A e \in Device \ {d} : file'[e] = file[e] /\ number'[e] = number[e]
    BY <1>1 DEF MergeInv, FilesOK
  <1>7. FilesOK'
    <2>1. file' = [e \in Device |-> file'[e]] /\ \A e \in Device : IsTable(file'[e])
      BY <1>1, <1>5, <1>6 DEF MergeInv, FilesOK
    <2>2. number' \in [Device -> Nat] BY <1>1 DEF MergeInv, FilesOK
    <2>3. \A e, p \in Device : applied[e][p] <= number'[p]
      <3>1. ASSUME NEW e \in Device, NEW p \in Device PROVE applied[e][p] <= number'[p]
        <4>1. applied[e][p] \in Nat /\ number[p] \in Nat /\ applied[e][p] <= number[p]
          BY DEF MergeInv, FilesOK
        <4>. QED BY <1>6, <4>1
      <3>. QED BY <3>1
    <2>. QED BY <1>1, <2>1, <2>2, <2>3 DEF MergeInv, FilesOK
  <1>8. Unmade'
    <2>1. used # {} BY <1>1 DEF MergeInv, Unmade
    <2>. QED BY <1>1, <2>1 DEF Unmade
  <1>9. MergedCovered'
    <2>. SUFFICES ASSUME NEW e \in Device, NEW p \in Device,
                         p = e \/ applied'[e][p] = number'[p],
                         NEW i \in DOMAIN file'[p]
                  PROVE  /\ i \in DOMAIN annotations'[e]
                         /\ Leq(file'[p][i].clock, annotations'[e][i].clock)
      BY DEF MergedCovered
    <2>1. CASE p # d BY <1>1, <1>6, <2>1 DEF MergeInv, MergedCovered
    <2>2. CASE p = d
      <3>1. e = d
        <4>1. applied[e][d] \in Nat /\ number[d] \in Nat /\ applied[e][d] <= number[d]
          BY DEF MergeInv, FilesOK
        <4>. QED BY <1>1, <1>6, <2>2, <4>1
      <3>2. /\ i \in DOMAIN annotations[d] /\ file'[p][i] = annotations[d][i]
            /\ annotations[d][i].clock \in VectorClock
        BY <1>4, <1>6, <2>2 DEF MergeInv, StoresOK, IsTable, Annotation
      <3>. QED BY <1>1, <3>1, <3>2, LeqReflexive
    <2>. QED BY <2>1, <2>2
  <1>. QED BY <1>2, <1>3, <1>7, <1>8, <1>9 DEF MergeInv

LEMMA StepMerge ==
  ASSUME MergeInv, NEW d \in Device, NEW p \in Device, Merge(d, p)
  PROVE  MergeInv' /\ Grown
  <1>. DEFINE t == MergedFile(Store(d), d, file[p])
  <1>1. StoresOK /\ IsTable(file[p]) BY DEF MergeInv, FilesOK
  <1>2. IsStore(Store(d)) BY <1>1, StoreStore
  <1>3. /\ IsStore(t) /\ Grows(Store(d), t)
        /\ file[p] = <<>> => t = Store(d)
        /\ \A i \in DOMAIN file[p] : /\ i \in DOMAIN t.annotations
                                     /\ Leq(file[p][i].clock, t.annotations[i].clock)
    BY <1>1, <1>2, MergedFileStore
  <1>4. /\ p # d
        /\ applied' = [applied EXCEPT ![d][p] = number[p]]
        /\ Commit(d, t)
        /\ UNCHANGED <<file, number>>
    BY DEF Merge
  <1>. HIDE DEF t
  <1>5. /\ StoresOK' /\ Grown /\ annotations'[d] = t.annotations /\ used \subseteq used'
        /\ used' = t.used
    BY <1>1, <1>3, <1>4, CommitStore
  <1>6. /\ applied'[d][p] = number[p]
        /\ \A e, q \in Device : ~(e = d /\ q = p) => applied'[e][q] = applied[e][q]
        /\ applied' \in [Device -> [Device -> Nat]]
    BY <1>4 DEF MergeInv, FilesOK
  <1>7. FilesOK'
    <2>1. \A e, q \in Device : applied'[e][q] <= number[q]
      <3>1. number[p] <= number[p] BY DEF MergeInv, FilesOK
      <3>. QED BY <1>6, <3>1 DEF MergeInv, FilesOK
    <2>. QED BY <1>4, <1>6, <2>1 DEF MergeInv, FilesOK
  <1>8. Unmade'
    <2>1. CASE used' # {} BY <2>1 DEF Unmade
    <2>2. CASE used' = {}
      <3>1. used = {} BY <1>5, <2>2
      <3>2. t = Store(d) BY <1>3, <3>1 DEF MergeInv, Unmade
      <3>3. annotations' = annotations /\ changed' = changed
        BY <1>4, <3>2 DEF Commit, Store, MergeInv, StoresOK
      <3>. QED BY <1>4, <3>1, <3>3 DEF MergeInv, Unmade
    <2>. QED BY <2>1, <2>2
  <1>9. MergedCovered'
    <2>. SUFFICES ASSUME NEW e \in Device, NEW q \in Device,
                         q = e \/ applied'[e][q] = number[q]
                  PROVE  \A i \in DOMAIN file[q] :
                            /\ i \in DOMAIN annotations'[e]
                            /\ Leq(file[q][i].clock, annotations'[e][i].clock)
      BY <1>4 DEF MergedCovered
    <2>1. CASE e = d /\ q = p BY <1>3, <1>5, <2>1
    <2>2. CASE ~(e = d /\ q = p)
      <3>1. q = e \/ applied[e][q] = number[q] BY <1>6, <2>2
      <3>2. \A i \in DOMAIN file[q] : /\ i \in DOMAIN annotations[e]
                                      /\ Leq(file[q][i].clock, annotations[e][i].clock)
        BY <3>1 DEF MergeInv, MergedCovered
      <3>3. IsTable(file[q]) BY DEF MergeInv, FilesOK
      <3>. QED BY <1>1, <1>5, <3>2, <3>3, CoveredStays
    <2>. QED BY <2>1, <2>2
  <1>. QED BY <1>5, <1>7, <1>8, <1>9 DEF MergeInv

LEMMA StepMergeInv == MergeInv /\ [Next]_vars => MergeInv' /\ Grown
  <1>. SUFFICES ASSUME MergeInv, [Next]_vars PROVE MergeInv' /\ Grown OBVIOUS
  <1>1. CASE Create BY <1>1, CreateWrites, WriteStep
  <1>2. ASSUME NEW d \in Device, NEW i \in Live(annotations[d]), Delete(d, i)
        PROVE  MergeInv' /\ Grown
    BY <1>2, DeleteWrites, WriteStep
  <1>3. ASSUME NEW d \in Device, NEW i \in Live(annotations[d]), NEW c \in Content, Edit(d, i, c)
        PROVE  MergeInv' /\ Grown
    BY <1>3, EditWrites, WriteStep
  <1>4. ASSUME NEW d \in Device, Open(d) PROVE MergeInv' /\ Grown BY <1>4, StepOpen
  <1>5. ASSUME NEW d \in Device, Upload(d) PROVE MergeInv' /\ Grown BY <1>5, StepUpload
  <1>6. ASSUME NEW d \in Device, NEW p \in Device, Merge(d, p) PROVE MergeInv' /\ Grown
    BY <1>6, StepMerge
  <1>7. CASE UNCHANGED vars
    <2>1. UNCHANGED <<annotations, last, changed, file, number, applied, used>>
      BY <1>7 DEF vars
    <2>2. StoresOK' BY <2>1 DEF MergeInv, StoresOK
    <2>3. Grown
      <3>1. \A d \in Device : \A i \in DOMAIN annotations[d] :
               annotations[d][i].clock \in VectorClock
        BY DEF MergeInv, StoresOK, IsTable, Annotation
      <3>. QED BY <2>1, <3>1, LeqReflexive DEF Grown
    <2>. QED BY <2>1, <2>2, <2>3, LocalStep
  <1>. QED BY <1>1, <1>2, <1>3, <1>4, <1>5, <1>6, <1>7 DEF Next

\* TypeOK: whatever is written, merged, resolved, copied and compacted, tables hold
\* annotations under the ids of the highlight and of its copies.
THEOREM MergeTypeCorrect == Spec => []TypeOK
  <1>1. Init => MergeInv BY InitMergeInv
  <1>2. MergeInv /\ [Next]_vars => MergeInv' BY StepMergeInv
  <1>3. MergeInv => TypeOK BY DEF MergeInv, StoresOK, IsTable, TypeOK
  <1>. QED BY <1>1, <1>2, <1>3, PTL DEF Spec

\* MergedCovered: a file that was merged is covered from then on, whatever the
\* devices edit, merge, resolve and compact (merge, retain_conflict, compact).
THEOREM MergedCoveredAlways == Spec => []MergedCovered
  <1>1. Init => MergeInv BY InitMergeInv
  <1>2. MergeInv /\ [Next]_vars => MergeInv' BY StepMergeInv
  <1>3. MergeInv => MergedCovered BY DEF MergeInv
  <1>. QED BY <1>1, <1>2, <1>3, PTL DEF Spec

\* HistoryGrows: no step of any device forgets an annotation or a part of its
\* history (join_clock, and what merge lets incoming versions replace).
THEOREM HistoryGrowsAlways == Spec => HistoryGrows
  <1>1. Init => MergeInv BY InitMergeInv
  <1>2. MergeInv /\ [Next]_vars => MergeInv' BY StepMergeInv
  <1>3. MergeInv /\ [Next]_vars
        => [\A d \in Device : \A i \in DOMAIN annotations[d] :
               /\ i \in DOMAIN annotations'[d]
               /\ Leq(annotations[d][i].clock, annotations'[d][i].clock)]_vars
    BY StepMergeInv DEF Grown
  <1>. QED BY <1>1, <1>2, <1>3, PTL DEF Spec, HistoryGrows

\* PublishesNews: whatever a device writes, merges, resolves and compacts, it gets
\* something to upload only with an annotation or with history it had not (publish
\* and its callers).
THEOREM PublishesNewsAlways == Spec => PublishesNews
  <1>1. Init => MergeInv BY InitMergeInv
  <1>2. MergeInv /\ [Next]_vars => MergeInv' BY StepMergeInv
  <1>3. MergeInv /\ [Next]_vars
        => [\A d \in Device : changed'[d] /\ ~changed[d] =>
               \E i \in DOMAIN annotations'[d] :
                  \/ i \notin DOMAIN annotations[d]
                  \/ annotations'[d][i].clock # annotations[d][i].clock]_vars
    BY StepMergeInv DEF Grown, News
  <1>. QED BY <1>1, <1>2, <1>3, PTL DEF Spec, PublishesNews

-----------------------------------------------------------------------------
(* Where annotations come from *)

\* When d has turned the store s into t with a file, an annotation of t is one that s
\* had, one that d has published, or one of the file that s did not cover.
From(s, t, d, incoming) ==
    /\ s.changed => t.changed
    /\ \A i \in DOMAIN t.annotations :
          \/ i \in DOMAIN s.annotations /\ t.annotations[i] = s.annotations[i]
          \/ t.annotations[i].origin = d /\ t.changed
          \/ /\ i \in DOMAIN incoming
             /\ t.annotations[i] = incoming[i]
             /\ i \in DOMAIN s.annotations =>
                    ~Leq(incoming[i].clock, s.annotations[i].clock)

LEMMA FromTransitive ==
  ASSUME NEW r, NEW s, NEW t, IsStore(r), IsStore(s), IsStore(t), NEW d, NEW incoming,
         IsTable(incoming), Grows(r, s), From(r, s, d, incoming), From(s, t, d, incoming)
  PROVE  From(r, t, d, incoming)
  <1>1. r.changed => t.changed BY DEF From
  <1>2. ASSUME NEW i \in DOMAIN t.annotations
        PROVE  \/ i \in DOMAIN r.annotations /\ t.annotations[i] = r.annotations[i]
               \/ t.annotations[i].origin = d /\ t.changed
               \/ /\ i \in DOMAIN incoming
                  /\ t.annotations[i] = incoming[i]
                  /\ i \in DOMAIN r.annotations =>
                         ~Leq(incoming[i].clock, r.annotations[i].clock)
    <2>1. CASE i \in DOMAIN s.annotations /\ t.annotations[i] = s.annotations[i]
      BY <2>1 DEF From
    <2>2. CASE t.annotations[i].origin = d /\ t.changed BY <2>2
    <2>3. CASE /\ i \in DOMAIN incoming
               /\ t.annotations[i] = incoming[i]
               /\ i \in DOMAIN s.annotations =>
                      ~Leq(incoming[i].clock, s.annotations[i].clock)
      <3>1. ASSUME i \in DOMAIN r.annotations, Leq(incoming[i].clock, r.annotations[i].clock)
            PROVE  FALSE
        <4>1. i \in DOMAIN s.annotations /\ Leq(r.annotations[i].clock, s.annotations[i].clock)
          BY <3>1 DEF Grows
        <4>2. /\ incoming[i].clock \in VectorClock
              /\ r.annotations[i].clock \in VectorClock
              /\ s.annotations[i].clock \in VectorClock
          BY <2>3, <3>1, <4>1 DEF IsStore, IsTable, Annotation
        <4>. QED BY <2>3, <3>1, <4>1, <4>2, LeqTransitive
      <3>. QED BY <2>3, <3>1
    <2>. QED BY <2>1, <2>2, <2>3 DEF From
  <1>. QED BY <1>1, <1>2 DEF From

LEMMA PublishedFrom ==
  ASSUME NEW s, IsStore(s), NEW d \in Device, NEW i \in Id, NEW a \in Annotation, NEW incoming
  PROVE  From(s, Published(s, d, i, a), d, incoming)
  <1>. DEFINE b == [a EXCEPT !.origin = d]
              w == Written(s, i, b)
              t == Published(s, d, i, a)
  <1>1. b \in Annotation /\ b.origin = d BY DEF Annotation
  <1>2. t = [w EXCEPT !.changed = TRUE] BY DEF Published
  <1>. HIDE DEF b
  <1>3. /\ IsStore(w) /\ DOMAIN w.annotations = DOMAIN s.annotations \cup {i}
        /\ w.annotations[i] = b
        /\ \A j \in DOMAIN s.annotations \ {i} : w.annotations[j] = s.annotations[j]
    BY <1>1, WrittenStore
  <1>. HIDE DEF w, t
  <1>4. t.annotations = w.annotations /\ t.changed = TRUE BY <1>2, <1>3 DEF IsStore
  <1>5. From(s, t, d, incoming) BY <1>1, <1>3, <1>4 DEF From
  <1>. QED BY <1>5 DEF t

LEMMA RetainedFrom ==
  ASSUME NEW s, IsStore(s), NEW d \in Device, NEW loser \in Annotation, NEW incoming
  PROVE  From(s, Retained(s, d, loser), d, incoming)
  <1>. DEFINE ids  == DOMAIN s.annotations
              same == {i \in ids \ {Root} : s.annotations[i].content = loser.content}
              copy == <<Rank[loser.origin], loser.stamp>>
              j    == FirstId(same)
              a    == s.annotations[j]
              b    == [a EXCEPT !.clock = Joined(@, loser.clock)]
              t    == Retained(s, d, loser)
  <1>1. CASE t = s BY <1>1 DEF From
  <1>2. CASE same # {} /\ t = Published(s, d, j, b)
    <2>1. same \subseteq Id /\ IsFiniteSet(same) BY FS_Subset DEF IsStore, IsTable
    <2>2. j \in same BY <1>2, <2>1, FirstIdIn
    <2>3. j \in Id /\ a \in Annotation BY <2>1, <2>2 DEF IsStore, IsTable
    <2>. HIDE DEF j, a, t
    <2>4. b \in Annotation BY <2>3, JoinedProperties DEF Annotation
    <2>. QED BY <1>2, <2>3, <2>4, PublishedFrom DEF t
  <1>3. CASE t = Published(s, d, copy, loser)
    <2>1. copy \in Id BY MergeAssumption DEF Id, Stamp, Annotation
    <2>. QED BY <1>3, <2>1, PublishedFrom
  <1>. QED BY <1>1, <1>2, <1>3 DEF Retained

LEMMA ResolvedFrom ==
  ASSUME NEW s, IsStore(s), NEW d \in Device, NEW i \in DOMAIN s.annotations,
         NEW new \in Annotation, NEW incoming, IsTable(incoming)
  PROVE  From(s, Resolved(s, d, i, new), d, incoming)
  <1>. DEFINE current == s.annotations[i]
              winner  == Winner(current, new)
              loser   == IF winner = new THEN current ELSE new
              kept    == IF /\ loser.content # winner.content
                            /\ ~loser.deleted
                            /\ i = Root
                         THEN Retained(s, d, loser)
                         ELSE s
              b == [winner EXCEPT !.clock = Joined(@, loser.clock)]
              t == Resolved(s, d, i, new)
  <1>1. t = Published(kept, d, i, b) BY DEF Resolved
  <1>2. current \in Annotation /\ i \in Id BY DEF IsStore, IsTable
  <1>3. winner \in Annotation /\ loser \in Annotation BY <1>2, WinnerOneOf
  <1>. HIDE DEF winner, loser, t
  <1>4. IsStore(kept) /\ Grows(s, kept) /\ From(s, kept, d, incoming)
    <2>1. CASE kept = s BY <2>1, GrowsReflexive DEF From
    <2>2. CASE kept = Retained(s, d, loser) /\ i = Root
      BY <1>3, <2>2, RetainedStore, RetainedFrom
    <2>. QED BY <2>1, <2>2
  <1>5. b \in Annotation BY <1>3, JoinedProperties DEF Annotation
  <1>. HIDE DEF b, kept
  <1>6. From(kept, t, d, incoming) BY <1>1, <1>2, <1>4, <1>5, PublishedFrom
  <1>7. IsStore(t)
    <2>1. IsStore(Written(kept, i, [b EXCEPT !.origin = d]))
      BY <1>2, <1>4, <1>5, WrittenStore DEF Annotation
    <2>2. t = [Written(kept, i, [b EXCEPT !.origin = d]) EXCEPT !.changed = TRUE]
      BY <1>1 DEF Published
    <2>. QED BY <2>1, <2>2 DEF IsStore
  <1>8. From(s, t, d, incoming) BY <1>4, <1>6, <1>7, FromTransitive
  <1>. QED BY <1>8 DEF t

LEMMA MergedFrom ==
  ASSUME NEW s, IsStore(s), NEW d \in Device, NEW incoming, IsTable(incoming),
         NEW i \in DOMAIN incoming
  PROVE  From(s, Merged(s, d, i, incoming[i]), d, incoming)
  <1>. DEFINE new    == incoming[i]
              ticked == Ticked(s, new.stamp)
              known  == i \in DOMAIN s.annotations
              clock  == s.annotations[i].clock
              t      == Merged(s, d, i, new)
  <1>1. new \in Annotation /\ i \in Id BY DEF IsTable
  <1>2. IsStore(ticked) /\ ticked.annotations = s.annotations /\ ticked.changed = s.changed
    <2>1. IsStore(ticked) /\ ticked.annotations = s.annotations
      BY <1>1, TickedStore DEF Annotation, Stamp
    <2>2. ticked.changed = s.changed BY DEF Ticked, IsStore
    <2>. QED BY <2>1, <2>2
  <1>3. t = IF known /\ Leq(new.clock, clock)
            THEN ticked
            ELSE IF known => Leq(clock, new.clock)
                 THEN Written(ticked, i, new)
                 ELSE Resolved(ticked, d, i, new)
    BY DEF Merged
  <1>. HIDE DEF t, ticked
  <1>4. CASE known /\ Leq(new.clock, clock) BY <1>2, <1>3, <1>4 DEF From, t
  <1>5. CASE ~(known /\ Leq(new.clock, clock)) /\ (known => Leq(clock, new.clock))
    <2>1. t = Written(ticked, i, new) BY <1>3, <1>5
    <2>2. /\ DOMAIN t.annotations = DOMAIN s.annotations \cup {i}
          /\ t.annotations[i] = new
          /\ \A j \in DOMAIN s.annotations \ {i} : t.annotations[j] = s.annotations[j]
          /\ t.changed = s.changed
      BY <1>1, <1>2, <2>1, WrittenStore
    <2>3. From(s, t, d, incoming) BY <1>5, <2>2 DEF From
    <2>. QED BY <2>3 DEF t
  <1>6. CASE ~(known /\ Leq(new.clock, clock)) /\ ~(known => Leq(clock, new.clock))
    <2>1. t = Resolved(ticked, d, i, new) /\ i \in DOMAIN ticked.annotations
      BY <1>2, <1>3, <1>6
    <2>2. From(ticked, t, d, incoming) BY <1>1, <1>2, <2>1, ResolvedFrom
    <2>3. From(s, t, d, incoming) BY <1>2, <2>2 DEF From
    <2>. QED BY <2>3 DEF t
  <1>. QED BY <1>4, <1>5, <1>6

LEMMA CompactedOneFrom ==
  ASSUME NEW s, IsStore(s), NEW d \in Device, NEW i \in DOMAIN s.annotations, NEW incoming
  PROVE  From(s, CompactedOne(s, d, i), d, incoming)
  <1>. DEFINE table == s.annotations
              survivors == {j \in Live(table) : Precedes(j, i) /\ table[j].content = table[i].content}
              j     == FirstId(survivors)
              clock == Joined(table[j].clock, table[i].clock)
              next  == Min(Free(s, s.last + 1 + Cardinality(s.used)))
              b     == [table[j] EXCEPT !.clock = clock]
              met   == IF clock = table[j].clock THEN s ELSE Published(s, d, j, b)
              a     == [table[i] EXCEPT !.clock = Advanced(clock, d), !.stamp = next,
                                        !.deleted = TRUE, !.origin = d]
              w     == Written(met, i, a)
              t     == CompactedOne(s, d, i)
  <1>1. t = IF survivors = {}
            THEN s
            ELSE [w EXCEPT !.last = next, !.changed = TRUE, !.used = @ \cup {next}]
    BY DEF CompactedOne
  <1>2. CASE survivors = {} BY <1>1, <1>2 DEF From
  <1>3. CASE survivors # {}
    <2>1. survivors \subseteq DOMAIN table BY DEF Live
    <2>2. survivors \subseteq Id /\ IsFiniteSet(survivors)
      BY <2>1, FS_Subset DEF IsStore, IsTable
    <2>3. j \in survivors BY <1>3, <2>2, FirstIdIn
    <2>4. /\ i \in Id /\ j \in Id /\ table[i] \in Annotation /\ table[j] \in Annotation
      BY <2>1, <2>2, <2>3 DEF IsStore, IsTable
    <2>5. next \in Nat BY FreeStamp
    <2>. HIDE DEF j, next, survivors
    <2>6. clock \in VectorClock BY <2>4, JoinedProperties DEF Annotation
    <2>7. b \in Annotation BY <2>4, <2>6 DEF Annotation
    <2>8. a \in Annotation /\ a.origin = d
      <3>1. Advanced(clock, d) \in VectorClock BY <2>6, AdvancedProperties
      <3>. HIDE DEF clock
      <3>. QED BY <2>4, <2>5, <3>1 DEF Annotation, Stamp
    <2>. HIDE DEF clock, b, a
    <2>9. IsStore(met) /\ From(s, met, d, incoming)
      <3>1. CASE met = s BY <3>1 DEF From
      <3>2. CASE met = Published(s, d, j, b)
        <4>1. From(s, met, d, incoming) BY <2>4, <2>7, <3>2, PublishedFrom
        <4>2. IsStore(Written(s, j, [b EXCEPT !.origin = d]))
          BY <2>4, <2>7, WrittenStore DEF Annotation
        <4>3. met = [Written(s, j, [b EXCEPT !.origin = d]) EXCEPT !.changed = TRUE]
          BY <3>2 DEF Published
        <4>. QED BY <4>1, <4>2, <4>3 DEF IsStore
      <3>. QED BY <3>1, <3>2
    <2>. HIDE DEF met
    <2>10. /\ IsStore(w)
           /\ DOMAIN w.annotations = DOMAIN met.annotations \cup {i}
           /\ w.annotations[i] = a
           /\ \A k \in DOMAIN met.annotations \ {i} : w.annotations[k] = met.annotations[k]
      <3>1. i \in Id /\ IsStore(met) /\ a \in Annotation BY <2>4, <2>8, <2>9
      <3>. QED BY <3>1, WrittenStore
    <2>11. t = [w EXCEPT !.last = next, !.changed = TRUE, !.used = @ \cup {next}]
      BY <1>1, <1>3
    <2>. HIDE DEF w, t
    <2>12. t.annotations = w.annotations /\ t.changed = TRUE BY <2>10, <2>11 DEF IsStore
    <2>13. From(s, t, d, incoming) BY <2>8, <2>9, <2>10, <2>12 DEF From
    <2>. QED BY <2>13 DEF t
  <1>. QED BY <1>2, <1>3

LEMMA CompactedFrom ==
  ASSUME NEW store, IsStore(store), NEW d \in Device, NEW incoming, IsTable(incoming)
  PROVE  From(store, Compacted(store, d), d, incoming)
  <1>. DEFINE S == Live(store.annotations)
  <1>1. S \subseteq Id /\ IsFiniteSet(S) /\ S \subseteq DOMAIN store.annotations
    BY FS_Subset DEF IsStore, IsTable, Live
  <1>2. PICK g : /\ Compacted(store, d) = g[S]
                 /\ \A s \in SUBSET S : g[s] = FoldStep("compact", store, d, {}, g, s)
    BY CompactedFold
  <1>. HIDE DEF S
  <1>. DEFINE A == {s \in SUBSET S : /\ IsStore(g[s]) /\ Grows(store, g[s])
                                     /\ From(store, g[s], d, incoming)}
  <1>3. {} \in A
    <2>1. g[{}] = store BY <1>2 DEF FoldStep
    <2>. QED BY <2>1, GrowsReflexive DEF From
  <1>4. ASSUME NEW s \in SUBSET S, s # {}, \A x \in s : s \ {x} \in A PROVE s \in A
    <2>. DEFINE i == LastId(s)
                r == g[s \ {i}]
    <2>1. i \in s
      <3>1. IsFiniteSet(s) BY <1>1, FS_Subset
      <3>. QED BY <1>1, <1>4, <3>1, LastIdIn
    <2>2. IsStore(r) /\ Grows(store, r) /\ From(store, r, d, incoming) BY <1>4, <2>1
    <2>3. i \in DOMAIN r.annotations BY <1>1, <2>1, <2>2 DEF Grows
    <2>4. g[s] = CompactedOne(r, d, i) BY <1>2, <1>4 DEF FoldStep, FoldOne
    <2>. HIDE DEF i, r
    <2>5. IsStore(g[s]) /\ Grows(r, g[s]) /\ From(r, g[s], d, incoming)
      BY <2>2, <2>3, <2>4, CompactedOneStore, CompactedOneFrom
    <2>6. Grows(store, g[s]) BY <2>2, <2>5, GrowsTransitive
    <2>7. From(store, g[s], d, incoming) BY <2>2, <2>5, FromTransitive
    <2>. QED BY <2>5, <2>6, <2>7
  <1>. HIDE DEF A
  <1>5. S \in A BY <1>1, <1>3, <1>4, SubsetInduction
  <1>. QED BY <1>2, <1>5 DEF A

LEMMA MergedFileFrom ==
  ASSUME NEW store, IsStore(store), NEW d \in Device, NEW incoming, IsTable(incoming)
  PROVE  From(store, MergedFile(store, d, incoming), d, incoming)
  <1>. DEFINE t == MergedFile(store, d, incoming)
              S == DOMAIN incoming
              m == MergedAll(store, d, incoming)
  <1>1. CASE incoming = <<>> BY <1>1 DEF MergedFile, From
  <1>2. CASE incoming # <<>>
    <2>1. S \subseteq Id /\ IsFiniteSet(S) /\ \A i \in S : incoming[i] \in Annotation
      BY DEF IsTable
    <2>2. PICK g : /\ m = g[S]
                   /\ \A s \in SUBSET S : g[s] = FoldStep("merge", store, d, incoming, g, s)
      BY MergedAllFold
    <2>3. t = Compacted(m, d) BY <1>2 DEF MergedFile, MergedAll
    <2>. HIDE DEF S, t, m
    <2>. DEFINE A == {s \in SUBSET S : /\ IsStore(g[s]) /\ Grows(store, g[s])
                                       /\ From(store, g[s], d, incoming)}
    <2>4. {} \in A
      <3>1. g[{}] = store BY <2>2 DEF FoldStep
      <3>. QED BY <3>1, GrowsReflexive DEF From
    <2>5. ASSUME NEW s \in SUBSET S, s # {}, \A x \in s : s \ {x} \in A PROVE s \in A
      <3>. DEFINE i == LastId(s)
                  r == g[s \ {i}]
      <3>1. i \in s
        <4>1. IsFiniteSet(s) BY <2>1, FS_Subset
        <4>. QED BY <2>1, <2>5, <4>1, LastIdIn
      <3>2. IsStore(r) /\ Grows(store, r) /\ From(store, r, d, incoming) BY <2>5, <3>1
      <3>3. g[s] = Merged(r, d, i, incoming[i]) BY <2>2, <2>5 DEF FoldStep, FoldOne
      <3>4. i \in Id /\ i \in DOMAIN incoming /\ incoming[i] \in Annotation BY <2>1, <3>1 DEF S
      <3>. HIDE DEF i, r
      <3>5. IsStore(g[s]) /\ Grows(r, g[s]) /\ From(r, g[s], d, incoming)
        BY <3>2, <3>3, <3>4, MergedStore, MergedFrom
      <3>6. Grows(store, g[s]) BY <3>2, <3>5, GrowsTransitive
      <3>7. From(store, g[s], d, incoming) BY <3>2, <3>5, FromTransitive
      <3>. QED BY <3>5, <3>6, <3>7
    <2>. HIDE DEF A
    <2>6. S \in A BY <2>1, <2>4, <2>5, SubsetInduction
    <2>7. IsStore(m) /\ Grows(store, m) /\ From(store, m, d, incoming) BY <2>2, <2>6 DEF A
    <2>8. IsStore(t) /\ From(m, t, d, incoming) BY <2>3, <2>7, CompactedStore, CompactedFrom
    <2>9. From(store, t, d, incoming) BY <2>7, <2>8, FromTransitive
    <2>. QED BY <2>9 DEF t
  <1>. QED BY <1>1, <1>2

-----------------------------------------------------------------------------
(* Histories agree *)

\* A device's file holds what it wrote last.
FilesOwn == \A p \in Device : \A i \in DOMAIN file[p] : file[p][i].origin = p

\* While nothing is to be uploaded, the file holds all that the device wrote last.
OwnUploaded ==
    \A d \in Device : ~changed[d] =>
       \A i \in DOMAIN annotations[d] : annotations[d][i].origin = d =>
          i \in DOMAIN file[d] /\ file[d][i] = annotations[d][i]

\* Among the tables, a device has a version of i that it wrote last and that covers
\* the history c.
Backed(tables, i, c) ==
    \E p \in Device : /\ i \in DOMAIN tables[p]
                      /\ tables[p][i].origin = p
                      /\ Leq(c, tables[p][i].clock)

AllBacked ==
    \A d \in Device : \A i \in DOMAIN annotations[d] :
       Backed(annotations, i, annotations[d][i].clock)

AgreeInv == MergeInv /\ FilesOwn /\ OwnUploaded /\ AllBacked

\* What was backed stays backed: d lets a file replace a version of its own only if
\* the file has news, and these are backed by another device.
LEMMA BackedStays ==
  ASSUME AgreeInv, NEW d \in Device, NEW t, IsStore(t), Grows(Store(d), t),
         NEW incoming, IsTable(incoming), From(Store(d), t, d, incoming),
         \A i \in DOMAIN incoming : Backed(annotations, i, incoming[i].clock),
         annotations' = [annotations EXCEPT ![d] = t.annotations],
         NEW i, NEW c \in VectorClock, Backed(annotations, i, c)
  PROVE  Backed(annotations', i, c)
  <1>1. /\ annotations'[d] = t.annotations
        /\ \A e \in Device \ {d} : annotations'[e] = annotations[e]
    BY DEF AgreeInv, MergeInv, StoresOK
  <1>2. StoresOK /\ Store(d).annotations = annotations[d] BY StoreStore DEF AgreeInv, MergeInv
  <1>3. PICK p \in Device : /\ i \in DOMAIN annotations[p]
                            /\ annotations[p][i].origin = p
                            /\ Leq(c, annotations[p][i].clock)
    BY DEF Backed
  <1>4. CASE p # d BY <1>1, <1>3, <1>4 DEF Backed
  <1>5. CASE p = d
    <2>1. i \in DOMAIN t.annotations /\ Leq(annotations[d][i].clock, t.annotations[i].clock)
      BY <1>2, <1>3, <1>5 DEF Grows
    <2>2. annotations[d][i].clock \in VectorClock /\ t.annotations[i].clock \in VectorClock
      BY <1>2, <1>3, <1>5, <2>1 DEF StoresOK, IsStore, IsTable, Annotation
    <2>3. Leq(c, t.annotations[i].clock) BY <1>3, <1>5, <2>1, <2>2, LeqTransitive
    <2>4. CASE t.annotations[i].origin = d BY <1>1, <2>1, <2>3, <2>4 DEF Backed
    <2>5. CASE t.annotations[i].origin # d
      <3>1. /\ i \in DOMAIN incoming /\ t.annotations[i] = incoming[i]
            /\ ~Leq(incoming[i].clock, annotations[d][i].clock)
        BY <1>2, <1>3, <1>5, <2>1, <2>5 DEF From
      <3>2. PICK q \in Device : /\ i \in DOMAIN annotations[q]
                                /\ annotations[q][i].origin = q
                                /\ Leq(incoming[i].clock, annotations[q][i].clock)
        BY <3>1 DEF Backed
      <3>3. q # d BY <3>1, <3>2
      <3>4. annotations[q][i].clock \in VectorClock
        BY <1>2, <3>2 DEF StoresOK, IsTable, Annotation
      <3>5. Leq(c, annotations[q][i].clock) BY <2>2, <2>3, <3>1, <3>2, <3>4, LeqTransitive
      <3>. QED BY <1>1, <3>2, <3>3, <3>5 DEF Backed
    <2>. QED BY <2>4, <2>5
  <1>. QED BY <1>4, <1>5

\* A transaction of d, with a file of another device or with none.
LEMMA CommitAgree ==
  ASSUME AgreeInv, MergeInv', NEW d \in Device, NEW t, IsStore(t), Grows(Store(d), t),
         NEW incoming, IsTable(incoming), From(Store(d), t, d, incoming),
         \A i \in DOMAIN incoming : /\ incoming[i].origin # d
                                    /\ Backed(annotations, i, incoming[i].clock),
         Commit(d, t), file' = file
  PROVE  AgreeInv'
  <1>1. /\ annotations' = [annotations EXCEPT ![d] = t.annotations]
        /\ changed' = [changed EXCEPT ![d] = t.changed]
    BY DEF Commit
  <1>2. /\ annotations'[d] = t.annotations /\ changed'[d] = t.changed
        /\ \A e \in Device \ {d} : annotations'[e] = annotations[e] /\ changed'[e] = changed[e]
    BY <1>1 DEF AgreeInv, MergeInv, StoresOK
  <1>3. /\ StoresOK /\ Store(d).annotations = annotations[d] /\ Store(d).changed = changed[d]
    BY StoreStore DEF AgreeInv, MergeInv
  <1>4. FilesOwn' BY DEF AgreeInv, FilesOwn
  <1>5. OwnUploaded'
    <2>. SUFFICES ASSUME NEW e \in Device, ~changed'[e],
                         NEW i \in DOMAIN annotations'[e], annotations'[e][i].origin = e
                  PROVE  i \in DOMAIN file[e] /\ file[e][i] = annotations'[e][i]
      BY DEF OwnUploaded
    <2>1. CASE e # d BY <1>2, <2>1 DEF AgreeInv, OwnUploaded
    <2>2. CASE e = d
      <3>1. ~t.changed /\ i \in DOMAIN t.annotations /\ t.annotations[i].origin = d
        BY <1>2, <2>2
      <3>2. ~changed[d] BY <1>3, <3>1 DEF From
      <3>3. i \in DOMAIN annotations[d] /\ t.annotations[i] = annotations[d][i]
        BY <1>3, <3>1 DEF From
      <3>. QED BY <1>2, <2>2, <3>1, <3>2, <3>3 DEF AgreeInv, OwnUploaded
    <2>. QED BY <2>1, <2>2
  <1>6. AllBacked'
    <2>. SUFFICES ASSUME NEW e \in Device, NEW i \in DOMAIN annotations'[e]
                  PROVE  Backed(annotations', i, annotations'[e][i].clock)
      BY DEF AllBacked
    <2>1. annotations'[e][i].clock \in VectorClock
      BY DEF MergeInv, StoresOK, IsTable, Annotation
    <2>2. CASE Backed(annotations, i, annotations'[e][i].clock)
      <3>. DEFINE c == annotations'[e][i].clock
      <3>1. c \in VectorClock /\ Backed(annotations, i, c) BY <2>1, <2>2
      <3>. HIDE DEF c
      <3>2. Backed(annotations', i, c) BY <1>1, <3>1, BackedStays
      <3>. QED BY <3>2 DEF c
    <2>3. CASE e # d
      <3>1. Backed(annotations, i, annotations[e][i].clock) BY <1>2, <2>3 DEF AgreeInv, AllBacked
      <3>. QED BY <1>2, <2>2, <2>3, <3>1
    <2>4. CASE e = d
      <3>1. \/ i \in DOMAIN annotations[d] /\ annotations'[d][i] = annotations[d][i]
            \/ annotations'[d][i].origin = d
            \/ i \in DOMAIN incoming /\ annotations'[d][i] = incoming[i]
        BY <1>2, <1>3, <2>4 DEF From
      <3>2. CASE annotations'[d][i].origin = d
        BY <2>1, <2>4, <3>2, LeqReflexive DEF Backed
      <3>3. CASE i \in DOMAIN annotations[d] /\ annotations'[d][i] = annotations[d][i]
        <4>1. Backed(annotations, i, annotations[d][i].clock) BY <3>3 DEF AgreeInv, AllBacked
        <4>. QED BY <2>2, <2>4, <3>3, <4>1
      <3>4. CASE i \in DOMAIN incoming /\ annotations'[d][i] = incoming[i]
        BY <2>2, <2>4, <3>4
      <3>. QED BY <3>1, <3>2, <3>3, <3>4
    <2>. QED BY <2>3, <2>4
  <1>. QED BY <1>4, <1>5, <1>6 DEF AgreeInv

LEMMA WriteAgree ==
  ASSUME AgreeInv, MergeInv', ReaderWrites
  PROVE  AgreeInv'
  <1>1. PICK d \in Device, i \in Id, a \in Annotation : \E contents :
           /\ a.origin = d
           /\ i \in DOMAIN annotations[d] => /\ Leq(annotations[d][i].clock, a.clock)
                                             /\ annotations[d][i].clock # a.clock
           /\ Write(d, i, a, contents)
    BY DEF ReaderWrites
  <1>. DEFINE t == Transaction(d, i, a)
              s == Store(d)
  <1>2. /\ IsStore(t) /\ Grows(s, t) /\ Commit(d, t)
        /\ t.annotations = Written(s, i, a).annotations /\ t.changed
    BY <1>1, TransactionStore DEF AgreeInv
  <1>3. file' = file BY <1>1 DEF Write
  <1>4. IsStore(s) BY StoreStore DEF AgreeInv, MergeInv
  <1>. HIDE DEF s, t
  <1>5. From(s, t, d, <<>>)
    <2>1. /\ DOMAIN t.annotations = DOMAIN s.annotations \cup {i}
          /\ t.annotations[i] = a
          /\ \A j \in DOMAIN s.annotations \ {i} : t.annotations[j] = s.annotations[j]
      BY <1>2, <1>4, WrittenStore
    <2>. QED BY <1>1, <1>2, <2>1 DEF From
  <1>6. DOMAIN <<>> = {} /\ IsTable(<<>>) BY FS_EmptySet DEF IsTable
  <1>. QED BY <1>2, <1>3, <1>5, <1>6, CommitAgree DEF s

LEMMA OpenAgree ==
  ASSUME AgreeInv, MergeInv', NEW d \in Device, Open(d)
  PROVE  AgreeInv'
  <1>. DEFINE t == Compacted(Store(d), d)
  <1>1. IsStore(Store(d)) BY StoreStore DEF AgreeInv, MergeInv
  <1>2. DOMAIN <<>> = {} /\ IsTable(<<>>) BY FS_EmptySet DEF IsTable
  <1>3. IsStore(t) /\ Grows(Store(d), t) /\ From(Store(d), t, d, <<>>)
    BY <1>1, <1>2, CompactedStore, CompactedFrom
  <1>4. Commit(d, t) /\ file' = file BY DEF Open
  <1>. HIDE DEF t
  <1>. QED BY <1>2, <1>3, <1>4, CommitAgree

LEMMA MergeAgree ==
  ASSUME AgreeInv, MergeInv', NEW d \in Device, NEW p \in Device, Merge(d, p)
  PROVE  AgreeInv'
  <1>. DEFINE t == MergedFile(Store(d), d, file[p])
  <1>1. IsStore(Store(d)) /\ IsTable(file[p])
    BY StoreStore DEF AgreeInv, MergeInv, FilesOK
  <1>2. IsStore(t) /\ Grows(Store(d), t) /\ From(Store(d), t, d, file[p])
    BY <1>1, MergedFileStore, MergedFileFrom
  <1>3. p # d /\ Commit(d, t) /\ file' = file BY DEF Merge
  <1>. HIDE DEF t
  <1>4. ASSUME NEW i \in DOMAIN file[p]
        PROVE  file[p][i].origin # d /\ Backed(annotations, i, file[p][i].clock)
    <2>1. file[p][i].origin = p BY DEF AgreeInv, FilesOwn
    <2>2. i \in DOMAIN annotations[p] /\ Leq(file[p][i].clock, annotations[p][i].clock)
      BY DEF AgreeInv, MergeInv, MergedCovered
    <2>3. PICK q \in Device : /\ i \in DOMAIN annotations[q]
                              /\ annotations[q][i].origin = q
                              /\ Leq(annotations[p][i].clock, annotations[q][i].clock)
      BY <2>2 DEF AgreeInv, AllBacked, Backed
    <2>4. /\ file[p][i].clock \in VectorClock
          /\ annotations[p][i].clock \in VectorClock
          /\ annotations[q][i].clock \in VectorClock
      BY <1>1, <2>2, <2>3 DEF AgreeInv, MergeInv, StoresOK, IsTable, Annotation
    <2>5. Leq(file[p][i].clock, annotations[q][i].clock) BY <2>2, <2>3, <2>4, LeqTransitive
    <2>. QED BY <1>3, <2>1, <2>3, <2>5 DEF Backed
  <1>. QED BY <1>1, <1>2, <1>3, <1>4, CommitAgree

LEMMA UploadAgree ==
  ASSUME AgreeInv, MergeInv', NEW d \in Device, Upload(d)
  PROVE  AgreeInv'
  <1>. DEFINE X == {i \in DOMAIN annotations[d] : annotations[d][i].origin = d}
              f == Restrict(annotations[d], X)
  <1>1. /\ changed' = [changed EXCEPT ![d] = FALSE]
        /\ file' = [file EXCEPT ![d] = f]
        /\ annotations' = annotations
    BY DEF Upload
  <1>2. DOMAIN f = X /\ \A i \in X : f[i] = annotations[d][i] BY DEF Restrict
  <1>. HIDE DEF f
  <1>3. /\ file'[d] = f
        /\ \A e \in Device \ {d} : file'[e] = file[e] /\ changed'[e] = changed[e]
    BY <1>1 DEF AgreeInv, MergeInv, StoresOK, FilesOK
  <1>4. FilesOwn' BY <1>2, <1>3 DEF AgreeInv, FilesOwn
  <1>5. OwnUploaded' BY <1>1, <1>2, <1>3 DEF AgreeInv, OwnUploaded
  <1>6. AllBacked' BY <1>1 DEF AgreeInv, AllBacked
  <1>. QED BY <1>4, <1>5, <1>6 DEF AgreeInv

LEMMA InitAgreeInv == Init => AgreeInv
  <1>. SUFFICES ASSUME Init PROVE AgreeInv OBVIOUS
  <1>1. \A d \in Device : DOMAIN annotations[d] = {} /\ DOMAIN file[d] = {} BY DEF Init
  <1>. QED BY <1>1, InitMergeInv DEF AgreeInv, FilesOwn, OwnUploaded, AllBacked

LEMMA StepAgreeInv == AgreeInv /\ [Next]_vars => AgreeInv'
  <1>. SUFFICES ASSUME AgreeInv, [Next]_vars PROVE AgreeInv' OBVIOUS
  <1>0. MergeInv' BY StepMergeInv DEF AgreeInv
  <1>1. CASE Create BY <1>0, <1>1, CreateWrites, WriteAgree DEF AgreeInv
  <1>2. ASSUME NEW d \in Device, NEW i \in Live(annotations[d]), Delete(d, i)
        PROVE  AgreeInv'
    BY <1>0, <1>2, DeleteWrites, WriteAgree DEF AgreeInv
  <1>3. ASSUME NEW d \in Device, NEW i \in Live(annotations[d]), NEW c \in Content, Edit(d, i, c)
        PROVE  AgreeInv'
    BY <1>0, <1>3, EditWrites, WriteAgree DEF AgreeInv
  <1>4. ASSUME NEW d \in Device, Open(d) PROVE AgreeInv' BY <1>0, <1>4, OpenAgree
  <1>5. ASSUME NEW d \in Device, Upload(d) PROVE AgreeInv' BY <1>0, <1>5, UploadAgree
  <1>6. ASSUME NEW d \in Device, NEW p \in Device, Merge(d, p) PROVE AgreeInv'
    BY <1>0, <1>6, MergeAgree
  <1>7. CASE UNCHANGED vars BY <1>0, <1>7 DEF AgreeInv, vars, FilesOwn, OwnUploaded, AllBacked
  <1>. QED BY <1>1, <1>2, <1>3, <1>4, <1>5, <1>6, <1>7 DEF Next

LEMMA SettledCovered ==
  ASSUME AgreeInv, Settled, NEW d \in Device, NEW e \in Device, NEW i \in DOMAIN annotations[d]
  PROVE  i \in DOMAIN annotations[e] /\ Leq(annotations[d][i].clock, annotations[e][i].clock)
  <1>1. PICK p \in Device : /\ i \in DOMAIN annotations[p]
                            /\ annotations[p][i].origin = p
                            /\ Leq(annotations[d][i].clock, annotations[p][i].clock)
    BY DEF AgreeInv, AllBacked, Backed
  <1>2. i \in DOMAIN file[p] /\ file[p][i] = annotations[p][i]
    BY <1>1 DEF Settled, AgreeInv, OwnUploaded
  <1>3. i \in DOMAIN annotations[e] /\ Leq(annotations[p][i].clock, annotations[e][i].clock)
    BY <1>2 DEF Settled, AgreeInv, MergeInv, MergedCovered
  <1>4. /\ annotations[d][i].clock \in VectorClock
        /\ annotations[p][i].clock \in VectorClock
        /\ annotations[e][i].clock \in VectorClock
    BY <1>1, <1>3 DEF AgreeInv, MergeInv, StoresOK, IsTable, Annotation
  <1>. QED BY <1>1, <1>3, <1>4, LeqTransitive

\* HistoriesAgree: any number of devices that have exchanged everything have the same
\* annotations under the same histories, through conflicts, deletions, edited copies
\* and compactions, whatever their clocks show (merge, publish, reading_snapshot).
THEOREM HistoriesAgreeAlways == Spec => []HistoriesAgree
  <1>1. Init => AgreeInv BY InitAgreeInv
  <1>2. AgreeInv /\ [Next]_vars => AgreeInv' BY StepAgreeInv
  <1>3. AgreeInv => HistoriesAgree
    <2>. SUFFICES ASSUME AgreeInv, Settled, NEW d \in Device, NEW e \in Device,
                         NEW i \in DOMAIN annotations[d]
                  PROVE  /\ i \in DOMAIN annotations[e]
                         /\ annotations[d][i].clock = annotations[e][i].clock
      BY DEF HistoriesAgree
    <2>1. i \in DOMAIN annotations[e] /\ Leq(annotations[d][i].clock, annotations[e][i].clock)
      BY SettledCovered
    <2>2. Leq(annotations[e][i].clock, annotations[d][i].clock) BY <2>1, SettledCovered
    <2>3. annotations[d][i].clock \in VectorClock /\ annotations[e][i].clock \in VectorClock
      BY <2>1 DEF AgreeInv, MergeInv, StoresOK, IsTable, Annotation
    <2>. QED BY <2>1, <2>2, <2>3, LeqAntisymmetric
  <1>. QED BY <1>1, <1>2, <1>3, PTL DEF Spec
-----------------------------------------------------------------------------
(***************************************************************************)
(* The highlight converges.  A record h has of all texts that readers      *)
(* wrote the stamp, and of those of the highlight also, for each device,   *)
(* the order of its edits.  As long as only copies are deleted, clocks     *)
(* agree and no text is written twice, every live version that has a text  *)
(* of the highlight is the latest edit of those in its history, on any     *)
(* number of devices: so one history has one version.  An edited copy has  *)
(* a later stamp than the copy before, and no text of the highlight, so    *)
(* its history never gets into the highlight by compaction.                *)
(***************************************************************************)

IsRecord(h) ==
    /\ h \in [texts : SUBSET Content, own : SUBSET Content, stamp : [Content -> Nat],
              edit : [Device -> [Nat -> Nat]], count : [Device -> Nat]]
    /\ h.own \subseteq h.texts
    /\ \A c, e \in h.texts : h.stamp[c] = h.stamp[e] => c = e

\* Of the edits in the history c, the latest has the stamp n.
Latest(h, c, n) ==
    /\ \A d \in Device : c[d] <= h.count[d]
    /\ \E d \in Device : \E k \in 1..c[d] : h.edit[d][k] = n
    /\ \A d \in Device : \A k \in 1..c[d] : h.edit[d][k] <= n

\* The annotation a, under the id i, is what h says of its text and its history.  A
\* copy has the text that it was made for, or one that was written or deleted later.
Shows(h, i, a) ==
    /\ a.content \in h.texts
    /\ i = Root => a.content \in h.own /\ ~a.deleted
    /\ i # Root => /\ i[2] <= h.stamp[a.content]
                   /\ a.content \in h.own => i[2] = h.stamp[a.content]
                   /\ a.deleted => i[2] < a.stamp
    /\ ~a.deleted => a.stamp = h.stamp[a.content]
    /\ ~a.deleted /\ a.content \in h.own => Latest(h, a.clock, a.stamp)

Faithful(h, t) == \A i \in DOMAIN t : Shows(h, i, t[i])

\* On d, whose last stamp is n, a has no later stamp, and the highlight has all edits
\* of d in its history.
Own(h, d, n, i, a) ==
    /\ a.stamp <= n
    /\ i = Root => a.clock[d] = h.count[d]

\* The store s of d is what h says.
Follows(h, s, d) ==
    /\ Faithful(h, s.annotations)
    /\ \A i \in DOMAIN s.annotations : Own(h, d, s.last, i, s.annotations[i])
    /\ Root \notin DOMAIN s.annotations => h.count[d] = 0

\* The later of two edits is the latest of the joined histories.
LEMMA LatestJoined ==
  ASSUME NEW h, IsRecord(h), NEW c \in VectorClock, NEW e \in VectorClock,
         NEW m \in Nat, NEW n \in Nat, Latest(h, c, m), Latest(h, e, n), n <= m
  PROVE  Latest(h, Joined(c, e), m) /\ Latest(h, Joined(e, c), m)
  <1>. DEFINE j == Joined(c, e)
  <1>0. /\ j \in VectorClock /\ j = Joined(e, c)
        /\ \A d \in Device : j[d] = c[d] \/ j[d] = e[d]
        /\ \A d \in Device : c[d] <= j[d]
    <2>1. \A d \in Device : j[d] = c[d] \/ j[d] = e[d] BY DEF Joined
    <2>. QED BY <2>1, JoinedProperties DEF Leq
  <1>. HIDE DEF j
  <1>1. \A d \in Device : j[d] <= h.count[d] BY <1>0 DEF Latest
  <1>2. \E d \in Device : \E k \in 1..j[d] : h.edit[d][k] = m
    <2>1. PICK d \in Device : \E k \in 1..c[d] : h.edit[d][k] = m BY DEF Latest
    <2>2. PICK k \in 1..c[d] : h.edit[d][k] = m BY <2>1
    <2>3. c[d] \in Nat /\ j[d] \in Nat BY <1>0 DEF VectorClock
    <2>4. k \in 1..j[d] BY <1>0, <2>3
    <2>. QED BY <2>2, <2>4
  <1>3. \A d \in Device : \A k \in 1..j[d] : h.edit[d][k] <= m
    <2>. SUFFICES ASSUME NEW d \in Device, NEW k \in 1..j[d] PROVE h.edit[d][k] <= m OBVIOUS
    <2>1. j[d] = c[d] \/ j[d] = e[d] BY <1>0
    <2>2. h.edit[d][k] <= m \/ h.edit[d][k] <= n BY <2>1 DEF Latest
    <2>3. k \in Nat BY <1>0 DEF VectorClock
    <2>4. h.edit[d][k] \in Nat BY <2>3 DEF IsRecord
    <2>. QED BY <2>2, <2>4
  <1>. QED BY <1>0, <1>1, <1>2, <1>3 DEF Latest, j

\* A version may take over the history of one that is not later.
LEMMA JoinedShows ==
  ASSUME NEW h, IsRecord(h), NEW i \in Id, NEW a \in Annotation, NEW b \in Annotation,
         Shows(h, i, a),
         ~a.deleted /\ a.content \in h.own => Latest(h, b.clock, b.stamp) /\ b.stamp <= a.stamp
  PROVE  Shows(h, i, [a EXCEPT !.clock = Joined(@, b.clock)])
  <1>. DEFINE r == [a EXCEPT !.clock = Joined(@, b.clock)]
  <1>1. /\ r.content = a.content /\ r.deleted = a.deleted /\ r.stamp = a.stamp
        /\ r.clock = Joined(a.clock, b.clock)
    BY DEF Annotation
  <1>. HIDE DEF r
  <1>2. /\ a.clock \in VectorClock /\ b.clock \in VectorClock
        /\ a.stamp \in Nat /\ b.stamp \in Nat
    BY DEF Annotation, Stamp
  <1>3. ~a.deleted /\ a.content \in h.own => Latest(h, r.clock, r.stamp)
    BY <1>1, <1>2, LatestJoined DEF Shows
  <1>4. Shows(h, i, r) BY <1>1, <1>3 DEF Shows
  <1>. QED BY <1>4 DEF r

\* The store t is s after a was written under i.
LEMMA WrittenFollows ==
  ASSUME NEW h, NEW s, IsStore(s), NEW d \in Device, Follows(h, s, d),
         NEW i \in Id, NEW a \in Annotation, Shows(h, i, a),
         NEW t, t.annotations = Written(s, i, a).annotations,
         t.last \in Nat, s.last <= t.last, Own(h, d, t.last, i, a)
  PROVE  Follows(h, t, d)
  <1>1. /\ DOMAIN t.annotations = DOMAIN s.annotations \cup {i}
        /\ t.annotations[i] = a
        /\ \A j \in DOMAIN s.annotations \ {i} : t.annotations[j] = s.annotations[j]
    BY WrittenStore
  <1>2. Faithful(h, t.annotations) BY <1>1 DEF Follows, Faithful
  <1>3. ASSUME NEW j \in DOMAIN s.annotations PROVE Own(h, d, t.last, j, s.annotations[j])
    <2>1. s.annotations[j].stamp \in Nat /\ s.last \in Nat
      BY DEF IsStore, IsTable, Annotation, Stamp
    <2>. QED BY <2>1 DEF Follows, Own
  <1>4. \A j \in DOMAIN t.annotations : Own(h, d, t.last, j, t.annotations[j])
    <2>. SUFFICES ASSUME NEW j \in DOMAIN t.annotations
                  PROVE  Own(h, d, t.last, j, t.annotations[j])
      OBVIOUS
    <2>1. CASE j = i BY <1>1, <2>1
    <2>2. CASE j # i BY <1>1, <1>3, <2>2
    <2>. QED BY <2>1, <2>2
  <1>. QED BY <1>1, <1>2, <1>4 DEF Follows

LEMMA PublishedFollows ==
  ASSUME NEW h, NEW s, IsStore(s), NEW d \in Device, Follows(h, s, d),
         NEW i \in Id, NEW a \in Annotation, Shows(h, i, a), Own(h, d, s.last, i, a)
  PROVE  LET t == Published(s, d, i, a)
         IN  Follows(h, t, d) /\ t.last = s.last
  <1>. DEFINE b == [a EXCEPT !.origin = d]
              w == Written(s, i, b)
              t == Published(s, d, i, a)
  <1>1. /\ b \in Annotation
        /\ b.content = a.content /\ b.deleted = a.deleted
        /\ b.stamp = a.stamp /\ b.clock = a.clock
    BY DEF Annotation
  <1>2. t = [w EXCEPT !.changed = TRUE] BY DEF Published
  <1>. HIDE DEF b
  <1>3. Shows(h, i, b) /\ Own(h, d, s.last, i, b) BY <1>1 DEF Shows, Own
  <1>4. IsStore(w) /\ w.last = s.last BY <1>1, WrittenStore
  <1>. HIDE DEF t
  <1>5. t.annotations = w.annotations /\ t.last = s.last
    <2>. HIDE DEF w
    <2>. QED BY <1>2, <1>4 DEF IsStore
  <1>6. s.last \in Nat BY DEF IsStore
  <1>7. Follows(h, t, d) BY <1>1, <1>3, <1>5, <1>6, WrittenFollows
  <1>. QED BY <1>5, <1>7 DEF t

LEMMA RetainedFollows ==
  ASSUME NEW h, IsRecord(h), NEW s, IsStore(s), NEW d \in Device, Follows(h, s, d),
         NEW loser \in Annotation, ~loser.deleted, Shows(h, Root, loser), loser.stamp <= s.last
  PROVE  LET t == Retained(s, d, loser)
         IN  Follows(h, t, d) /\ t.last = s.last
  <1>. DEFINE ids  == DOMAIN s.annotations
              same == {i \in ids \ {Root} : s.annotations[i].content = loser.content}
              copy == <<Rank[loser.origin], loser.stamp>>
              j    == FirstId(same)
              a    == s.annotations[j]
              b    == [a EXCEPT !.clock = Joined(@, loser.clock)]
              t    == Retained(s, d, loser)
  <1>1. CASE t = s BY <1>1
  <1>2. CASE same # {} /\ t = Published(s, d, j, b)
    <2>1. same \subseteq Id /\ IsFiniteSet(same) BY FS_Subset DEF IsStore, IsTable
    <2>2. j \in same BY <1>2, <2>1, FirstIdIn
    <2>3. j \in Id /\ a \in Annotation /\ j # Root /\ a.content = loser.content
      BY <2>1, <2>2 DEF IsStore, IsTable
    <2>4. Shows(h, j, a) /\ Own(h, d, s.last, j, a) BY <2>2 DEF Follows, Faithful
    <2>. HIDE DEF j, a, t
    <2>5. loser.stamp = h.stamp[loser.content] /\ Latest(h, loser.clock, loser.stamp)
      BY DEF Shows
    <2>6. ~a.deleted => a.stamp = loser.stamp BY <2>3, <2>4, <2>5 DEF Shows
    <2>7. loser.stamp \in Nat BY DEF Annotation, Stamp
    <2>8. Shows(h, j, b)
      <3>1. CASE ~a.deleted BY <2>3, <2>4, <2>5, <2>6, <2>7, <3>1, JoinedShows
      <3>2. CASE a.deleted
        <4>1. b.content = a.content /\ b.deleted = a.deleted /\ b.stamp = a.stamp
          BY <2>3 DEF Annotation
        <4>. QED BY <2>3, <2>4, <3>2, <4>1 DEF Shows
      <3>. QED BY <3>1, <3>2
    <2>9. b \in Annotation /\ b.stamp = a.stamp
      BY <2>3, JoinedProperties DEF Annotation
    <2>10. Own(h, d, s.last, j, b) BY <2>3, <2>4, <2>9 DEF Own
    <2>. HIDE DEF b
    <2>11. Follows(h, t, d) /\ t.last = s.last
      BY <1>2, <2>3, <2>8, <2>9, <2>10, PublishedFollows
    <2>. QED BY <2>11 DEF t
  <1>3. CASE t = Published(s, d, copy, loser)
    <2>1. copy \in Id /\ copy # Root BY MergeAssumption DEF Id, Root, Stamp, Annotation
    <2>2. copy[2] = loser.stamp OBVIOUS
    <2>. HIDE DEF t, copy
    <2>3. Shows(h, copy, loser) /\ Own(h, d, s.last, copy, loser)
      <3>1. loser.stamp = h.stamp[loser.content] /\ loser.stamp \in Nat
        BY DEF Shows, Annotation, Stamp
      <3>. QED BY <2>1, <2>2, <3>1 DEF Shows, Own
    <2>4. Follows(h, t, d) /\ t.last = s.last BY <1>3, <2>1, <2>3, PublishedFollows
    <2>. QED BY <2>4 DEF t
  <1>. QED BY <1>1, <1>2, <1>3 DEF Retained

\* The version that prevails is the later one, or a tombstone, and stays so under the
\* joined history.
LEMMA WinnerShows ==
  ASSUME NEW h, IsRecord(h), NEW i \in Id, NEW a \in Annotation, NEW b \in Annotation,
         Shows(h, i, a), Shows(h, i, b)
  PROVE  LET w == Winner(a, b)
             l == IF w = b THEN a ELSE b
         IN  /\ w \in Annotation /\ l \in Annotation
             /\ Shows(h, i, w) /\ Shows(h, i, l)
             /\ ~w.deleted /\ w.content \in h.own =>
                   ~l.deleted /\ l.content \in h.own /\ l.stamp <= w.stamp
             /\ Shows(h, i, [w EXCEPT !.clock = Joined(@, l.clock)])
  <1>. DEFINE w == Winner(a, b)
              l == IF w = b THEN a ELSE b
  <1>1. (w = a /\ l = b) \/ (w = b /\ l = a)
    <2>1. w = a \/ w = b BY WinnerOneOf
    <2>. QED BY <2>1
  <1>2. /\ w \in Annotation /\ l \in Annotation /\ Shows(h, i, w) /\ Shows(h, i, l) BY <1>1
  <1>3. a.stamp \in Nat /\ b.stamp \in Nat /\ a.deleted \in BOOLEAN /\ b.deleted \in BOOLEAN
    BY DEF Annotation, Stamp
  <1>4. ~w.deleted /\ w.content \in h.own =>
           ~l.deleted /\ l.content \in h.own /\ l.stamp <= w.stamp
    <2>1. CASE i = Root
      <3>1. /\ ~a.deleted /\ ~b.deleted
            /\ a.stamp = h.stamp[a.content] /\ b.stamp = h.stamp[b.content]
            /\ a.content \in h.own /\ b.content \in h.own
        BY <2>1 DEF Shows
      <3>2. w = IF a.content # b.content /\ a.stamp < b.stamp THEN b ELSE a
        BY <1>3, <3>1 DEF Winner
      <3>. HIDE DEF w
      <3>. QED BY <1>1, <1>3, <3>1, <3>2
    <2>2. CASE i # Root
      <3>. SUFFICES ASSUME ~w.deleted, w.content \in h.own
                    PROVE  ~l.deleted /\ l.content \in h.own /\ l.stamp <= w.stamp
        OBVIOUS
      <3>1. ~(w.stamp < l.stamp)
        <4>1. w = a => ~(a.stamp < b.stamp) \/ b = a BY DEF Winner
        <4>2. w = b => a.stamp < b.stamp \/ b = a BY DEF Winner
        <4>. QED BY <1>1, <1>3, <4>1, <4>2
      <3>. HIDE DEF w, l
      <3>2. /\ w.content \in h.texts /\ l.content \in h.texts
            /\ w.stamp = h.stamp[w.content] /\ w.stamp = i[2]
        BY <1>2, <2>2 DEF Shows
      <3>3. w.stamp \in Nat /\ l.stamp \in Nat /\ i[2] \in Nat
        BY <1>2 DEF Annotation, Stamp, Id
      <3>4. ~l.deleted BY <1>2, <2>2, <3>1, <3>2, <3>3 DEF Shows
      <3>5. l.stamp = h.stamp[l.content] /\ i[2] <= l.stamp BY <1>2, <2>2, <3>4 DEF Shows
      <3>6. l.stamp = w.stamp BY <3>1, <3>2, <3>3, <3>5
      <3>7. l.content = w.content
        <4>1. h.stamp[l.content] = h.stamp[w.content] BY <3>2, <3>5, <3>6
        <4>. QED BY <3>2, <4>1 DEF IsRecord
      <3>. QED BY <3>3, <3>4, <3>6, <3>7
    <2>. QED BY <2>1, <2>2
  <1>. HIDE DEF w, l
  <1>5. ~l.deleted /\ l.content \in h.own => Latest(h, l.clock, l.stamp) BY <1>2 DEF Shows
  <1>6. Shows(h, i, [w EXCEPT !.clock = Joined(@, l.clock)]) BY <1>2, <1>4, <1>5, JoinedShows
  <1>. QED BY <1>2, <1>4, <1>6 DEF w, l

LEMMA ResolvedFollows ==
  ASSUME NEW h, IsRecord(h), NEW s, IsStore(s), NEW d \in Device, Follows(h, s, d),
         NEW i \in DOMAIN s.annotations, NEW incoming \in Annotation, Shows(h, i, incoming),
         incoming.stamp <= s.last
  PROVE  LET t == Resolved(s, d, i, incoming)
         IN  Follows(h, t, d) /\ t.last = s.last
  <1>. DEFINE current == s.annotations[i]
              winner  == Winner(current, incoming)
              loser   == IF winner = incoming THEN current ELSE incoming
              kept    == IF /\ loser.content # winner.content
                            /\ ~loser.deleted
                            /\ i = Root
                         THEN Retained(s, d, loser)
                         ELSE s
              b == [winner EXCEPT !.clock = Joined(@, loser.clock)]
              t == Resolved(s, d, i, incoming)
  <1>1. t = Published(kept, d, i, b) BY DEF Resolved
  <1>2. /\ current \in Annotation /\ i \in Id
        /\ Shows(h, i, current) /\ Own(h, d, s.last, i, current)
    BY DEF IsStore, IsTable, Follows, Faithful
  <1>3. /\ winner \in Annotation /\ loser \in Annotation
        /\ Shows(h, i, loser) /\ Shows(h, i, b)
    BY <1>2, WinnerShows
  <1>4. (winner = current /\ loser = incoming) \/ (winner = incoming /\ loser = current)
    <2>1. winner = current \/ winner = incoming BY WinnerOneOf
    <2>. QED BY <2>1
  <1>5. winner.stamp <= s.last /\ loser.stamp <= s.last BY <1>2, <1>4 DEF Own
  <1>6. IsStore(kept) /\ Follows(h, kept, d) /\ kept.last = s.last
    <2>1. CASE kept = s BY <2>1
    <2>2. CASE kept = Retained(s, d, loser) /\ ~loser.deleted /\ i = Root
      <3>. HIDE DEF loser, kept, winner
      <3>. QED BY <1>3, <1>5, <2>2, RetainedStore, RetainedFollows
    <2>. QED BY <2>1, <2>2
  <1>7. b \in Annotation BY <1>3, JoinedProperties DEF Annotation
  <1>8. Own(h, d, kept.last, i, b)
    <2>1. b.stamp = winner.stamp /\ b.clock[d] = Joined(winner.clock, loser.clock)[d]
      BY <1>3 DEF Annotation
    <2>2. b.stamp <= kept.last BY <1>5, <1>6, <2>1
    <2>3. ASSUME i = Root PROVE b.clock[d] = h.count[d]
      <3>1. current.clock[d] = h.count[d] BY <1>2, <2>3 DEF Own
      <3>2. incoming.clock[d] <= h.count[d] BY <2>3 DEF Shows, Latest
      <3>3. /\ current.clock[d] \in Nat /\ incoming.clock[d] \in Nat
            /\ winner.clock[d] \in Nat /\ loser.clock[d] \in Nat
        BY <1>2, <1>3 DEF Annotation, VectorClock
      <3>. HIDE DEF b, winner, loser, current, kept
      <3>4. Joined(winner.clock, loser.clock)[d] = h.count[d]
        BY <1>4, <3>1, <3>2, <3>3 DEF Joined
      <3>. QED BY <2>1, <3>4
    <2>. QED BY <2>2, <2>3 DEF Own
  <1>. HIDE DEF b, kept, t
  <1>9. Follows(h, t, d) /\ t.last = kept.last
    BY <1>1, <1>2, <1>3, <1>6, <1>7, <1>8, PublishedFollows
  <1>. QED BY <1>6, <1>9 DEF t

LEMMA MergedFollows ==
  ASSUME ~Skewed, NEW h, IsRecord(h), NEW s, IsStore(s), NEW d \in Device, Follows(h, s, d),
         NEW i \in Id, NEW incoming \in Annotation, Shows(h, i, incoming)
  PROVE  Follows(h, Merged(s, d, i, incoming), d)
  <1>. DEFINE ticked == Ticked(s, incoming.stamp)
              known  == i \in DOMAIN s.annotations
              clock  == s.annotations[i].clock
              t      == Merged(s, d, i, incoming)
  <1>0. incoming.stamp \in Nat /\ incoming.clock \in VectorClock BY DEF Annotation, Stamp
  <1>1. IsStore(ticked) /\ ticked.annotations = s.annotations BY <1>0, TickedStore
  <1>2. s.last <= ticked.last /\ incoming.stamp <= ticked.last
    <2>1. s.last \in Nat /\ ticked.last = Max({s.last, incoming.stamp}) BY DEF Ticked, IsStore
    <2>. QED BY <1>0, <2>1, MaxOfTwo
  <1>3. t = IF known /\ Leq(incoming.clock, clock)
            THEN ticked
            ELSE IF known => Leq(clock, incoming.clock)
                 THEN Written(ticked, i, incoming)
                 ELSE Resolved(ticked, d, i, incoming)
    BY DEF Merged
  <1>. HIDE DEF ticked
  <1>4. Follows(h, ticked, d)
    <2>1. \A j \in DOMAIN s.annotations : s.annotations[j].stamp \in Nat
      BY DEF IsStore, IsTable, Annotation, Stamp
    <2>2. s.last \in Nat /\ ticked.last \in Nat BY <1>1 DEF IsStore
    <2>. QED BY <1>1, <1>2, <2>1, <2>2 DEF Follows, Own
  <1>. HIDE DEF t
  <1>5. CASE t = ticked BY <1>4, <1>5 DEF t
  <1>6. CASE t = Written(ticked, i, incoming) /\ (known => Leq(clock, incoming.clock))
    <2>1. Own(h, d, ticked.last, i, incoming)
      <3>. SUFFICES ASSUME i = Root PROVE incoming.clock[d] = h.count[d] BY <1>2 DEF Own
      <3>1. incoming.clock[d] <= h.count[d] BY DEF Shows, Latest
      <3>2. incoming.clock[d] \in Nat BY <1>0 DEF VectorClock
      <3>3. CASE known
        <4>1. clock[d] = h.count[d] BY <3>3 DEF Follows, Own
        <4>2. clock[d] <= incoming.clock[d] BY <1>6, <3>3 DEF Leq
        <4>3. h.count[d] \in Nat BY DEF IsRecord
        <4>. QED BY <3>1, <3>2, <4>1, <4>2, <4>3
      <3>4. CASE ~known
        <4>1. h.count[d] = 0 BY <3>4 DEF Follows
        <4>. QED BY <3>1, <3>2, <4>1
      <3>. QED BY <3>3, <3>4
    <2>2. t.last = ticked.last /\ ticked.last \in Nat BY <1>1, <1>6, WrittenStore DEF IsStore
    <2>3. Follows(h, t, d) BY <1>1, <1>4, <1>6, <2>1, <2>2, WrittenFollows
    <2>. QED BY <2>3 DEF t
  <1>7. CASE t = Resolved(ticked, d, i, incoming) /\ known
    <2>1. Follows(h, t, d) BY <1>1, <1>2, <1>4, <1>7, ResolvedFollows
    <2>. QED BY <2>1 DEF t
  <1>. QED BY <1>3, <1>5, <1>6, <1>7

\* Compaction deletes the annotation it is about, and no other one.
LEMMA CompactedOneFollows ==
  ASSUME NEW h, IsRecord(h), NEW s, IsStore(s), NEW d \in Device, Follows(h, s, d),
         NEW i \in Live(s.annotations)
  PROVE  LET t == CompactedOne(s, d, i)
         IN  /\ Follows(h, t, d)
             /\ \A k \in Live(s.annotations) \ {i} : k \in Live(t.annotations)
  <1>. DEFINE table == s.annotations
              survivors == {j \in Live(table) : Precedes(j, i) /\ table[j].content = table[i].content}
              j     == FirstId(survivors)
              clock == Joined(table[j].clock, table[i].clock)
              next  == Min(Free(s, s.last + 1 + Cardinality(s.used)))
              b     == [table[j] EXCEPT !.clock = clock]
              met   == IF clock = table[j].clock THEN s ELSE Published(s, d, j, b)
              a     == [table[i] EXCEPT !.clock = Advanced(clock, d), !.stamp = next,
                                        !.deleted = TRUE, !.origin = d]
              w     == Written(met, i, a)
              t     == CompactedOne(s, d, i)
  <1>1. t = IF survivors = {}
            THEN s
            ELSE [w EXCEPT !.last = next, !.changed = TRUE, !.used = @ \cup {next}]
    BY DEF CompactedOne
  <1>2. CASE survivors = {} BY <1>1, <1>2
  <1>3. CASE survivors # {}
    <2>1. survivors \subseteq DOMAIN table /\ i \in DOMAIN table BY DEF Live
    <2>2. survivors \subseteq Id /\ IsFiniteSet(survivors)
      BY <2>1, FS_Subset DEF IsStore, IsTable
    <2>3. j \in survivors BY <1>3, <2>2, FirstIdIn
    <2>4. /\ i \in Id /\ j \in Id /\ table[i] \in Annotation /\ table[j] \in Annotation
          /\ j \in DOMAIN table
      BY <2>1, <2>2, <2>3 DEF IsStore, IsTable
    <2>5. /\ Precedes(j, i) /\ table[j].content = table[i].content
          /\ ~table[j].deleted /\ ~table[i].deleted
      BY <2>3 DEF Live
    <2>6. i # Root /\ j # i
      <3>1. \A k \in Id : ~Precedes(k, Root) /\ ~Precedes(k, k)
        BY DEF Precedes, Id, Root, Stamp
      <3>. QED BY <2>4, <2>5, <3>1
    <2>7. next \in Nat /\ s.last < next BY FreeStamp
    <2>. HIDE DEF j, next, survivors
    <2>8. /\ Shows(h, j, table[j]) /\ Own(h, d, s.last, j, table[j])
          /\ Shows(h, i, table[i]) /\ Own(h, d, s.last, i, table[i])
      BY <2>1, <2>4 DEF Follows, Faithful
    <2>9. /\ table[i].stamp = table[j].stamp
          /\ table[j].content \in h.own => Latest(h, table[i].clock, table[i].stamp)
      BY <2>5, <2>8 DEF Shows
    <2>10. table[j].stamp \in Nat BY <2>4 DEF Annotation, Stamp
    <2>11. Shows(h, j, b) BY <2>4, <2>5, <2>8, <2>9, <2>10, JoinedShows
    <2>12. clock \in VectorClock BY <2>4, JoinedProperties DEF Annotation
    <2>13. /\ b \in Annotation /\ b.stamp = table[j].stamp /\ b.clock = clock
           /\ b.deleted = table[j].deleted
      BY <2>4, <2>12 DEF Annotation
    <2>14. Own(h, d, s.last, j, b)
      <3>. SUFFICES ASSUME j = Root PROVE clock[d] = h.count[d] BY <2>8, <2>13 DEF Own
      <3>1. table[j].clock[d] = h.count[d] BY <2>8 DEF Own
      <3>2. table[i].clock[d] <= h.count[d] BY <2>8, <2>9 DEF Shows, Latest
      <3>3. table[j].clock[d] \in Nat /\ table[i].clock[d] \in Nat
        BY <2>4 DEF Annotation, VectorClock
      <3>. QED BY <3>1, <3>2, <3>3 DEF Joined
    <2>15. /\ a \in Annotation /\ a.content = table[i].content /\ a.deleted /\ a.stamp = next
      <3>1. Advanced(clock, d) \in VectorClock BY <2>12, AdvancedProperties
      <3>. HIDE DEF clock
      <3>. QED BY <2>4, <2>7, <3>1 DEF Annotation, Stamp
    <2>16. Shows(h, i, a)
      <3>1. /\ table[i].stamp <= s.last /\ table[i].stamp = h.stamp[table[i].content]
            /\ i[2] <= table[i].stamp
        BY <2>5, <2>6, <2>8 DEF Shows, Own
      <3>2. i[2] \in Nat /\ table[i].stamp \in Nat /\ s.last \in Nat
        BY <2>4 DEF Id, Annotation, Stamp, IsStore
      <3>3. i[2] < a.stamp BY <2>7, <2>15, <3>1, <3>2
      <3>. QED BY <2>6, <2>8, <2>15, <3>3 DEF Shows
    <2>. HIDE DEF clock, b, a
    <2>17. /\ IsStore(met) /\ Follows(h, met, d) /\ met.last = s.last
           /\ DOMAIN met.annotations = DOMAIN table
           /\ \A k \in DOMAIN table : ~table[k].deleted => ~met.annotations[k].deleted
      <3>1. CASE met = s BY <3>1
      <3>2. CASE met = Published(s, d, j, b)
        <4>. DEFINE c == [b EXCEPT !.origin = d]
                    v == Written(s, j, c)
        <4>1. c \in Annotation /\ c.deleted = b.deleted BY <2>13 DEF Annotation
        <4>2. met = [v EXCEPT !.changed = TRUE] BY <3>2 DEF Published
        <4>. HIDE DEF c
        <4>3. /\ IsStore(v)
              /\ DOMAIN v.annotations = DOMAIN table \cup {j} /\ v.annotations[j] = c
              /\ \A k \in DOMAIN table \ {j} : v.annotations[k] = table[k]
          <5>1. j \in Id /\ IsStore(s) /\ c \in Annotation BY <2>4, <4>1
          <5>. QED BY <5>1, WrittenStore
        <4>. HIDE DEF v, met
        <4>4. met.annotations = v.annotations /\ IsStore(met) BY <4>2, <4>3 DEF IsStore
        <4>5. Follows(h, met, d) /\ met.last = s.last
          BY <2>4, <2>11, <2>13, <2>14, <3>2, PublishedFollows
        <4>. QED BY <2>4, <2>13, <4>1, <4>3, <4>4, <4>5
      <3>. QED BY <3>1, <3>2
    <2>. HIDE DEF met
    <2>18. /\ IsStore(w) /\ w.last = s.last
           /\ DOMAIN w.annotations = DOMAIN met.annotations \cup {i}
           /\ \A k \in DOMAIN met.annotations \ {i} : w.annotations[k] = met.annotations[k]
      <3>1. i \in Id /\ IsStore(met) /\ a \in Annotation BY <2>4, <2>15, <2>17
      <3>. QED BY <2>17, <3>1, WrittenStore
    <2>19. w.annotations = Written(met, i, a).annotations OBVIOUS
    <2>20. t = [w EXCEPT !.last = next, !.changed = TRUE, !.used = @ \cup {next}]
      BY <1>1, <1>3
    <2>. HIDE DEF w, t
    <2>21. t.annotations = w.annotations /\ t.last = next BY <2>18, <2>20 DEF IsStore
    <2>22. Follows(h, t, d)
      <3>1. Own(h, d, t.last, i, a) BY <2>6, <2>7, <2>15, <2>21 DEF Own
      <3>2. t.last \in Nat /\ met.last <= t.last
        <4>1. s.last \in Nat BY DEF IsStore
        <4>. QED BY <2>7, <2>17, <2>21, <4>1
      <3>. QED BY <2>4, <2>15, <2>16, <2>17, <2>19, <2>21, <3>1, <3>2, WrittenFollows
    <2>23. \A k \in Live(s.annotations) \ {i} : k \in Live(t.annotations)
      BY <2>1, <2>17, <2>18, <2>21 DEF Live
    <2>. QED BY <2>22, <2>23 DEF t
  <1>. QED BY <1>2, <1>3

LEMMA CompactedFollows ==
  ASSUME NEW h, IsRecord(h), NEW store, IsStore(store), NEW d \in Device, Follows(h, store, d)
  PROVE  Follows(h, Compacted(store, d), d)
  <1>. DEFINE S == Live(store.annotations)
  <1>1. S \subseteq Id /\ IsFiniteSet(S)
    BY FS_Subset DEF IsStore, IsTable, Live
  <1>2. PICK g : /\ Compacted(store, d) = g[S]
                 /\ \A s \in SUBSET S : g[s] = FoldStep("compact", store, d, {}, g, s)
    BY CompactedFold
  <1>0. S = Live(store.annotations) OBVIOUS
  <1>. HIDE DEF S
  <1>. DEFINE A == {s \in SUBSET S : /\ IsStore(g[s]) /\ Follows(h, g[s], d)
                                     /\ S \ s \subseteq Live(g[s].annotations)}
  <1>3. {} \in A
    <2>1. g[{}] = store BY <1>2 DEF FoldStep
    <2>. QED BY <1>0, <2>1
  <1>4. ASSUME NEW s \in SUBSET S, s # {}, \A x \in s : s \ {x} \in A PROVE s \in A
    <2>. DEFINE i == LastId(s)
                r == g[s \ {i}]
    <2>1. i \in s
      <3>1. IsFiniteSet(s) BY <1>1, FS_Subset
      <3>. QED BY <1>1, <1>4, <3>1, LastIdIn
    <2>2. IsStore(r) /\ Follows(h, r, d) /\ S \ (s \ {i}) \subseteq Live(r.annotations)
      BY <1>4, <2>1
    <2>3. i \in Live(r.annotations) /\ i \in DOMAIN r.annotations BY <2>1, <2>2 DEF Live
    <2>4. g[s] = CompactedOne(r, d, i) BY <1>2, <1>4 DEF FoldStep, FoldOne
    <2>. HIDE DEF i, r
    <2>5. /\ IsStore(g[s]) /\ Follows(h, g[s], d)
          /\ \A k \in Live(r.annotations) \ {i} : k \in Live(g[s].annotations)
      BY <2>2, <2>3, <2>4, CompactedOneStore, CompactedOneFollows
    <2>6. S \ s \subseteq Live(g[s].annotations) BY <2>1, <2>2, <2>5
    <2>. QED BY <2>5, <2>6
  <1>. HIDE DEF A
  <1>5. S \in A BY <1>1, <1>3, <1>4, SubsetInduction
  <1>. QED BY <1>2, <1>5 DEF A

LEMMA MergedFileFollows ==
  ASSUME ~Skewed, NEW h, IsRecord(h), NEW store, IsStore(store), NEW d \in Device,
         Follows(h, store, d), NEW incoming, IsTable(incoming), Faithful(h, incoming)
  PROVE  Follows(h, MergedFile(store, d, incoming), d)
  <1>. DEFINE t == MergedFile(store, d, incoming)
              S == DOMAIN incoming
              m == MergedAll(store, d, incoming)
  <1>1. CASE incoming = <<>> BY <1>1 DEF MergedFile
  <1>2. CASE incoming # <<>>
    <2>1. /\ S \subseteq Id /\ IsFiniteSet(S)
          /\ \A i \in S : incoming[i] \in Annotation /\ Shows(h, i, incoming[i])
      BY DEF IsTable, Faithful
    <2>2. PICK g : /\ m = g[S]
                   /\ \A s \in SUBSET S : g[s] = FoldStep("merge", store, d, incoming, g, s)
      BY MergedAllFold
    <2>3. t = Compacted(m, d) BY <1>2 DEF MergedFile, MergedAll
    <2>. HIDE DEF S, t, m
    <2>. DEFINE A == {s \in SUBSET S : IsStore(g[s]) /\ Follows(h, g[s], d)}
    <2>4. {} \in A
      <3>1. g[{}] = store BY <2>2 DEF FoldStep
      <3>. QED BY <3>1
    <2>5. ASSUME NEW s \in SUBSET S, s # {}, \A x \in s : s \ {x} \in A PROVE s \in A
      <3>. DEFINE i == LastId(s)
                  r == g[s \ {i}]
      <3>1. i \in s
        <4>1. IsFiniteSet(s) BY <2>1, FS_Subset
        <4>. QED BY <2>1, <2>5, <4>1, LastIdIn
      <3>2. IsStore(r) /\ Follows(h, r, d) BY <2>5, <3>1
      <3>3. g[s] = Merged(r, d, i, incoming[i]) BY <2>2, <2>5 DEF FoldStep, FoldOne
      <3>4. i \in Id /\ incoming[i] \in Annotation /\ Shows(h, i, incoming[i]) BY <2>1, <3>1
      <3>. HIDE DEF i, r
      <3>5. IsStore(g[s]) /\ Follows(h, g[s], d)
        BY <3>2, <3>3, <3>4, MergedStore, MergedFollows
      <3>. QED BY <3>5
    <2>. HIDE DEF A
    <2>6. S \in A BY <2>1, <2>4, <2>5, SubsetInduction
    <2>7. IsStore(m) /\ Follows(h, m, d) BY <2>2, <2>6 DEF A
    <2>8. Follows(h, t, d) BY <2>3, <2>7, CompactedFollows
    <2>. QED BY <2>8 DEF t
  <1>. QED BY <1>1, <1>2

\* h records what readers wrote.
Recorded(h) ==
    /\ IsRecord(h)
    /\ h.texts = written
    /\ \A c \in written : h.stamp[c] \in used
    /\ \A d \in Device : Follows(h, Store(d), d) /\ Faithful(h, file[d])

RecordInv == repeated \/ \E h : Recorded(h)

\* A transaction of d that writes no new text.
LEMMA CommitRecorded ==
  ASSUME MergeInv, NEW h, Recorded(h), NEW d \in Device, NEW t, IsStore(t), used \subseteq t.used,
         Follows(h, t, d), Commit(d, t), UNCHANGED <<file, written>>
  PROVE  Recorded(h)'
  <1>1. /\ annotations' = [annotations EXCEPT ![d] = t.annotations]
        /\ last' = [last EXCEPT ![d] = t.last]
        /\ used' = t.used
    BY DEF Commit
  <1>2. ASSUME NEW e \in Device PROVE Follows(h, Store(e)', e)
    <2>1. Store(e)'.annotations = annotations'[e] /\ Store(e)'.last = last'[e] BY DEF Store
    <2>2. CASE e = d
      <3>1. annotations'[e] = t.annotations /\ last'[e] = t.last
        BY <1>1, <2>2 DEF MergeInv, StoresOK
      <3>. QED BY <2>1, <2>2, <3>1 DEF Follows
    <2>3. CASE e # d
      <3>1. annotations'[e] = annotations[e] /\ last'[e] = last[e]
        BY <1>1, <2>3 DEF MergeInv, StoresOK
      <3>2. Follows(h, Store(e), e) BY DEF Recorded
      <3>3. Store(e).annotations = annotations[e] /\ Store(e).last = last[e] BY DEF Store
      <3>. QED BY <2>1, <3>1, <3>2, <3>3 DEF Follows
    <2>. QED BY <2>2, <2>3
  <1>. QED BY <1>1, <1>2 DEF Recorded

\* A reader wrote version a of i on d, of a text of contents, or deleted i: the record
\* is x now.
LEMMA WriteRecorded ==
  ASSUME MergeInv, NEW h, Recorded(h), NEW d \in Device, NEW i \in Id, NEW a \in Annotation,
         NEW contents, Write(d, i, a, contents),
         annotations[d] = <<>> \/ last[d] < a.stamp,
         NEW x, IsRecord(x), x.texts = written \cup contents,
         \A c \in written : x.stamp[c] = h.stamp[c],
         \A c \in contents : x.stamp[c] = a.stamp,
         \A j \in Id, b \in Annotation : Shows(h, j, b) => Shows(x, j, b),
         \A e \in Device \ {d} : x.count[e] = h.count[e],
         i # Root => x.count[d] = h.count[d],
         Shows(x, i, a), Own(x, d, a.stamp, i, a)
  PROVE  Recorded(x)'
  <1>1. /\ annotations' = [annotations EXCEPT ![d] = Written(Store(d), i, a).annotations]
        /\ last' = [last EXCEPT ![d] = a.stamp]
        /\ used' = used \cup {a.stamp}
        /\ written' = written \cup contents
        /\ file' = file
    BY DEF Write, Commit, Written, Store
  <1>2. ASSUME NEW t, IsTable(t), Faithful(h, t) PROVE Faithful(x, t)
    BY <1>2 DEF Faithful, IsTable
  <1>3. ASSUME NEW e \in Device PROVE Faithful(x, file[e])
    BY <1>2 DEF Recorded, MergeInv, FilesOK
  <1>4. ASSUME NEW e \in Device PROVE Follows(x, Store(e)', e)
    <2>1. Store(e)'.annotations = annotations'[e] /\ Store(e)'.last = last'[e] BY DEF Store
    <2>2. Store(e).annotations = annotations[e] /\ Store(e).last = last[e] BY DEF Store
    <2>3. Follows(h, Store(e), e) BY DEF Recorded
    <2>4. Faithful(x, annotations[e]) BY <1>2, <2>2, <2>3 DEF Follows, MergeInv, StoresOK
    <2>5. CASE e = d
      <3>. DEFINE w == Written(Store(d), i, a)
      <3>1. annotations'[d] = w.annotations /\ last'[d] = a.stamp
        BY <1>1 DEF MergeInv, StoresOK
      <3>2. IsStore(Store(d)) BY StoreStore DEF MergeInv
      <3>3. /\ DOMAIN w.annotations = DOMAIN annotations[d] \cup {i}
            /\ w.annotations[i] = a
            /\ \A j \in DOMAIN annotations[d] \ {i} : w.annotations[j] = annotations[d][j]
        BY <2>2, <2>5, <3>2, WrittenStore
      <3>. HIDE DEF w
      <3>4. Faithful(x, w.annotations) BY <2>4, <2>5, <3>3 DEF Faithful
      <3>5. ASSUME NEW j \in DOMAIN annotations[d], j # i
            PROVE  Own(x, d, a.stamp, j, annotations[d][j])
        <4>1. Own(h, d, last[d], j, annotations[d][j]) BY <2>2, <2>3, <2>5 DEF Follows
        <4>2. last[d] < a.stamp BY <3>5
        <4>3. last[d] \in Nat /\ annotations[d][j] \in Annotation
          BY DEF MergeInv, StoresOK, IsTable
        <4>4. annotations[d][j].stamp \in Nat /\ a.stamp \in Nat BY <4>3 DEF Annotation, Stamp
        <4>5. j = Root => x.count[d] = h.count[d] BY <3>5
        <4>. QED BY <4>1, <4>2, <4>3, <4>4, <4>5 DEF Own
      <3>6. \A j \in DOMAIN w.annotations : Own(x, d, a.stamp, j, w.annotations[j])
        <4>. SUFFICES ASSUME NEW j \in DOMAIN w.annotations
                      PROVE  Own(x, d, a.stamp, j, w.annotations[j])
          OBVIOUS
        <4>1. CASE j = i BY <3>3, <4>1
        <4>2. CASE j # i BY <3>3, <3>5, <4>2
        <4>. QED BY <4>1, <4>2
      <3>7. Root \notin DOMAIN w.annotations => x.count[d] = 0
        BY <2>2, <2>3, <2>5, <3>3 DEF Follows
      <3>. QED BY <2>1, <2>5, <3>1, <3>4, <3>6, <3>7 DEF Follows
    <2>6. CASE e # d
      <3>1. annotations'[e] = annotations[e] /\ last'[e] = last[e]
        BY <1>1, <2>6 DEF MergeInv, StoresOK
      <3>2. x.count[e] = h.count[e] BY <2>6
      <3>. QED BY <2>1, <2>2, <2>3, <2>4, <3>1, <3>2 DEF Follows, Own
    <2>. QED BY <2>5, <2>6
  <1>5. \A c \in written' : x.stamp[c] \in used' BY <1>1 DEF Recorded
  <1>. QED BY <1>1, <1>3, <1>4, <1>5 DEF Recorded

\* The record h with one more text.
Named(h, c, n) == [h EXCEPT !.texts = @ \cup {c}, !.stamp = [@ EXCEPT ![c] = n]]

LEMMA NamedRecord ==
  ASSUME NEW h, IsRecord(h), NEW c \in Content, c \notin h.texts, NEW n \in Nat,
         \A e \in h.texts : h.stamp[e] # n
  PROVE  LET x == Named(h, c, n)
         IN  /\ IsRecord(x)
             /\ x.texts = h.texts \cup {c} /\ x.own = h.own
             /\ x.stamp[c] = n /\ \A e \in h.texts : x.stamp[e] = h.stamp[e]
             /\ x.count = h.count /\ x.edit = h.edit
  <1>. DEFINE x == Named(h, c, n)
  <1>0. h.texts \subseteq Content /\ h.stamp \in [Content -> Nat] BY DEF IsRecord
  <1>1. /\ x.texts = h.texts \cup {c} /\ x.own = h.own
        /\ x.stamp = [h.stamp EXCEPT ![c] = n]
        /\ x.count = h.count /\ x.edit = h.edit
    BY DEF Named, IsRecord
  <1>2. x \in [texts : SUBSET Content, own : SUBSET Content, stamp : [Content -> Nat],
               edit : [Device -> [Nat -> Nat]], count : [Device -> Nat]]
    <2>1. [h.stamp EXCEPT ![c] = n] \in [Content -> Nat] /\ h.texts \cup {c} \subseteq Content
      BY <1>0
    <2>. QED BY <2>1 DEF Named, IsRecord
  <1>. HIDE DEF x
  <1>3. x.stamp[c] = n /\ \A e \in h.texts : x.stamp[e] = h.stamp[e] BY <1>0, <1>1
  <1>4. \A e, f \in x.texts : x.stamp[e] = x.stamp[f] => e = f BY <1>1, <1>3 DEF IsRecord
  <1>5. x.own \subseteq x.texts BY <1>1 DEF IsRecord
  <1>6. IsRecord(x) BY <1>2, <1>4, <1>5 DEF IsRecord
  <1>. QED BY <1>1, <1>3, <1>6 DEF x

\* ... written into the highlight by an edit of d.
Extended(h, d, c, n) ==
    LET y == Named(h, c, n)
    IN  [texts |-> y.texts, own |-> y.own \cup {c}, stamp |-> y.stamp,
         edit  |-> [y.edit EXCEPT ![d] = [@ EXCEPT ![h.count[d] + 1] = n]],
         count |-> [y.count EXCEPT ![d] = @ + 1]]

LEMMA ExtendedRecord ==
  ASSUME NEW h, IsRecord(h), NEW d \in Device, NEW c \in Content, c \notin h.texts, NEW n \in Nat,
         \A e \in h.texts : h.stamp[e] # n
  PROVE  LET x == Extended(h, d, c, n)
         IN  /\ IsRecord(x)
             /\ x.texts = h.texts \cup {c} /\ x.own = h.own \cup {c}
             /\ x.stamp[c] = n /\ \A e \in h.texts : x.stamp[e] = h.stamp[e]
             /\ x.count[d] = h.count[d] + 1
             /\ \A e \in Device \ {d} : x.count[e] = h.count[e] /\ x.edit[e] = h.edit[e]
             /\ x.edit[d][h.count[d] + 1] = n
             /\ \A k \in Nat \ {h.count[d] + 1} : x.edit[d][k] = h.edit[d][k]
  <1>. DEFINE y == Named(h, c, n)
              x == Extended(h, d, c, n)
  <1>0. /\ h.edit \in [Device -> [Nat -> Nat]] /\ h.count \in [Device -> Nat]
        /\ h.count[d] + 1 \in Nat
    BY DEF IsRecord
  <1>1. /\ IsRecord(y)
        /\ y.texts = h.texts \cup {c} /\ y.own = h.own
        /\ y.stamp[c] = n /\ \A e \in h.texts : y.stamp[e] = h.stamp[e]
        /\ y.count = h.count /\ y.edit = h.edit
    BY NamedRecord
  <1>2. x = [texts |-> y.texts, own |-> y.own \cup {c}, stamp |-> y.stamp,
             edit  |-> [y.edit EXCEPT ![d] = [@ EXCEPT ![h.count[d] + 1] = n]],
             count |-> [y.count EXCEPT ![d] = @ + 1]]
    BY DEF Extended
  <1>. HIDE DEF x, y
  <1>3. /\ x.texts = y.texts /\ x.own = y.own \cup {c} /\ x.stamp = y.stamp
        /\ x.count = [h.count EXCEPT ![d] = h.count[d] + 1]
        /\ x.edit = [h.edit EXCEPT ![d] = [h.edit[d] EXCEPT ![h.count[d] + 1] = n]]
        /\ x = [texts |-> x.texts, own |-> x.own, stamp |-> x.stamp,
                edit |-> x.edit, count |-> x.count]
    BY <1>1, <1>2
  <1>4. /\ x.count \in [Device -> Nat]
        /\ x.count[d] = h.count[d] + 1
        /\ \A e \in Device \ {d} : x.count[e] = h.count[e]
    BY <1>0, <1>3
  <1>5. /\ x.edit \in [Device -> [Nat -> Nat]]
        /\ \A e \in Device \ {d} : x.edit[e] = h.edit[e]
        /\ x.edit[d] = [h.edit[d] EXCEPT ![h.count[d] + 1] = n]
    BY <1>0, <1>3
  <1>6. /\ x.edit[d][h.count[d] + 1] = n
        /\ \A k \in Nat \ {h.count[d] + 1} : x.edit[d][k] = h.edit[d][k]
    BY <1>0, <1>5
  <1>7. x \in [texts : SUBSET Content, own : SUBSET Content, stamp : [Content -> Nat],
               edit : [Device -> [Nat -> Nat]], count : [Device -> Nat]]
    <2>1. x.texts \subseteq Content /\ x.own \subseteq Content /\ x.stamp \in [Content -> Nat]
      BY <1>1, <1>3 DEF IsRecord
    <2>. QED BY <1>3, <1>4, <1>5, <2>1
  <1>8. /\ \A e, f \in x.texts : x.stamp[e] = x.stamp[f] => e = f
        /\ x.own \subseteq x.texts
    BY <1>1, <1>3 DEF IsRecord
  <1>9. IsRecord(x) BY <1>7, <1>8 DEF IsRecord
  <1>. QED BY <1>1, <1>3, <1>4, <1>5, <1>6, <1>9 DEF x

\* What was recorded stays recorded.
LEMMA NamedShows ==
  ASSUME NEW h, IsRecord(h), NEW c \in Content, c \notin h.texts, NEW n \in Nat,
         \A e \in h.texts : h.stamp[e] # n,
         NEW i, NEW a \in Annotation, Shows(h, i, a)
  PROVE  Shows(Named(h, c, n), i, a)
  <1>. DEFINE x == Named(h, c, n)
  <1>1. /\ x.texts = h.texts \cup {c} /\ x.own = h.own
        /\ \A e \in h.texts : x.stamp[e] = h.stamp[e]
        /\ x.count = h.count /\ x.edit = h.edit
    BY NamedRecord
  <1>. HIDE DEF x
  <1>2. Shows(x, i, a) BY <1>1 DEF Shows, Latest
  <1>. QED BY <1>2 DEF x

LEMMA ExtendedShows ==
  ASSUME NEW h, IsRecord(h), NEW d \in Device, NEW c \in Content, c \notin h.texts, NEW n \in Nat,
         \A e \in h.texts : h.stamp[e] # n,
         NEW i, NEW a \in Annotation, Shows(h, i, a)
  PROVE  Shows(Extended(h, d, c, n), i, a)
  <1>. DEFINE x == Extended(h, d, c, n)
  <1>1. /\ x.texts = h.texts \cup {c} /\ x.own = h.own \cup {c}
        /\ \A e \in h.texts : x.stamp[e] = h.stamp[e]
        /\ x.count[d] = h.count[d] + 1
        /\ \A e \in Device \ {d} : x.count[e] = h.count[e] /\ x.edit[e] = h.edit[e]
        /\ \A k \in Nat \ {h.count[d] + 1} : x.edit[d][k] = h.edit[d][k]
    BY ExtendedRecord
  <1>. HIDE DEF x
  <1>2. /\ x.stamp[a.content] = h.stamp[a.content] /\ a.content \in x.texts
        /\ a.content \in x.own <=> a.content \in h.own
    BY <1>1 DEF Shows
  <1>3. ASSUME ~a.deleted, a.content \in h.own PROVE Latest(x, a.clock, a.stamp)
    <2>1. Latest(h, a.clock, a.stamp) BY <1>3 DEF Shows
    <2>2. \A e \in Device : a.clock[e] \in Nat /\ h.count[e] \in Nat
      BY DEF Annotation, VectorClock, IsRecord
    <2>3. \A e \in Device : \A k \in 1..a.clock[e] : x.edit[e][k] = h.edit[e][k]
      <3>. SUFFICES ASSUME NEW e \in Device, NEW k \in 1..a.clock[e]
                    PROVE  x.edit[e][k] = h.edit[e][k]
        OBVIOUS
      <3>1. a.clock[e] <= h.count[e] BY <2>1 DEF Latest
      <3>2. k \in Nat /\ (e = d => k # h.count[d] + 1) BY <2>2, <3>1
      <3>. QED BY <1>1, <3>2
    <2>4. \A e \in Device : a.clock[e] <= x.count[e] BY <1>1, <2>1, <2>2 DEF Latest
    <2>. QED BY <2>1, <2>3, <2>4 DEF Latest
  <1>4. Shows(x, i, a) BY <1>2, <1>3 DEF Shows
  <1>. QED BY <1>4 DEF x

\* A new version of the highlight has all edits of its device in its history, and the
\* others that the version before had.
Succeeds(h, d, a) ==
    /\ ~a.deleted
    /\ a.stamp \in Nat \ used
    /\ annotations[d] = <<>> \/ last[d] < a.stamp
    /\ a.clock[d] = h.count[d] + 1
    /\ \A e \in Device \ {d} :
          a.clock[e] = IF Root \in DOMAIN annotations[d] THEN annotations[d][Root].clock[e] ELSE 0

LEMMA SucceedsLatest ==
  ASSUME MergeInv, NEW h, Recorded(h), NEW d \in Device, NEW a \in Annotation,
         a.content \notin written, Succeeds(h, d, a)
  PROVE  LET x == Extended(h, d, a.content, a.stamp)
         IN  Latest(x, a.clock, a.stamp)
  <1>. DEFINE n == h.count[d]
              x == Extended(h, d, a.content, a.stamp)
              old == annotations[d][Root]
  <1>0. /\ IsRecord(h) /\ a.content \in Content /\ a.content \notin h.texts
        /\ a.stamp \in Nat /\ \A e \in h.texts : h.stamp[e] # a.stamp
        /\ n \in Nat /\ \A e \in Device : a.clock[e] \in Nat /\ h.count[e] \in Nat
    BY DEF Recorded, Succeeds, Annotation, VectorClock, IsRecord
  <1>1. /\ x.count[d] = n + 1 /\ x.edit[d][n + 1] = a.stamp
        /\ \A e \in Device \ {d} : x.count[e] = h.count[e] /\ x.edit[e] = h.edit[e]
        /\ \A k \in Nat \ {n + 1} : x.edit[d][k] = h.edit[d][k]
    BY <1>0, ExtendedRecord
  <1>. HIDE DEF x
  <1>2. Follows(h, Store(d), d) BY DEF Recorded
  <1>3. Store(d).annotations = annotations[d] /\ Store(d).last = last[d] BY DEF Store
  <1>4. Root \in DOMAIN annotations[d] =>
           /\ old \in Annotation
           /\ Latest(h, old.clock, old.stamp) /\ old.stamp < a.stamp
           /\ old.clock[d] = n
    <2>. SUFFICES ASSUME Root \in DOMAIN annotations[d]
                  PROVE  /\ old \in Annotation
                         /\ Latest(h, old.clock, old.stamp) /\ old.stamp < a.stamp
                         /\ old.clock[d] = n
      OBVIOUS
    <2>1. old \in Annotation /\ last[d] \in Nat BY DEF MergeInv, StoresOK, IsTable
    <2>2. Shows(h, Root, old) /\ Own(h, d, last[d], Root, old)
      BY <1>2, <1>3 DEF Follows, Faithful
    <2>3. old.stamp \in Nat BY <2>1 DEF Annotation, Stamp
    <2>. QED BY <1>0, <2>1, <2>2, <2>3 DEF Shows, Own, Succeeds
  <1>5. \A e \in Device : a.clock[e] <= x.count[e]
    <2>. SUFFICES ASSUME NEW e \in Device PROVE a.clock[e] <= x.count[e] OBVIOUS
    <2>1. CASE e = d BY <1>0, <1>1, <2>1 DEF Succeeds
    <2>2. CASE e # d /\ Root \in DOMAIN annotations[d]
      BY <1>1, <1>4, <2>2 DEF Succeeds, Latest
    <2>3. CASE e # d /\ Root \notin DOMAIN annotations[d]
      BY <1>0, <1>1, <2>3 DEF Succeeds
    <2>. QED BY <2>1, <2>2, <2>3
  <1>6. \E e \in Device : \E k \in 1..a.clock[e] : x.edit[e][k] = a.stamp
    <2>1. n + 1 \in 1..a.clock[d] BY <1>0 DEF Succeeds
    <2>. QED BY <1>1, <2>1
  <1>7. \A e \in Device : \A k \in 1..a.clock[e] : x.edit[e][k] <= a.stamp
    <2>. SUFFICES ASSUME NEW e \in Device, NEW k \in 1..a.clock[e] PROVE x.edit[e][k] <= a.stamp
      OBVIOUS
    <2>0. k \in Nat /\ k >= 1 /\ k <= a.clock[e] BY <1>0
    <2>1. CASE e = d /\ k = n + 1 BY <1>0, <1>1, <2>1
    <2>2. CASE ~(e = d /\ k = n + 1) /\ Root \in DOMAIN annotations[d]
      <3>1. k <= old.clock[e] /\ old.clock[e] \in Nat
        <4>1. old.clock[e] \in Nat BY <1>4, <2>2 DEF Annotation, VectorClock
        <4>2. e = d => k <= n BY <1>0, <2>0, <2>2 DEF Succeeds
        <4>. QED BY <1>4, <2>0, <2>2, <4>1, <4>2 DEF Succeeds
      <3>2. h.edit[e][k] <= old.stamp BY <1>4, <2>0, <2>2, <3>1 DEF Latest
      <3>3. x.edit[e][k] = h.edit[e][k] BY <1>1, <2>0, <2>2
      <3>4. h.edit[e][k] \in Nat /\ old.stamp \in Nat
        BY <1>0, <1>4, <2>0, <2>2 DEF IsRecord, Annotation, Stamp
      <3>. QED BY <1>0, <1>4, <2>2, <3>2, <3>3, <3>4
    <2>3. CASE ~(e = d /\ k = n + 1) /\ Root \notin DOMAIN annotations[d]
      <3>1. n = 0 BY <1>2, <1>3, <2>3 DEF Follows
      <3>. QED BY <1>0, <2>0, <2>3, <3>1 DEF Succeeds
    <2>. QED BY <2>1, <2>2, <2>3
  <1>8. Latest(x, a.clock, a.stamp) BY <1>5, <1>6, <1>7 DEF Latest
  <1>. QED BY <1>8 DEF x

\* A reader writes a new text in the highlight.
LEMMA HighlightRecorded ==
  ASSUME MergeInv, NEW h, Recorded(h), NEW d \in Device, NEW a \in Annotation,
         a.content \notin written, Succeeds(h, d, a), Write(d, Root, a, {a.content})
  PROVE  RecordInv'
  <1>. DEFINE c == a.content
              x == Extended(h, d, c, a.stamp)
  <1>0. /\ IsRecord(h) /\ c \in Content /\ c \notin h.texts /\ h.texts = written
        /\ a.stamp \in Nat /\ \A e \in h.texts : h.stamp[e] # a.stamp
    BY DEF Recorded, Succeeds, Annotation
  <1>1. /\ IsRecord(x)
        /\ x.texts = h.texts \cup {c} /\ x.own = h.own \cup {c}
        /\ x.stamp[c] = a.stamp /\ \A e \in h.texts : x.stamp[e] = h.stamp[e]
        /\ x.count[d] = h.count[d] + 1
        /\ \A e \in Device \ {d} : x.count[e] = h.count[e]
    BY <1>0, ExtendedRecord
  <1>2. \A i \in Id, b \in Annotation : Shows(h, i, b) => Shows(x, i, b)
    BY <1>0, ExtendedShows
  <1>3. Latest(x, a.clock, a.stamp) BY SucceedsLatest
  <1>. HIDE DEF x
  <1>4. Shows(x, Root, a) BY <1>1, <1>3 DEF Shows, Succeeds
  <1>5. Own(x, d, a.stamp, Root, a) BY <1>0, <1>1 DEF Own, Succeeds
  <1>6. Root \in Id BY DEF Root, Id, Stamp
  <1>7. annotations[d] = <<>> \/ last[d] < a.stamp BY DEF Succeeds
  <1>8. x.texts = written \cup {c} BY <1>0, <1>1
  <1>9. /\ \A e \in written : x.stamp[e] = h.stamp[e]
        /\ \A e \in {c} : x.stamp[e] = a.stamp
    BY <1>0, <1>1
  <1>10. Recorded(x)' BY <1>1, <1>2, <1>4, <1>5, <1>6, <1>7, <1>8, <1>9, WriteRecorded
  <1>. QED BY <1>10 DEF RecordInv

LEMMA CreateRecorded ==
  ASSUME MergeInv, NEW h, Recorded(h), Create
  PROVE  RecordInv'
  <1>. PICK c \in Content :
          LET a == [content |-> c, stamp |-> 1,
                    clock |-> [d \in Device |-> IF d = Author THEN 1 ELSE 0],
                    deleted |-> FALSE, origin |-> Author]
          IN  Write(Author, Root, a, {c})
    BY DEF Create
  <1>. DEFINE a == [content |-> c, stamp |-> 1,
                    clock |-> [d \in Device |-> IF d = Author THEN 1 ELSE 0],
                    deleted |-> FALSE, origin |-> Author]
  <1>1. Author \in Device /\ used = {} BY MergeAssumption DEF Create
  <1>2. a \in Annotation BY <1>1 DEF Annotation, Stamp, VectorClock
  <1>3. annotations[Author] = <<>> /\ written = {} BY <1>1 DEF MergeInv, Unmade, Recorded
  <1>4. Root \notin DOMAIN annotations[Author] BY <1>3
  <1>5. h.count[Author] = 0 BY <1>1, <1>4 DEF Recorded, Follows, Store
  <1>6. Succeeds(h, Author, a) BY <1>1, <1>3, <1>4, <1>5 DEF Succeeds
  <1>7. a.content = c OBVIOUS
  <1>. HIDE DEF a
  <1>8. Write(Author, Root, a, {a.content}) BY <1>7 DEF a
  <1>. QED BY <1>1, <1>2, <1>3, <1>6, <1>8, HighlightRecorded

LEMMA EditRecorded ==
  ASSUME MergeInv, NEW h, Recorded(h),
         NEW d \in Device, NEW i \in Live(annotations[d]), NEW c \in Content, Edit(d, i, c),
         ~repeated'
  PROVE  RecordInv'
  <1>. DEFINE old == annotations[d][i]
  <1>1. PICK s \in Free(Store(d), MaxStamp) :
           Write(d, i, [old EXCEPT !.content = c, !.stamp = s, !.clock = Advanced(@, d),
                                   !.origin = d], {c})
    BY DEF Edit
  <1>. DEFINE a == [old EXCEPT !.content = c, !.stamp = s, !.clock = Advanced(@, d), !.origin = d]
  <1>2. /\ i \in Id /\ i \in DOMAIN annotations[d] /\ old \in Annotation /\ ~old.deleted
        /\ Advanced(old.clock, d) \in VectorClock
    BY LiveVersion DEF Live
  <1>3. s \in Nat /\ s \notin used /\ last[d] \in Nat /\ last[d] < s
    <2>1. last[d] \in Nat /\ s \in Nat BY FreeNat DEF MergeInv, StoresOK
    <2>2. s \in ((last[d] + 1)..MaxStamp) \ used BY DEF Free, Store
    <2>. QED BY <2>1, <2>2, MergeAssumption
  <1>4. /\ a \in Annotation /\ a.content = c /\ a.stamp = s
        /\ ~a.deleted /\ a.clock = Advanced(old.clock, d)
    BY <1>2, <1>3 DEF Annotation, Stamp
  <1>5. Write(d, i, a, {c}) BY <1>1
  <1>6. c \notin written BY <1>5 DEF Write
  <1>7. Shows(h, i, old) /\ Own(h, d, last[d], i, old)
    <2>1. /\ Follows(h, Store(d), d)
          /\ Store(d).annotations = annotations[d] /\ Store(d).last = last[d]
      BY DEF Recorded, Store
    <2>. QED BY <1>2, <2>1 DEF Follows, Faithful
  <1>. HIDE DEF a
  <1>8. PICK b \in Annotation : b = a BY <1>4
  <1>9. CASE i = Root
    <2>1. old.clock \in VectorClock /\ old.clock[d] = h.count[d]
      BY <1>2, <1>7, <1>9 DEF Annotation, Own
    <2>2. a.clock = [old.clock EXCEPT ![d] = old.clock[d] + 1] BY <1>4 DEF Advanced
    <2>3. Succeeds(h, d, b)
      <3>. HIDE DEF old
      <3>1. /\ a.clock[d] = h.count[d] + 1
            /\ \A e \in Device \ {d} : a.clock[e] = old.clock[e]
        BY <2>1, <2>2 DEF VectorClock
      <3>. QED BY <1>2, <1>3, <1>4, <1>8, <1>9, <3>1 DEF Succeeds, old
    <2>. QED BY <1>4, <1>5, <1>6, <1>8, <1>9, <2>3, HighlightRecorded
  <1>10. CASE i # Root
    <2>. DEFINE x == Named(h, c, s)
    <2>1. /\ IsRecord(h) /\ c \notin h.texts /\ h.texts = written
          /\ \A e \in h.texts : h.stamp[e] # s
      BY <1>3, <1>6 DEF Recorded
    <2>2. /\ IsRecord(x)
          /\ x.texts = h.texts \cup {c} /\ x.own = h.own
          /\ x.stamp[c] = s /\ \A e \in h.texts : x.stamp[e] = h.stamp[e]
          /\ x.count = h.count
      BY <1>3, <2>1, NamedRecord
    <2>3. \A j \in Id, v \in Annotation : Shows(h, j, v) => Shows(x, j, v)
      BY <1>3, <2>1, NamedShows
    <2>. HIDE DEF x
    <2>4. i[2] < s
      <3>1. i[2] <= old.stamp /\ old.stamp <= last[d] BY <1>2, <1>7, <1>10 DEF Shows, Own
      <3>2. i[2] \in Nat /\ old.stamp \in Nat BY <1>2 DEF Id, Annotation, Stamp
      <3>. QED BY <1>3, <3>1, <3>2
    <2>5. c \notin x.own BY <2>1, <2>2 DEF IsRecord
    <2>6. Shows(x, i, b)
      <3>1. i[2] <= s BY <1>2, <1>3, <2>4 DEF Id, Stamp
      <3>. QED BY <1>4, <1>8, <1>10, <2>2, <2>5, <3>1 DEF Shows
    <2>7. Own(x, d, b.stamp, i, b) BY <1>3, <1>4, <1>8, <1>10 DEF Own
    <2>8. x.texts = written \cup {c} /\ \A e \in written : x.stamp[e] = h.stamp[e]
      BY <2>1, <2>2
    <2>9. /\ \A e \in {c} : x.stamp[e] = b.stamp
          /\ \A e \in Device : x.count[e] = h.count[e]
          /\ last[d] < b.stamp /\ Write(d, i, b, {c})
      BY <1>3, <1>4, <1>5, <1>8, <2>2
    <2>10. Recorded(x)' BY <1>2, <2>2, <2>3, <2>6, <2>7, <2>8, <2>9, WriteRecorded
    <2>. QED BY <2>10 DEF RecordInv
  <1>. QED BY <1>9, <1>10

LEMMA DeleteRecorded ==
  ASSUME "highlight" \notin Deletable, MergeInv, NEW h, Recorded(h),
         NEW d \in Device, NEW i \in Live(annotations[d]), Delete(d, i)
  PROVE  RecordInv'
  <1>. DEFINE old == annotations[d][i]
  <1>1. PICK s \in Free(Store(d), MaxStamp) :
           Write(d, i, [old EXCEPT !.deleted = TRUE, !.stamp = s, !.clock = Advanced(@, d),
                                   !.origin = d], {})
    BY DEF Delete
  <1>. DEFINE a == [old EXCEPT !.deleted = TRUE, !.stamp = s, !.clock = Advanced(@, d), !.origin = d]
  <1>2. i # Root BY DEF Delete, Kind
  <1>3. /\ i \in Id /\ i \in DOMAIN annotations[d] /\ old \in Annotation /\ ~old.deleted
        /\ Advanced(old.clock, d) \in VectorClock
    BY LiveVersion DEF Live
  <1>4. s \in Nat /\ last[d] \in Nat /\ last[d] < s
    <2>1. last[d] \in Nat /\ s \in Nat BY FreeNat DEF MergeInv, StoresOK
    <2>2. s \in ((last[d] + 1)..MaxStamp) \ used BY DEF Free, Store
    <2>. QED BY <2>1, <2>2, MergeAssumption
  <1>5. /\ a \in Annotation /\ a.content = old.content /\ a.stamp = s /\ a.deleted
        /\ a.clock = Advanced(old.clock, d)
    BY <1>3, <1>4 DEF Annotation, Stamp
  <1>6. Write(d, i, a, {}) BY <1>1
  <1>7. Shows(h, i, old) /\ Own(h, d, last[d], i, old)
    <2>1. /\ Follows(h, Store(d), d)
          /\ Store(d).annotations = annotations[d] /\ Store(d).last = last[d]
      BY DEF Recorded, Store
    <2>. QED BY <1>3, <2>1 DEF Follows, Faithful
  <1>. HIDE DEF a
  <1>8. i[2] < s
    <2>1. i[2] <= old.stamp /\ old.stamp <= last[d] BY <1>2, <1>3, <1>7 DEF Shows, Own
    <2>2. i[2] \in Nat /\ old.stamp \in Nat BY <1>3 DEF Id, Annotation, Stamp
    <2>. QED BY <1>4, <2>1, <2>2
  <1>9. PICK b \in Annotation : b = a BY <1>5
  <1>10. Shows(h, i, b) BY <1>2, <1>5, <1>7, <1>8, <1>9 DEF Shows
  <1>11. Own(h, d, b.stamp, i, b) BY <1>2, <1>4, <1>5, <1>9 DEF Own
  <1>12. /\ last[d] < b.stamp /\ Write(d, i, b, {})
         /\ IsRecord(h) /\ h.texts = written \cup {}
    BY <1>4, <1>5, <1>6, <1>9 DEF Recorded
  <1>13. Recorded(h)' BY <1>2, <1>3, <1>10, <1>11, <1>12, WriteRecorded
  <1>. QED BY <1>13 DEF RecordInv

LEMMA OpenRecorded ==
  ASSUME MergeInv, NEW h, Recorded(h), NEW d \in Device, Open(d)
  PROVE  RecordInv'
  <1>. DEFINE t == Compacted(Store(d), d)
  <1>1. IsStore(Store(d)) /\ Store(d).used = used BY StoreStore DEF MergeInv
  <1>2. IsStore(t) /\ Grows(Store(d), t) BY <1>1, CompactedStore
  <1>3. Follows(h, t, d) BY <1>1, CompactedFollows DEF Recorded
  <1>4. Commit(d, t) /\ UNCHANGED <<file, written>> BY DEF Open
  <1>. HIDE DEF t
  <1>5. Recorded(h)' BY <1>1, <1>2, <1>3, <1>4, CommitRecorded DEF Grows
  <1>. QED BY <1>5 DEF RecordInv

LEMMA MergeRecorded ==
  ASSUME ~Skewed, MergeInv, NEW h, Recorded(h), NEW d \in Device, NEW p \in Device, Merge(d, p)
  PROVE  RecordInv'
  <1>. DEFINE t == MergedFile(Store(d), d, file[p])
  <1>1. IsStore(Store(d)) /\ Store(d).used = used /\ IsTable(file[p])
    BY StoreStore DEF MergeInv, FilesOK
  <1>2. IsStore(t) /\ Grows(Store(d), t) BY <1>1, MergedFileStore
  <1>3. Follows(h, t, d) BY <1>1, MergedFileFollows DEF Recorded
  <1>4. Commit(d, t) /\ UNCHANGED <<file, written>> BY DEF Merge
  <1>. HIDE DEF t
  <1>5. Recorded(h)' BY <1>1, <1>2, <1>3, <1>4, CommitRecorded DEF Grows
  <1>. QED BY <1>5 DEF RecordInv

LEMMA UploadRecorded ==
  ASSUME MergeInv, NEW h, Recorded(h), NEW d \in Device, Upload(d)
  PROVE  RecordInv'
  <1>. DEFINE X == {i \in DOMAIN annotations[d] : annotations[d][i].origin = d}
              f == Restrict(annotations[d], X)
  <1>1. file' = [file EXCEPT ![d] = f] /\ UNCHANGED <<annotations, last, used, written>>
    BY DEF Upload
  <1>2. DOMAIN f = X /\ \A i \in X : f[i] = annotations[d][i] BY DEF Restrict
  <1>. HIDE DEF f
  <1>3. file'[d] = f /\ \A e \in Device \ {d} : file'[e] = file[e]
    BY <1>1 DEF MergeInv, FilesOK
  <1>4. ASSUME NEW e \in Device PROVE Follows(h, Store(e)', e)
    <2>1. Store(e)'.annotations = annotations[e] /\ Store(e)'.last = last[e] BY <1>1 DEF Store
    <2>2. Store(e).annotations = annotations[e] /\ Store(e).last = last[e] BY DEF Store
    <2>. QED BY <2>1, <2>2 DEF Recorded, Follows
  <1>5. ASSUME NEW e \in Device PROVE Faithful(h, file'[e])
    <2>1. CASE e # d BY <1>3, <2>1 DEF Recorded
    <2>2. CASE e = d
      <3>1. Faithful(h, annotations[d]) BY DEF Recorded, Follows, Store
      <3>. QED BY <1>2, <1>3, <2>2, <3>1 DEF Faithful
    <2>. QED BY <2>1, <2>2
  <1>6. Recorded(h)' BY <1>1, <1>4, <1>5 DEF Recorded
  <1>. QED BY <1>6 DEF RecordInv

LEMMA InitRecordInv == Init => RecordInv
  <1>. SUFFICES ASSUME Init PROVE \E h : Recorded(h) BY DEF RecordInv
  <1>. DEFINE h == [texts |-> {}, own |-> {}, stamp |-> [c \in Content |-> 0],
                    edit |-> [d \in Device |-> [k \in Nat |-> 0]],
                    count |-> [d \in Device |-> 0]]
  <1>1. IsRecord(h) BY DEF IsRecord
  <1>2. \A d \in Device : DOMAIN Store(d).annotations = {} /\ DOMAIN file[d] = {}
    BY DEF Init, Store
  <1>3. h.texts = {} /\ \A d \in Device : h.count[d] = 0 OBVIOUS
  <1>4. written = {} BY DEF Init
  <1>. HIDE DEF h
  <1>5. Recorded(h) BY <1>1, <1>2, <1>3, <1>4 DEF Recorded, Follows, Faithful
  <1>. QED BY <1>5

LEMMA StepRecordInv ==
  ASSUME ~Skewed, "highlight" \notin Deletable,
         MergeInv, RecordInv, [Next]_vars
  PROVE  RecordInv'
  <1>1. CASE repeated
    <2>1. \A d, i, a, contents : Write(d, i, a, contents) => repeated' BY <1>1 DEF Write
    <2>2. CASE Create BY <2>1, <2>2 DEF Create, RecordInv
    <2>3. ASSUME NEW d \in Device, NEW i \in Live(annotations[d]), Delete(d, i)
          PROVE  RecordInv'
      BY <2>1, <2>3 DEF Delete, RecordInv
    <2>4. ASSUME NEW d \in Device, NEW i \in Live(annotations[d]), NEW c \in Content, Edit(d, i, c)
          PROVE  RecordInv'
      BY <2>1, <2>4 DEF Edit, RecordInv
    <2>5. CASE UNCHANGED repeated BY <1>1, <2>5 DEF RecordInv
    <2>. QED BY <2>2, <2>3, <2>4, <2>5 DEF Next, Open, Upload, Merge, vars
  <1>2. CASE repeated' BY <1>2 DEF RecordInv
  <1>3. CASE ~repeated /\ ~repeated'
    <2>. PICK h : Recorded(h) BY <1>3 DEF RecordInv
    <2>1. CASE Create BY <2>1, CreateRecorded
    <2>2. ASSUME NEW d \in Device, NEW i \in Live(annotations[d]), Delete(d, i)
          PROVE  RecordInv'
      BY <2>2, DeleteRecorded
    <2>3. ASSUME NEW d \in Device, NEW i \in Live(annotations[d]), NEW c \in Content, Edit(d, i, c)
          PROVE  RecordInv'
      BY <1>3, <2>3, EditRecorded
    <2>4. ASSUME NEW d \in Device, Open(d) PROVE RecordInv' BY <2>4, OpenRecorded
    <2>5. ASSUME NEW d \in Device, Upload(d) PROVE RecordInv' BY <2>5, UploadRecorded
    <2>6. ASSUME NEW d \in Device, NEW p \in Device, Merge(d, p) PROVE RecordInv'
      BY <2>6, MergeRecorded
    <2>7. CASE UNCHANGED vars
      <3>1. UNCHANGED <<annotations, last, changed, used, file, written>> BY <2>7 DEF vars
      <3>2. Recorded(h)' BY <3>1 DEF Recorded, Store
      <3>. QED BY <3>2 DEF RecordInv
    <2>. QED BY <2>1, <2>2, <2>3, <2>4, <2>5, <2>6, <2>7 DEF Next
  <1>. QED BY <1>1, <1>2, <1>3

\* When nothing is left to upload or to merge and no text was written twice, all
\* devices have the same version of the highlight (merge, the concurrent arm).
HighlightConverged ==
    Settled /\ ~repeated => \A d, e \in Device :
        Root \in DOMAIN annotations[d] =>
           /\ Root \in DOMAIN annotations[e]
           /\ Version(annotations[d][Root]) = Version(annotations[e][Root])

\* HighlightConverged: any number of devices, through conflicts that each resolves in
\* an order of its own, copies that are edited, deleted and compacted, and files that
\* come late, end with the same text, stamp and history of the highlight.  Neither premise
\* can go (README): clocks that disagree and deleted highlights divide three devices.
THEOREM HighlightConverges ==
  ASSUME ~Skewed, "highlight" \notin Deletable
  PROVE  Spec => []HighlightConverged
  <1>1. Init => AgreeInv /\ RecordInv BY InitAgreeInv, InitRecordInv
  <1>2. AgreeInv /\ RecordInv /\ [Next]_vars => AgreeInv' /\ RecordInv'
    BY StepAgreeInv, StepRecordInv DEF AgreeInv
  <1>3. AgreeInv /\ RecordInv => HighlightConverged
    <2>. SUFFICES ASSUME AgreeInv, RecordInv, Settled, ~repeated, NEW d \in Device, NEW e \in Device,
                         Root \in DOMAIN annotations[d]
                  PROVE  /\ Root \in DOMAIN annotations[e]
                         /\ Version(annotations[d][Root]) = Version(annotations[e][Root])
      BY DEF HighlightConverged
    <2>. DEFINE a == annotations[d][Root]
                b == annotations[e][Root]
    <2>1. Root \in DOMAIN annotations[e] /\ Leq(a.clock, b.clock) BY SettledCovered
    <2>2. Leq(b.clock, a.clock) BY <2>1, SettledCovered
    <2>3. a \in Annotation /\ b \in Annotation
      BY <2>1 DEF AgreeInv, MergeInv, StoresOK, IsTable
    <2>4. a.clock = b.clock BY <2>1, <2>2, <2>3, LeqAntisymmetric DEF Annotation
    <2>5. PICK h : Recorded(h) BY DEF RecordInv
    <2>6. IsRecord(h) /\ Shows(h, Root, a) /\ Shows(h, Root, b)
      <3>1. \A f \in Device : Faithful(h, annotations[f]) BY <2>5 DEF Recorded, Follows, Store
      <3>. QED BY <2>1, <2>5, <3>1 DEF Recorded, Faithful
    <2>. HIDE DEF a, b
    <2>7. a.stamp = b.stamp
      <3>1. Latest(h, a.clock, a.stamp) /\ Latest(h, a.clock, b.stamp) BY <2>4, <2>6 DEF Shows
      <3>2. a.stamp \in Nat /\ b.stamp \in Nat BY <2>3 DEF Annotation, Stamp
      <3>. QED BY <3>1, <3>2 DEF Latest
    <2>8. a.content = b.content /\ ~a.deleted /\ ~b.deleted BY <2>6, <2>7 DEF Shows, IsRecord
    <2>9. a.deleted = b.deleted BY <2>3, <2>8 DEF Annotation
    <2>. QED BY <2>1, <2>7, <2>8, <2>9 DEF Version, a, b
  <1>. QED BY <1>1, <1>2, <1>3, PTL DEF Spec
==============================================================================
