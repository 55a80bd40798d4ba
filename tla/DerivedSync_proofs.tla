-------------------------- MODULE DerivedSync_proofs --------------------------
(***************************************************************************)
(* Derived data is safe for any number of devices and versions: data that  *)
(* a device holds to be synchronised was uploaded, and no download         *)
(* replaces marked data that was not.                                      *)
(*                                                                         *)
(* The revision is read before the data, so whenever the data of a device  *)
(* is the revision a job began with, the job has exported it (JobExported) *)
(* and either uploaded it or found it uploaded before it acknowledges.     *)
(***************************************************************************)
EXTENDS DerivedSync, TLAPS

\* The versions derived so far.
Written == 1..writes

\* Versions of the server are uploaded, and those of the marker are marked.
History ==
    /\ marked \subseteq Written /\ uploaded \subseteq Written
    /\ object \in uploaded \cup {None}
    /\ \A d \in Device :
          /\ data[d] \in Written \cup {None}
          /\ writing[d] \in Written \cup {None}
          /\ rev[d] \in marked \cup {None} /\ ack[d] \in marked \cup {None}
          /\ cached[d] \in uploaded \cup {None}
          /\ put[d] # None => put[d].existing \in uploaded \cup {None}

\* The same of what a job holds, and the manifest it sends is the exported one.
JobHistory(d) ==
    /\ job[d].rev \in marked \cup {None}
    /\ job[d].listed \in uploaded \cup {None} /\ job[d].remote \in uploaded \cup {None}
    /\ job[d].local \in Written \cup {None} /\ job[d].found \in Written \cup {None}
    /\ job[d].at \in {"download", "check", "import"} => job[d].remote # None
    /\ job[d].at \in {"zip", "manifest"} => job[d].local # None
    /\ put[d] # None => put[d].value = job[d].local

\* Data that is on no server stays where it was derived, in the hands of its
\* writer until it is marked, and under its own revision from then on.
Sent(d) == data[d] = None \/ data[d] \in uploaded

Unsent(d) ==
    /\ writing[d] # None => data[d] = writing[d] \/ data[d] \in uploaded
    /\ Sent(d) \/ \A e \in Device \ {d} : data[d] # writing[e]
    /\ data[d] \in marked /\ ~Sent(d) => rev[d] = data[d]
    /\ data[d] = ack[d] => Sent(d)

\* The data is the revision the job began with, and not on the server.
Planned(d) == data[d] = job[d].rev /\ ~Sent(d)

\* A job exported what it will acknowledge, and does not download over it.
JobExported(d) ==
    /\ job[d].at \notin {"idle", "export"} /\ Planned(d) => job[d].local = job[d].rev
    /\ job[d].at \in {"download", "check", "import", "ack"} => ~Planned(d)

\* What a download is about to replace is uploaded, or no one has marked it.
FoundUnmarked(d) ==
    job[d].at = "import" /\ data[d] = job[d].found /\ ~Sent(d)
        => job[d].found \notin marked \cup {writing[d]}

DerivedInv ==
    /\ History
    /\ \A d \in Device : JobHistory(d) /\ Unsent(d) /\ JobExported(d) /\ FoundUnmarked(d)
------------------------------------------------------------------------------
(* Types.                                                                  *)

LEMMA NoJobTyped == NoJob \in Job
  BY DEF NoJob, Job, Known

\* The steps of a job are steps of one device on its job.
LEMMA JobStep ==
    ASSUME TypeOK, NEW d \in Device, NEW j \in Job, job' = [job EXCEPT ![d] = j]
    PROVE  /\ job' \in [Device -> Job] /\ job'[d] = j
           /\ \A e \in Device \ {d} : job'[e] = job[e]
  BY DEF TypeOK

LEMMA InitType == Init => TypeOK
  <1>. SUFFICES ASSUME Init PROVE TypeOK OBVIOUS
  <1>1. WebDavTypeOK BY DEF Init, WebDavInit, WebDavTypeOK
  <1>2. job \in [Device -> Job] BY NoJobTyped DEF Init
  <1>3. \A d \in Device : put[d] = None /\ job[d].at = "idle"
    BY DEF Init, WebDavInit, NoJob
  <1>. QED BY <1>1, <1>2, <1>3, DerivedAssumption DEF Init, TypeOK, Known

\* The PUT of a job and its place stay together when the job ends.
LEMMA LeaveType ==
    ASSUME TypeOK, NEW d \in Device, Leave(d)
    PROVE  /\ job' \in [Device -> Job] /\ put' \in [Device -> Put \cup {None}]
           /\ \A e \in Device : put'[e] # None <=> job'[e].at = "manifest"
  <1>1. job' = [job EXCEPT ![d] = NoJob] /\ put' = [put EXCEPT ![d] = None] BY DEF Leave
  <1>2. NoJob.at = "idle" BY DEF NoJob
  <1>. QED BY <1>1, <1>2, NoJobTyped DEF TypeOK, WebDavTypeOK

LEMMA GoType ==
    ASSUME TypeOK, NEW d \in Device, NEW at, Go(d, at),
           at \in {"export", "compare", "zip", "manifest", "download", "check", "import", "ack"}
    PROVE  /\ job' \in [Device -> Job] /\ job'[d] = [job[d] EXCEPT !.at = at]
           /\ \A e \in Device \ {d} : job'[e] = job[e]
  <1>1. job[d] \in Job BY DEF TypeOK
  <1>2. [job[d] EXCEPT !.at = at] \in Job BY <1>1 DEF Job
  <1>. QED BY <1>2, JobStep DEF Go

LEMMA AckedType ==
    ASSUME TypeOK, NEW d \in Device, Acked(d) PROVE ack' \in [Device -> Known]
  <1>1. job[d].rev \in Known BY DEF TypeOK, Job
  <1>. QED BY <1>1 DEF Acked, TypeOK

LEMMA DecideType ==
    ASSUME TypeOK, NEW d \in Device, NEW remote \in Known, Decide(d, remote),
           job[d].at = "compare"
    PROVE  /\ job' \in [Device -> Job] /\ put' \in [Device -> Put \cup {None}]
           /\ \A e \in Device : put'[e] # None <=> job'[e].at = "manifest"
           /\ ack' \in [Device -> Known]
  <1>1. CASE job[d].local = remote BY <1>1, LeaveType, AckedType DEF Decide
  <1>2. CASE job[d].local # remote
    <2>1. Plan(d, remote) BY <1>2 DEF Decide
    <2>. DEFINE at == IF job[d].local # None /\ (remote = None \/ Dirty(d))
                      THEN "zip" ELSE "download"
                j == [job[d] EXCEPT !.remote = remote, !.at = at]
    <2>2. job[d] \in Job BY DEF TypeOK
    <2>3. j \in Job /\ j.at # "manifest" BY <2>2 DEF Job
    <2>4. job' = [job EXCEPT ![d] = j] BY <2>1, <2>2 DEF Plan, Job, TypeOK
    <2>. HIDE DEF j
    <2>5. job' \in [Device -> Job] /\ job'[d] = j /\ \A e \in Device \ {d} : job'[e] = job[e]
      BY <2>3, <2>4, JobStep
    <2>. QED BY <2>1, <2>3, <2>5 DEF Plan, TypeOK, WebDavTypeOK
  <1>. QED BY <1>1, <1>2

LEMMA StepType == TypeOK /\ DerivedInv /\ [Next]_vars => TypeOK'
  <1>. SUFFICES ASSUME TypeOK, DerivedInv, [Next]_vars PROVE TypeOK' OBVIOUS
  <1>a. None \notin Value /\ None \notin Put /\ Attempts \in Nat
    BY WebDavAssumption
  <1>1. ASSUME NEW d \in Device, Write(d) PROVE TypeOK'
    <2>1. writes' \in Value /\ writes' \in 0..MaxWrites
      BY <1>1, DerivedAssumption DEF Write, TypeOK
    <2>. QED BY <1>1, <2>1 DEF Write, TypeOK, WebDavTypeOK, Known
  <1>2. ASSUME NEW d \in Device, Mark(d) PROVE TypeOK'
    BY <1>2, <1>a DEF Mark, TypeOK, WebDavTypeOK, Known
  <1>3. ASSUME NEW d \in Device, Begin(d) PROVE TypeOK'
    <2>. DEFINE j == [job[d] EXCEPT !.at = "export", !.rev = rev[d], !.listed = object]
    <2>1. job \in [Device -> Job] /\ job[d].at = "idle" BY <1>3 DEF Begin, TypeOK
    <2>2. rev[d] \in Known /\ object \in Known BY DEF TypeOK, WebDavTypeOK, Known
    <2>3. j \in Job /\ j.at = "export" BY <2>1, <2>2 DEF Job
    <2>4. job' = [job EXCEPT ![d].at = "export", ![d].rev = rev[d], ![d].listed = object]
      BY <1>3 DEF Begin
    <2>5. job' = [job EXCEPT ![d] = j] BY <2>1, <2>4 DEF Job
    <2>. HIDE DEF j
    <2>6. job' \in [Device -> Job] /\ job'[d] = j /\ \A e \in Device \ {d} : job'[e] = job[e]
      BY <2>3, <2>5, JobStep
    <2>. QED BY <1>3, <2>3, <2>6 DEF Begin, TypeOK, WebDavTypeOK, local
  <1>4. ASSUME NEW d \in Device, Export(d) PROVE TypeOK'
    <2>. DEFINE j == [job[d] EXCEPT !.at = "compare", !.local = data[d]]
    <2>1. j \in Job /\ j.at = "compare" /\ job[d].at = "export"
      BY <1>4 DEF Export, TypeOK, Job
    <2>2. job' = [job EXCEPT ![d] = j] BY <1>4 DEF Export, TypeOK, Job
    <2>. HIDE DEF j
    <2>3. job' \in [Device -> Job] /\ job'[d] = j /\ \A e \in Device \ {d} : job'[e] = job[e]
      BY <2>1, <2>2, JobStep
    <2>. QED BY <1>4, <2>1, <2>3 DEF Export, TypeOK, WebDavTypeOK, local
  <1>5. ASSUME NEW d \in Device, Compare(d) PROVE TypeOK'
    <2>1. PICK remote \in Known : Decide(d, remote) /\ cached' \in [Device -> Known]
      <3>1. CASE job[d].listed = None
        BY <1>5, <3>1 DEF Compare, TypeOK, WebDavTypeOK, Known
      <3>2. CASE job[d].listed # None
        <4>1. PICK remote \in Answers(d, job[d].listed) : Decide(d, remote) /\ Remember(d, remote)
          BY <1>5, <3>2 DEF Compare
        <4>2. remote \in Known
          BY <4>1 DEF Answers, TypeOK, WebDavTypeOK, Known, Job
        <4>. QED BY <4>1, <4>2 DEF Remember, TypeOK, WebDavTypeOK, Known
      <3>. QED BY <3>1, <3>2
    <2>2. job[d].at = "compare" BY <1>5 DEF Compare
    <2>3. /\ job' \in [Device -> Job] /\ put' \in [Device -> Put \cup {None}]
          /\ \A e \in Device : put'[e] # None <=> job'[e].at = "manifest"
          /\ ack' \in [Device -> Known]
      BY <2>1, <2>2, DecideType
    <2>. QED BY <1>5, <2>1, <2>3 DEF Compare, TypeOK, WebDavTypeOK, local, Known
  <1>6. ASSUME NEW d \in Device, PutZip(d) PROVE TypeOK'
    <2>. DEFINE p == [value |-> job[d].local, existing |-> cached[d],
                      known |-> cached[d] # None, tries |-> 0]
    <2>1. job[d].local \in Value
      BY <1>6 DEF PutZip, DerivedInv, JobHistory, TypeOK, Job, Known
    <2>2. p \in Put BY <2>1, <1>a DEF TypeOK, WebDavTypeOK, Put
    <2>3. put' = [put EXCEPT ![d] = p] BY <1>6 DEF PutZip, Open
    <2>. HIDE DEF p
    <2>4. /\ job' \in [Device -> Job] /\ job'[d] = [job[d] EXCEPT !.at = "manifest"]
          /\ \A e \in Device \ {d} : job'[e] = job[e]
      BY <1>6, GoType DEF PutZip
    <2>5. job'[d].at = "manifest" BY <2>4 DEF TypeOK, Job
    <2>. QED BY <1>6, <1>a, <2>1, <2>2, <2>3, <2>4, <2>5
             DEF PutZip, TypeOK, WebDavTypeOK, local, Known
  <1>7. ASSUME NEW d \in Device, PutManifest(d) PROVE TypeOK'
    <2>0. job[d].at = "manifest" /\ put[d] \in Put /\ object \in Value \cup {None}
      BY <1>7 DEF PutManifest, TypeOK, WebDavTypeOK
    <2>1. CASE (Ask(d) \/ Refused(d)) /\ UNCHANGED <<job, uploaded>>
      <3>1. PICK p \in Put : put' = [put EXCEPT ![d] = p]
        <4>1. CASE Ask(d)
          <5>. DEFINE p == [put[d] EXCEPT !.existing = object, !.known = TRUE]
          <5>1. p \in Put BY <2>0 DEF Put
          <5>2. put' = [put EXCEPT ![d] = p]
            BY <2>0, <4>1 DEF Ask, Put, TypeOK, WebDavTypeOK
          <5>. QED BY <5>1, <5>2
        <4>2. CASE Refused(d)
          <5>. DEFINE p == [put[d] EXCEPT !.known = FALSE, !.tries = @ + 1]
          <5>1. put[d].tries + 1 \in 0..Attempts
            BY <2>0, <4>2, <1>a DEF Refused, Try, Put
          <5>2. p \in Put BY <2>0, <5>1 DEF Put
          <5>3. put' = [put EXCEPT ![d] = p]
            BY <2>0, <4>2 DEF Refused, Put, TypeOK, WebDavTypeOK
          <5>. QED BY <5>2, <5>3
        <4>. QED BY <2>1, <4>1, <4>2
      <3>2. cached' \in [Device -> Value \cup {None}] /\ object' = object
        BY <2>0, <2>1 DEF Ask, Refused, Remember, TypeOK, WebDavTypeOK
      <3>. QED BY <1>7, <2>0, <2>1, <3>1, <3>2, <1>a
               DEF PutManifest, TypeOK, WebDavTypeOK, local
    <2>2. CASE /\ Equal(d) \/ Accepted(d)
               /\ put' = [put EXCEPT ![d] = None]
               /\ Go(d, "ack")
               /\ uploaded' = uploaded \cup {job[d].local}
      <3>1. /\ job' \in [Device -> Job] /\ job'[d] = [job[d] EXCEPT !.at = "ack"]
            /\ \A e \in Device \ {d} : job'[e] = job[e]
        BY <2>2, GoType
      <3>2. job'[d].at = "ack" BY <3>1 DEF TypeOK, Job
      <3>3. put[d].value \in Value BY <2>0 DEF Put
      <3>4. object' \in Value \cup {None} /\ cached' \in [Device -> Value \cup {None}]
        BY <2>0, <2>2, <3>3 DEF Equal, Accepted, Remember, TypeOK, WebDavTypeOK
      <3>5. job[d].local \in Value
        BY <2>0 DEF DerivedInv, JobHistory, TypeOK, Job, Known
      <3>. QED BY <1>7, <2>2, <3>1, <3>2, <3>4, <3>5
               DEF PutManifest, TypeOK, WebDavTypeOK, local
    <2>3. CASE GivenUp(d) /\ Leave(d) /\ UNCHANGED <<object, cached, uploaded>>
      BY <1>7, <2>3, LeaveType DEF PutManifest, TypeOK, WebDavTypeOK, local
    <2>. QED BY <1>7, <2>1, <2>2, <2>3 DEF PutManifest
  <1>8. ASSUME NEW d \in Device, Download(d) PROVE TypeOK'
    <2>1. CASE Leave(d)
      BY <1>8, <2>1, LeaveType DEF Download, TypeOK, WebDavTypeOK, local
    <2>2. CASE Go(d, "check") /\ UNCHANGED put
      <3>1. /\ job' \in [Device -> Job] /\ job'[d] = [job[d] EXCEPT !.at = "check"]
            /\ \A e \in Device \ {d} : job'[e] = job[e]
        BY <2>2, GoType
      <3>2. job[d].at = "download" /\ job'[d].at = "check"
        BY <1>8, <3>1 DEF Download, TypeOK, Job
      <3>. QED BY <1>8, <2>2, <3>1, <3>2 DEF Download, TypeOK, WebDavTypeOK, local
    <2>. QED BY <1>8, <2>1, <2>2 DEF Download
  <1>9. ASSUME NEW d \in Device, Check(d) PROVE TypeOK'
    <2>1. CASE Leave(d)
      BY <1>9, <2>1, LeaveType DEF Check, TypeOK, WebDavTypeOK, local
    <2>2. CASE /\ job' = [job EXCEPT ![d].at = "import", ![d].found = Still(d)]
               /\ UNCHANGED put
      <3>. DEFINE j == [job[d] EXCEPT !.at = "import", !.found = Still(d)]
      <3>1. Still(d) \in Known BY DEF Still, TypeOK, Known
      <3>2. j \in Job /\ j.at = "import" /\ job[d].at = "check"
        BY <1>9, <3>1 DEF Check, TypeOK, Job
      <3>3. job' = [job EXCEPT ![d] = j] BY <2>2 DEF TypeOK, Job
      <3>. HIDE DEF j
      <3>4. job' \in [Device -> Job] /\ job'[d] = j /\ \A e \in Device \ {d} : job'[e] = job[e]
        BY <3>2, <3>3, JobStep
      <3>. QED BY <1>9, <2>2, <3>2, <3>4 DEF Check, TypeOK, WebDavTypeOK, local
    <2>. QED BY <1>9, <2>1, <2>2 DEF Check
  <1>10. ASSUME NEW d \in Device, Import(d) PROVE TypeOK'
    <2>1. /\ job' \in [Device -> Job] /\ job'[d] = [job[d] EXCEPT !.at = "ack"]
          /\ \A e \in Device \ {d} : job'[e] = job[e]
      BY <1>10, GoType DEF Import
    <2>2. job[d].at = "import" /\ job'[d].at = "ack" /\ job[d].remote \in Known
      BY <1>10, <2>1 DEF Import, TypeOK, Job
    <2>. QED BY <1>10, <2>1, <2>2 DEF Import, TypeOK, WebDavTypeOK
  <1>11. ASSUME NEW d \in Device, Acknowledge(d) PROVE TypeOK'
    BY <1>11, LeaveType, AckedType DEF Acknowledge, TypeOK, WebDavTypeOK, local
  <1>12. ASSUME NEW d \in Device, Kill(d) PROVE TypeOK'
    <2>1. writing' \in [Device -> Known] BY <1>12 DEF Kill, TypeOK, Known
    <2>2. faults' \in 0..MaxFaults BY <1>12, DerivedAssumption DEF Kill, TypeOK
    <2>. QED BY <1>12, <2>1, <2>2, LeaveType DEF Kill, TypeOK, WebDavTypeOK
  <1>13. ASSUME LoseManifest PROVE TypeOK'
    <2>1. faults' \in 0..MaxFaults BY <1>13, DerivedAssumption DEF LoseManifest, TypeOK
    <2>. QED BY <1>13, <2>1 DEF LoseManifest, Lose, TypeOK, WebDavTypeOK, local
  <1>14. ASSUME UNCHANGED vars PROVE TypeOK'
    BY <1>14 DEF vars, TypeOK, WebDavTypeOK
  <1>. QED BY <1>1, <1>2, <1>3, <1>4, <1>5, <1>6, <1>7, <1>8, <1>9, <1>10, <1>11, <1>12,
              <1>13, <1>14 DEF Next, Run
------------------------------------------------------------------------------
(* The inductive invariant.                                                *)

LEMMA InitDerivedInv == Init => DerivedInv
  <1>. SUFFICES ASSUME Init PROVE DerivedInv OBVIOUS
  <1>. USE DEF Init, WebDavInit
  <1>1. \A d \in Device : job[d] = NoJob OBVIOUS
  <1>2. History BY WebDavAssumption DEF History, Written
  <1>3. ASSUME NEW d \in Device
        PROVE  JobHistory(d) /\ Unsent(d) /\ JobExported(d) /\ FoundUnmarked(d)
    BY <1>1 DEF NoJob, JobHistory, Unsent, Sent, JobExported, FoundUnmarked
  <1>. QED BY <1>2, <1>3 DEF DerivedInv

\* A step of another device.
LEMMA OthersKeep ==
    ASSUME TypeOK, DerivedInv, NEW e \in Device,
           UNCHANGED <<data[e], rev[e], ack[e], writing[e], job[e], put[e]>>,
           marked \subseteq marked', uploaded \subseteq uploaded',
           writes' \in {writes, writes + 1},
           \A f \in Device \ {e} : writing'[f] \in {writing[f], None, writes + 1},
           \A v \in marked' \ marked : \E f \in Device \ {e} : v = writing[f]
    PROVE  (JobHistory(e) /\ Unsent(e) /\ JobExported(e) /\ FoundUnmarked(e))'
  <1>0. /\ History /\ JobHistory(e) /\ Unsent(e) /\ JobExported(e) /\ FoundUnmarked(e)
        /\ writes \in Nat
    BY DEF DerivedInv, TypeOK
  <1>1. Written \subseteq Written' BY <1>0 DEF Written
  <1>2. Sent(e) => Sent(e)' BY DEF Sent
  <1>3. ~Sent(e)' => data[e] \in Written /\ \A f \in Device \ {e} : data[e] # writing[f]
    BY <1>0, <1>2 DEF Sent, Unsent, History
  <1>4. ~Sent(e)' /\ data[e] \in marked' => data[e] \in marked BY <1>3
  <1>5. JobHistory(e)' BY <1>0, <1>1 DEF JobHistory
  <1>6. Unsent(e)'
    <2>1. (writing[e] # None => data[e] = writing[e] \/ data[e] \in uploaded)'
      BY <1>0 DEF Unsent
    <2>2. (Sent(e) \/ \A f \in Device \ {e} : data[e] # writing[f])'
      BY <1>0, <1>3 DEF Written, Sent
    <2>3. (data[e] \in marked /\ ~Sent(e) => rev[e] = data[e])'
      BY <1>0, <1>2, <1>4 DEF Unsent
    <2>4. (data[e] = ack[e] => Sent(e))' BY <1>0, <1>2 DEF Unsent
    <2>. QED BY <2>1, <2>2, <2>3, <2>4 DEF Unsent
  <1>7. JobExported(e)' BY <1>0, <1>2 DEF JobExported, Planned
  <1>8. FoundUnmarked(e)' BY <1>0, <1>2, <1>4 DEF FoundUnmarked
  <1>. QED BY <1>5, <1>6, <1>7, <1>8

\* A step of the device itself that neither derives data nor replaces it.
LEMMA OwnUnsent ==
    ASSUME TypeOK, DerivedInv, NEW d \in Device,
           UNCHANGED <<data, rev, writing, marked>>, uploaded \subseteq uploaded',
           ack'[d] = data[d] /\ ack'[d] # ack[d] => Sent(d)'
    PROVE  Unsent(d)'
  BY DEF DerivedInv, Unsent, Sent

\* A job that ends.
LEMMA OwnIdle ==
    ASSUME NEW d \in Device, job'[d] = NoJob, put'[d] = None
    PROVE  (JobHistory(d) /\ JobExported(d) /\ FoundUnmarked(d))'
  BY DEF NoJob, JobHistory, JobExported, FoundUnmarked

\* A job acknowledges the data it began with only when that is on the server.
LEMMA AckedSent ==
    ASSUME TypeOK, DerivedInv, NEW d \in Device, Acked(d),
           job[d].at = "ack" \/ (job[d].at = "compare" /\ job[d].local \in uploaded \cup {None})
    PROVE  /\ ack'[d] = data[d] /\ ack'[d] # ack[d] => Sent(d)
           /\ \A e \in Device : ack'[e] \in marked \cup {None}
           /\ \A e \in Device \ {d} : ack'[e] = ack[e]
  <1>1. /\ JobHistory(d) /\ JobExported(d)
        /\ \A e \in Device : ack[e] \in marked \cup {None}
    BY DEF DerivedInv, History
  <1>2. job[d].rev \in marked \cup {None} BY <1>1 DEF JobHistory
  <1>3. ack' \in [Device -> Known] /\ ack \in [Device -> Known] BY AckedType DEF TypeOK
  <1>4. (\A e \in Device \ {d} : ack'[e] = ack[e]) /\ ack'[d] \in {ack[d], job[d].rev}
    BY <1>3 DEF Acked
  <1>5. data[d] = job[d].rev => Sent(d)
    BY <1>1 DEF JobExported, Planned, Sent
  <1>. QED BY <1>1, <1>2, <1>4, <1>5

\* A step of a job that leaves the data alone.
LEMMA OwnStep ==
    ASSUME TypeOK, DerivedInv, NEW d \in Device, UNCHANGED local,
           uploaded \subseteq uploaded', History',
           \A e \in Device \ {d} : UNCHANGED <<ack[e], job[e], put[e]>>,
           ack'[d] = data[d] /\ ack'[d] # ack[d] => Sent(d)',
           (JobHistory(d) /\ JobExported(d) /\ FoundUnmarked(d))'
    PROVE  DerivedInv'
  <1>1. Unsent(d)' BY OwnUnsent DEF local
  <1>2. ASSUME NEW e \in Device \ {d}
        PROVE  (JobHistory(e) /\ Unsent(e) /\ JobExported(e) /\ FoundUnmarked(e))'
    BY <1>2, OthersKeep DEF local
  <1>. QED BY <1>1, <1>2 DEF DerivedInv

\* A step of a job that sends and acknowledges nothing, and keeps to its PUT.
LEMMA OwnQuiet ==
    ASSUME TypeOK, DerivedInv, NEW d \in Device, UNCHANGED local,
           UNCHANGED <<object, cached, put, ack, uploaded>>,
           \A e \in Device \ {d} : job'[e] = job[e],
           (JobHistory(d) /\ JobExported(d) /\ FoundUnmarked(d))'
    PROVE  DerivedInv'
  <1>1. History' BY DEF DerivedInv, History, Written, local
  <1>. QED BY <1>1, OwnStep

\* A job that fails.
LEMMA OwnLeave ==
    ASSUME TypeOK, DerivedInv, NEW d \in Device, UNCHANGED local,
           UNCHANGED <<object, cached, ack, uploaded>>, Leave(d)
    PROVE  DerivedInv'
  <1>1. /\ job'[d] = NoJob /\ put'[d] = None
        /\ \A e \in Device \ {d} : job'[e] = job[e] /\ put'[e] = put[e]
    BY DEF Leave, TypeOK, WebDavTypeOK
  <1>2. History' BY <1>1 DEF DerivedInv, History, Written, local
  <1>3. (JobHistory(d) /\ JobExported(d) /\ FoundUnmarked(d))' BY <1>1, OwnIdle
  <1>. QED BY <1>1, <1>2, <1>3, OwnStep
------------------------------------------------------------------------------
(* The task that derives data, and the faults.                             *)

LEMMA WriteInv ==
    ASSUME TypeOK, DerivedInv, NEW d \in Device, Write(d) PROVE DerivedInv'
  <1>1. /\ writes \in Nat /\ writes' = writes + 1 /\ writes' \notin Written
        /\ Written \subseteq Written' /\ writes' \in Written' /\ writes' # None
    BY WebDavAssumption, DerivedAssumption DEF Write, TypeOK, Written
  <1>2. /\ data'[d] = writes' /\ writing'[d] = writes'
        /\ \A e \in Device \ {d} : data'[e] = data[e] /\ writing'[e] = writing[e]
    BY DEF Write, TypeOK
  <1>3. UNCHANGED <<object, cached, put, rev, ack, job, marked, uploaded>> BY DEF Write
  <1>4. /\ History /\ JobHistory(d) /\ Unsent(d) /\ JobExported(d) /\ FoundUnmarked(d)
    BY DEF DerivedInv
  <1>5. History' BY <1>1, <1>2, <1>3, <1>4 DEF History
  <1>6. (JobHistory(d) /\ Unsent(d) /\ JobExported(d) /\ FoundUnmarked(d))'
    <2>1. JobHistory(d)' BY <1>1, <1>3, <1>4 DEF JobHistory
    <2>2. /\ data'[d] \notin marked /\ data'[d] \notin uploaded /\ data'[d] # ack[d]
          /\ data'[d] # job[d].rev /\ data'[d] # job[d].found
          /\ \A e \in Device \ {d} : data'[d] # writing'[e]
      BY <1>1, <1>2, <1>4 DEF History, JobHistory
    <2>3. Unsent(d)' BY <1>2, <1>3, <2>2 DEF Unsent, Sent
    <2>4. JobExported(d)' BY <1>3, <2>2 DEF JobExported, Planned
    <2>5. FoundUnmarked(d)' BY <1>3, <2>2 DEF FoundUnmarked
    <2>. QED BY <2>1, <2>3, <2>4, <2>5
  <1>7. ASSUME NEW e \in Device \ {d}
        PROVE  (JobHistory(e) /\ Unsent(e) /\ JobExported(e) /\ FoundUnmarked(e))'
    <2>1. \A f \in Device \ {e} : writing'[f] \in {writing[f], None, writes + 1}
      BY <1>1, <1>2
    <2>. QED BY <1>1, <1>2, <1>3, <2>1, OthersKeep
  <1>. QED BY <1>5, <1>6, <1>7 DEF DerivedInv

LEMMA MarkInv ==
    ASSUME TypeOK, DerivedInv, NEW d \in Device, Mark(d) PROVE DerivedInv'
  <1>1. /\ writing[d] # None /\ marked' = marked \cup {writing[d]}
        /\ writing'[d] = None /\ rev'[d] = writing[d]
        /\ \A e \in Device \ {d} : rev'[e] = rev[e] /\ writing'[e] = writing[e]
    BY DEF Mark, TypeOK
  <1>2. UNCHANGED <<object, cached, put, data, ack, job, writes, uploaded>> BY DEF Mark
  <1>3. /\ History /\ JobHistory(d) /\ Unsent(d) /\ JobExported(d) /\ FoundUnmarked(d)
    BY DEF DerivedInv
  <1>4. Written' = Written BY <1>2 DEF Written
  <1>5. History' BY <1>1, <1>2, <1>3, <1>4 DEF History
  <1>6. (JobHistory(d) /\ Unsent(d) /\ JobExported(d) /\ FoundUnmarked(d))'
    <2>1. JobHistory(d)' BY <1>1, <1>2, <1>3, <1>4 DEF JobHistory
    <2>2. Sent(d)' <=> Sent(d) BY <1>2 DEF Sent
    <2>3. Unsent(d)' BY <1>1, <1>2, <1>3, <2>2 DEF Unsent, Sent
    <2>4. JobExported(d)' BY <1>2, <1>3, <2>2 DEF JobExported, Planned
    <2>5. FoundUnmarked(d)' BY <1>1, <1>2, <1>3, <2>2 DEF FoundUnmarked, Sent
    <2>. QED BY <2>1, <2>3, <2>4, <2>5
  <1>7. ASSUME NEW e \in Device \ {d}
        PROVE  (JobHistory(e) /\ Unsent(e) /\ JobExported(e) /\ FoundUnmarked(e))'
    BY <1>1, <1>2, OthersKeep
  <1>. QED BY <1>5, <1>6, <1>7 DEF DerivedInv

LEMMA KillInv ==
    ASSUME TypeOK, DerivedInv, NEW d \in Device, Kill(d) PROVE DerivedInv'
  <1>1. /\ job'[d] = NoJob /\ put'[d] = None /\ writing'[d] = None
        /\ \A e \in Device \ {d} :
              job'[e] = job[e] /\ put'[e] = put[e] /\ writing'[e] = writing[e]
    BY DEF Kill, Leave, TypeOK, WebDavTypeOK
  <1>2. UNCHANGED <<object, cached, data, rev, ack, writes, marked, uploaded>> BY DEF Kill
  <1>3. History /\ Unsent(d) BY DEF DerivedInv
  <1>4. Written' = Written BY <1>2 DEF Written
  <1>5. History' BY <1>1, <1>2, <1>3, <1>4 DEF History
  <1>6. (JobHistory(d) /\ JobExported(d) /\ FoundUnmarked(d))' BY <1>1, OwnIdle
  <1>7. Unsent(d)' BY <1>1, <1>2, <1>3 DEF Unsent, Sent
  <1>8. ASSUME NEW e \in Device \ {d}
        PROVE  (JobHistory(e) /\ Unsent(e) /\ JobExported(e) /\ FoundUnmarked(e))'
    BY <1>1, <1>2, OthersKeep
  <1>. QED BY <1>5, <1>6, <1>7, <1>8 DEF DerivedInv

LEMMA LoseInv == ASSUME TypeOK, DerivedInv, LoseManifest PROVE DerivedInv'
  BY DEF LoseManifest, Lose, local, DerivedInv, History, Written, JobHistory, Unsent, Sent,
         JobExported, Planned, FoundUnmarked
------------------------------------------------------------------------------
(* The steps of a job.                                                     *)

LEMMA BeginInv ==
    ASSUME TypeOK, DerivedInv, NEW d \in Device, Begin(d) PROVE DerivedInv'
  <1>1. History /\ JobHistory(d) BY DEF DerivedInv
  <1>2. /\ job[d].at = "idle" /\ job[d] \in Job
        /\ job'[d] = [job[d] EXCEPT !.at = "export", !.rev = rev[d], !.listed = object]
        /\ \A e \in Device \ {d} : job'[e] = job[e]
    BY DEF Begin, TypeOK, Job
  <1>3. /\ job'[d].at = "export" /\ job'[d].rev = rev[d] /\ job'[d].listed = object
        /\ job'[d].local = job[d].local /\ job'[d].remote = job[d].remote
        /\ job'[d].found = job[d].found
    BY <1>2 DEF Job
  <1>4. UNCHANGED <<object, cached, put, ack, uploaded>> /\ UNCHANGED local BY DEF Begin
  <1>5. JobHistory(d)' BY <1>1, <1>3, <1>4 DEF JobHistory, History, Written, local
  <1>6. (JobExported(d) /\ FoundUnmarked(d))' BY <1>3 DEF JobExported, FoundUnmarked
  <1>. QED BY <1>2, <1>4, <1>5, <1>6, OwnQuiet

LEMMA ExportInv ==
    ASSUME TypeOK, DerivedInv, NEW d \in Device, Export(d) PROVE DerivedInv'
  <1>1. History /\ JobHistory(d) BY DEF DerivedInv
  <1>2. /\ job[d].at = "export" /\ job[d] \in Job
        /\ job'[d] = [job[d] EXCEPT !.at = "compare", !.local = data[d]]
        /\ \A e \in Device \ {d} : job'[e] = job[e]
    BY DEF Export, TypeOK, Job
  <1>3. /\ job'[d].at = "compare" /\ job'[d].local = data[d]
        /\ job'[d].rev = job[d].rev /\ job'[d].listed = job[d].listed
        /\ job'[d].remote = job[d].remote /\ job'[d].found = job[d].found
    BY <1>2 DEF Job
  <1>4. UNCHANGED <<object, cached, put, ack, uploaded>> /\ UNCHANGED local BY DEF Export
  <1>5. put[d] = None BY <1>2 DEF TypeOK
  <1>6. JobHistory(d)' BY <1>1, <1>3, <1>4, <1>5 DEF JobHistory, History, Written, local
  <1>7. JobExported(d)' BY <1>3, <1>4 DEF JobExported, Planned, local
  <1>8. FoundUnmarked(d)' BY <1>3 DEF FoundUnmarked
  <1>. QED BY <1>2, <1>4, <1>6, <1>7, <1>8, OwnQuiet

\* Marked data that was not uploaded is dirty.
LEMMA UnsentDirty ==
    ASSUME TypeOK, DerivedInv, NEW d \in Device, data[d] \in marked, ~Sent(d)
    PROVE  Dirty(d)
  <1>1. Unsent(d) BY DEF DerivedInv
  <1>2. data[d] # None BY DEF Sent
  <1>. QED BY <1>1, <1>2 DEF Unsent, Dirty

LEMMA CompareInv ==
    ASSUME TypeOK, DerivedInv, NEW d \in Device, Compare(d) PROVE DerivedInv'
  <1>1. History /\ JobHistory(d) /\ JobExported(d) BY DEF DerivedInv
  <1>2. UNCHANGED <<object, zip, faults, uploaded>> /\ UNCHANGED local /\ job[d].at = "compare"
    BY DEF Compare
  <1>3. PICK remote \in uploaded \cup {None} :
           Decide(d, remote) /\ \A e \in Device : cached'[e] \in uploaded \cup {None}
    <2>1. CASE job[d].listed = None
      BY <1>1, <2>1 DEF Compare, History
    <2>2. CASE job[d].listed # None
      <3>1. PICK remote \in Answers(d, job[d].listed) : Decide(d, remote) /\ Remember(d, remote)
        BY <2>2 DEF Compare
      <3>2. remote \in uploaded \cup {None} BY <1>1, <3>1 DEF Answers, History, JobHistory
      <3>3. \A e \in Device : cached'[e] \in uploaded \cup {None}
        BY <1>1, <3>1, <3>2 DEF Remember, History, TypeOK, WebDavTypeOK
      <3>. QED BY <3>1, <3>2, <3>3
    <2>. QED BY <2>1, <2>2
  <1>4. CASE job[d].local = remote
    <2>1. Leave(d) /\ Acked(d) BY <1>3, <1>4 DEF Decide
    <2>2. /\ job'[d] = NoJob /\ put'[d] = None
          /\ \A e \in Device \ {d} : job'[e] = job[e] /\ put'[e] = put[e]
      BY <2>1 DEF Leave, TypeOK, WebDavTypeOK
    <2>3. /\ ack'[d] = data[d] /\ ack'[d] # ack[d] => Sent(d)
          /\ \A e \in Device : ack'[e] \in marked \cup {None}
          /\ \A e \in Device \ {d} : ack'[e] = ack[e]
      BY <1>2, <1>3, <1>4, <2>1, AckedSent
    <2>4. Sent(d)' <=> Sent(d) BY <1>2 DEF Sent, local
    <2>5. History' BY <1>1, <1>2, <1>3, <2>2, <2>3 DEF History, Written, local
    <2>6. (JobHistory(d) /\ JobExported(d) /\ FoundUnmarked(d))' BY <2>2, OwnIdle
    <2>. QED BY <1>2, <2>2, <2>3, <2>4, <2>5, <2>6, OwnStep
  <1>5. CASE job[d].local # remote
    <2>. DEFINE at == IF job[d].local # None /\ (remote = None \/ Dirty(d))
                      THEN "zip" ELSE "download"
    <2>1. Plan(d, remote) BY <1>3, <1>5 DEF Decide
    <2>2. /\ job'[d] = [job[d] EXCEPT !.remote = remote, !.at = at]
          /\ \A e \in Device \ {d} : job'[e] = job[e]
          /\ UNCHANGED <<put, ack>> /\ job[d] \in Job
      BY <2>1 DEF Plan, TypeOK, Job
    <2>3. /\ job'[d].at = at /\ job'[d].remote = remote /\ job'[d].local = job[d].local
          /\ job'[d].rev = job[d].rev /\ job'[d].listed = job[d].listed
          /\ job'[d].found = job[d].found
      BY <2>2 DEF Job
    <2>4. put[d] = None BY <1>2 DEF TypeOK
    <2>5. at = "zip" => job[d].local # None OBVIOUS
    <2>6. at = "download" => remote # None /\ (job[d].local # None => ~Dirty(d))
      BY <1>5
    <2>7. at \in {"zip", "download"} OBVIOUS
    <2>. HIDE DEF at
    <2>8. History' BY <1>1, <1>2, <1>3, <2>2 DEF History, Written, local
    <2>9. JobHistory(d)'
      BY <1>1, <1>2, <1>3, <2>2, <2>3, <2>4, <2>5, <2>6, <2>7 DEF JobHistory, Written, local
    <2>10. Planned(d)' <=> Planned(d)
      BY <1>2, <2>3 DEF Planned, Sent, local
    <2>11. at = "download" => ~Planned(d)
      <3>. SUFFICES ASSUME at = "download", Planned(d) PROVE FALSE OBVIOUS
      <3>1. job[d].local = job[d].rev /\ data[d] = job[d].rev /\ ~Sent(d)
        BY <1>1, <1>2 DEF JobExported, Planned
      <3>2. data[d] \in marked /\ job[d].local # None
        BY <1>1, <3>1 DEF JobHistory, Sent
      <3>. QED BY <2>6, <3>1, <3>2, UnsentDirty
    <2>12. JobExported(d)'
      BY <1>1, <1>2, <2>3, <2>7, <2>10, <2>11 DEF JobExported
    <2>13. FoundUnmarked(d)' BY <2>3, <2>7 DEF FoundUnmarked
    <2>. QED BY <1>2, <2>2, <2>8, <2>9, <2>12, <2>13, OwnStep
  <1>. QED BY <1>4, <1>5

\* A step of a job from one place to the next.
LEMMA GoKeeps ==
    ASSUME TypeOK, NEW d \in Device, NEW at, Go(d, at)
    PROVE  /\ job'[d].at = at /\ job'[d].rev = job[d].rev /\ job'[d].listed = job[d].listed
           /\ job'[d].local = job[d].local /\ job'[d].remote = job[d].remote
           /\ job'[d].found = job[d].found
           /\ \A e \in Device \ {d} : job'[e] = job[e]
  <1>1. job[d] \in Job BY DEF TypeOK
  <1>2. job'[d] = [job[d] EXCEPT !.at = at] /\ \A e \in Device \ {d} : job'[e] = job[e]
    BY DEF Go, TypeOK
  <1>. QED BY <1>1, <1>2 DEF Job

LEMMA PutZipInv ==
    ASSUME TypeOK, DerivedInv, NEW d \in Device, PutZip(d) PROVE DerivedInv'
  <1>1. History /\ JobHistory(d) /\ JobExported(d) BY DEF DerivedInv
  <1>2. /\ UNCHANGED <<object, cached, ack, faults, uploaded>> /\ UNCHANGED local
        /\ job[d].at = "zip" /\ Go(d, "manifest") /\ Open(d, job[d].local)
    BY DEF PutZip
  <1>3. /\ job'[d].at = "manifest" /\ job'[d].rev = job[d].rev
        /\ job'[d].listed = job[d].listed /\ job'[d].local = job[d].local
        /\ job'[d].remote = job[d].remote /\ job'[d].found = job[d].found
        /\ \A e \in Device \ {d} : job'[e] = job[e]
    BY <1>2, GoKeeps
  <1>4. /\ put'[d].value = job[d].local /\ put'[d].existing = cached[d]
        /\ \A e \in Device \ {d} : put'[e] = put[e]
    BY <1>2 DEF Open, TypeOK, WebDavTypeOK
  <1>5. History' BY <1>1, <1>2, <1>4 DEF History, Written, local
  <1>6. JobHistory(d)' BY <1>1, <1>2, <1>3, <1>4 DEF JobHistory, Written, local
  <1>7. JobExported(d)' BY <1>1, <1>2, <1>3 DEF JobExported, Planned, Sent, local
  <1>8. FoundUnmarked(d)' BY <1>3 DEF FoundUnmarked
  <1>. QED BY <1>2, <1>3, <1>4, <1>5, <1>6, <1>7, <1>8, OwnStep

LEMMA PutManifestInv ==
    ASSUME TypeOK, DerivedInv, NEW d \in Device, PutManifest(d) PROVE DerivedInv'
  <1>1. History /\ JobHistory(d) /\ JobExported(d) BY DEF DerivedInv
  <1>2. UNCHANGED <<ack, zip, faults>> /\ UNCHANGED local /\ job[d].at = "manifest"
    BY DEF PutManifest
  <1>3. put[d] \in Put /\ put[d] # None /\ put[d].value = job[d].local
    BY <1>1, <1>2 DEF TypeOK, WebDavTypeOK, JobHistory
  <1>4. CASE (Ask(d) \/ Refused(d)) /\ UNCHANGED <<job, uploaded>>
    <2>1. /\ put'[d].existing \in uploaded \cup {None} /\ put'[d].value = job[d].local
          /\ \A e \in Device \ {d} : put'[e] = put[e]
          /\ \A e \in Device : cached'[e] \in uploaded \cup {None}
          /\ object' = object
      <3>1. CASE Ask(d)
        BY <1>1, <1>3, <3>1 DEF Ask, Remember, History, Put, TypeOK, WebDavTypeOK
      <3>2. CASE Refused(d)
        BY <1>1, <1>3, <3>2 DEF Refused, Remember, History, Put, TypeOK, WebDavTypeOK
      <3>. QED BY <1>4, <3>1, <3>2
    <2>2. History' BY <1>1, <1>2, <1>4, <2>1 DEF History, Written, local
    <2>3. JobHistory(d)' BY <1>1, <1>2, <1>4, <2>1 DEF JobHistory, Written, local
    <2>4. (JobExported(d) /\ FoundUnmarked(d))'
      BY <1>1, <1>2, <1>4 DEF JobExported, FoundUnmarked, Planned, Sent, local
    <2>. QED BY <1>2, <1>4, <2>1, <2>2, <2>3, <2>4, OwnStep
  <1>5. CASE /\ Equal(d) \/ Accepted(d)
             /\ put' = [put EXCEPT ![d] = None]
             /\ Go(d, "ack")
             /\ uploaded' = uploaded \cup {job[d].local}
    <2>1. /\ job'[d].at = "ack" /\ job'[d].rev = job[d].rev
          /\ job'[d].listed = job[d].listed /\ job'[d].local = job[d].local
          /\ job'[d].remote = job[d].remote /\ job'[d].found = job[d].found
          /\ \A e \in Device \ {d} : job'[e] = job[e]
      BY <1>5, GoKeeps
    <2>2. put'[d] = None /\ \A e \in Device \ {d} : put'[e] = put[e]
      BY <1>5 DEF TypeOK, WebDavTypeOK
    <2>3. /\ object' \in uploaded' \cup {None}
          /\ \A e \in Device : cached'[e] \in uploaded' \cup {None}
      <3>1. CASE Equal(d) BY <1>1, <1>5, <3>1 DEF Equal, History
      <3>2. CASE Accepted(d)
        BY <1>1, <1>3, <1>5, <3>2 DEF Accepted, Remember, History, TypeOK, WebDavTypeOK
      <3>. QED BY <1>5, <3>1, <3>2
    <2>4. job[d].local \in Written BY <1>1, <1>2 DEF JobHistory
    <2>a. Written' = Written /\ uploaded \subseteq uploaded' /\ uploaded' \subseteq Written
      BY <1>1, <1>2, <1>5, <2>4 DEF History, Written, local
    <2>b. \A e \in Device : put'[e] # None => put'[e].existing \in uploaded' \cup {None}
      BY <1>1, <2>2, <2>a DEF History
    <2>5. History' BY <1>1, <1>2, <2>3, <2>a, <2>b DEF History, local
    <2>6. JobHistory(d)' BY <1>1, <1>2, <1>5, <2>1, <2>2 DEF JobHistory, Written, local
    <2>7. ~Planned(d)'
      <3>. SUFFICES ASSUME Planned(d)' PROVE FALSE OBVIOUS
      <3>1. Planned(d) BY <1>2, <1>5, <2>1 DEF Planned, Sent, local
      <3>2. job[d].local = data[d] BY <1>1, <1>2, <3>1 DEF JobExported, Planned
      <3>. QED BY <1>2, <1>5, <3>2 DEF Planned, Sent, local
    <2>8. (JobExported(d) /\ FoundUnmarked(d))'
      BY <2>1, <2>7 DEF JobExported, FoundUnmarked
    <2>. QED BY <1>2, <1>5, <2>1, <2>2, <2>5, <2>6, <2>8, OwnStep
  <1>6. CASE GivenUp(d) /\ Leave(d) /\ UNCHANGED <<object, cached, uploaded>>
    BY <1>2, <1>6, OwnLeave
  <1>. QED BY <1>4, <1>5, <1>6 DEF PutManifest

LEMMA DownloadInv ==
    ASSUME TypeOK, DerivedInv, NEW d \in Device, Download(d) PROVE DerivedInv'
  <1>1. JobHistory(d) /\ JobExported(d) BY DEF DerivedInv
  <1>2. /\ UNCHANGED <<object, cached, ack, zip, faults, uploaded>> /\ UNCHANGED local
        /\ job[d].at = "download"
    BY DEF Download
  <1>3. CASE Leave(d) BY <1>2, <1>3, OwnLeave
  <1>4. CASE Go(d, "check") /\ UNCHANGED put
    <2>1. /\ job'[d].at = "check" /\ job'[d].rev = job[d].rev
          /\ job'[d].listed = job[d].listed /\ job'[d].local = job[d].local
          /\ job'[d].remote = job[d].remote /\ job'[d].found = job[d].found
          /\ \A e \in Device \ {d} : job'[e] = job[e]
      BY <1>4, GoKeeps
    <2>2. JobHistory(d)' BY <1>1, <1>2, <1>4, <2>1 DEF JobHistory, Written, local
    <2>3. (JobExported(d) /\ FoundUnmarked(d))'
      BY <1>1, <1>2, <2>1 DEF JobExported, FoundUnmarked, Planned, Sent, local
    <2>. QED BY <1>2, <1>4, <2>1, <2>2, <2>3, OwnQuiet
  <1>. QED BY <1>3, <1>4 DEF Download

LEMMA CheckInv ==
    ASSUME TypeOK, DerivedInv, NEW d \in Device, Check(d) PROVE DerivedInv'
  <1>1. History /\ JobHistory(d) /\ JobExported(d) BY DEF DerivedInv
  <1>2. /\ UNCHANGED <<object, cached, ack, zip, faults, uploaded>> /\ UNCHANGED local
        /\ job[d].at = "check" /\ job[d] \in Job
    BY DEF Check, TypeOK
  <1>3. CASE rev[d] = job[d].rev
    <2>1. /\ job' = [job EXCEPT ![d].at = "import", ![d].found = Still(d)] /\ UNCHANGED put
      BY <1>3 DEF Check
    <2>2. /\ job'[d] = [job[d] EXCEPT !.at = "import", !.found = Still(d)]
          /\ \A e \in Device \ {d} : job'[e] = job[e]
      BY <2>1 DEF TypeOK, Job
    <2>3. /\ job'[d].at = "import" /\ job'[d].rev = job[d].rev
          /\ job'[d].listed = job[d].listed /\ job'[d].local = job[d].local
          /\ job'[d].remote = job[d].remote /\ job'[d].found = Still(d)
      BY <1>2, <2>2 DEF Job
    <2>4. JobHistory(d)'
      BY <1>1, <1>2, <2>1, <2>3 DEF JobHistory, History, Still, Written, local
    <2>5. JobExported(d)' BY <1>1, <1>2, <2>3 DEF JobExported, Planned, Sent, local
    <2>6. FoundUnmarked(d)'
      <3>. SUFFICES ASSUME data[d] = Still(d), ~Sent(d), Still(d) \in marked \cup {writing[d]}
                    PROVE  FALSE
        BY <1>2, <2>3 DEF FoundUnmarked, Sent, local
      <3>1. data[d] # None /\ writing[d] = None BY DEF Still, Sent
      <3>2. data[d] \in marked BY <3>1
      <3>3. rev[d] = data[d] BY <3>2 DEF DerivedInv, Unsent
      <3>. QED BY <1>1, <1>2, <1>3, <3>3 DEF JobExported, Planned
    <2>. QED BY <1>2, <2>1, <2>2, <2>4, <2>5, <2>6, OwnQuiet
  <1>4. CASE rev[d] # job[d].rev BY <1>2, <1>4, OwnLeave DEF Check
  <1>. QED BY <1>3, <1>4

LEMMA ImportInv ==
    ASSUME TypeOK, DerivedInv, NEW d \in Device, Import(d) PROVE DerivedInv'
  <1>1. History /\ JobHistory(d) /\ Unsent(d) BY DEF DerivedInv
  <1>2. /\ UNCHANGED <<object, cached, put, rev, ack, writing, zip, writes, marked, uploaded>>
        /\ job[d].at = "import" /\ Go(d, "ack")
    BY DEF Import
  <1>3. /\ job'[d].at = "ack" /\ job'[d].rev = job[d].rev
        /\ job'[d].listed = job[d].listed /\ job'[d].local = job[d].local
        /\ job'[d].remote = job[d].remote /\ job'[d].found = job[d].found
        /\ \A e \in Device \ {d} : job'[e] = job[e]
    BY <1>2, GoKeeps
  <1>4. data'[d] = job[d].remote /\ \A e \in Device \ {d} : data'[e] = data[e]
    BY DEF Import, TypeOK
  <1>5. job[d].remote \in uploaded BY <1>1, <1>2 DEF JobHistory
  <1>6. data'[d] \in uploaded /\ Sent(d)' BY <1>2, <1>4, <1>5 DEF Sent
  <1>7. History' BY <1>1, <1>2, <1>4, <1>5 DEF History, Written
  <1>8. JobHistory(d)' BY <1>1, <1>2, <1>3 DEF JobHistory, Written
  <1>9. Unsent(d)' BY <1>2, <1>6 DEF Unsent
  <1>10. (JobExported(d) /\ FoundUnmarked(d))' BY <1>3, <1>6 DEF JobExported, FoundUnmarked, Planned
  <1>11. ASSUME NEW e \in Device \ {d}
         PROVE  (JobHistory(e) /\ Unsent(e) /\ JobExported(e) /\ FoundUnmarked(e))'
    BY <1>2, <1>3, <1>4, OthersKeep
  <1>. QED BY <1>7, <1>8, <1>9, <1>10, <1>11 DEF DerivedInv

LEMMA AcknowledgeInv ==
    ASSUME TypeOK, DerivedInv, NEW d \in Device, Acknowledge(d) PROVE DerivedInv'
  <1>1. History BY DEF DerivedInv
  <1>2. /\ UNCHANGED <<object, cached, zip, faults, uploaded>> /\ UNCHANGED local
        /\ job[d].at = "ack" /\ Acked(d) /\ Leave(d)
    BY DEF Acknowledge
  <1>3. /\ job'[d] = NoJob /\ put'[d] = None
        /\ \A e \in Device \ {d} : job'[e] = job[e] /\ put'[e] = put[e]
    BY <1>2 DEF Leave, TypeOK, WebDavTypeOK
  <1>4. /\ ack'[d] = data[d] /\ ack'[d] # ack[d] => Sent(d)
        /\ \A e \in Device : ack'[e] \in marked \cup {None}
        /\ \A e \in Device \ {d} : ack'[e] = ack[e]
    BY <1>2, AckedSent
  <1>5. Sent(d)' <=> Sent(d) BY <1>2 DEF Sent, local
  <1>6. History' BY <1>1, <1>2, <1>3, <1>4 DEF History, Written, local
  <1>7. (JobHistory(d) /\ JobExported(d) /\ FoundUnmarked(d))' BY <1>3, OwnIdle
  <1>. QED BY <1>2, <1>3, <1>4, <1>5, <1>6, <1>7, OwnStep
------------------------------------------------------------------------------
(* The theorems.                                                           *)

LEMMA StepDerivedInv == TypeOK /\ DerivedInv /\ [Next]_vars => DerivedInv'
  <1>. SUFFICES ASSUME TypeOK, DerivedInv, [Next]_vars PROVE DerivedInv' OBVIOUS
  <1>1. CASE UNCHANGED vars
    BY <1>1 DEF vars, DerivedInv, History, Written, JobHistory, Unsent, Sent, JobExported,
                Planned, FoundUnmarked
  <1>2. CASE LoseManifest BY <1>2, LoseInv
  <1>3. ASSUME NEW d \in Device, Run(d) PROVE DerivedInv'
    BY <1>3, BeginInv, ExportInv, CompareInv, PutZipInv, PutManifestInv, DownloadInv, CheckInv,
       ImportInv, AcknowledgeInv DEF Run
  <1>. QED BY <1>1, <1>2, <1>3, WriteInv, MarkInv, KillInv DEF Next

LEMMA DerivedCorrect == Spec => [](TypeOK /\ DerivedInv)
  <1>1. Init => TypeOK /\ DerivedInv BY InitType, InitDerivedInv
  <1>2. TypeOK /\ DerivedInv /\ [Next]_vars => (TypeOK /\ DerivedInv)'
    BY StepType, StepDerivedInv
  <1>. QED BY <1>1, <1>2, PTL DEF Spec

\* Every version, file and job has its type, and a PUT is open exactly while a
\* job sends its manifest, which holds an archive the device has exported.
THEOREM DerivedTypeCorrect == Spec => []TypeOK
  BY DerivedCorrect, PTL

\* Data that a device has marked and holds to be synchronised was uploaded,
\* although it may be written while a job exports, compares or sends it.
THEOREM AckedUploadedAlways == Spec => []AckedUploaded
  <1>1. TypeOK /\ DerivedInv => AckedUploaded
    <2>. SUFFICES ASSUME TypeOK, DerivedInv, NEW d \in Device, data[d] \in marked, ~Dirty(d)
                  PROVE  data[d] \in uploaded
      BY DEF AckedUploaded
    <2>1. None \notin marked BY WebDavAssumption DEF TypeOK
    <2>. QED BY <2>1, UnsentDirty DEF Sent
  <1>. QED BY <1>1, DerivedCorrect, PTL

\* A download replaces no data that was marked before the check of its revision
\* and never uploaded, whenever the mark was made.
THEOREM MarkedKeptAlways == Spec => MarkedKept
  <1>1. TypeOK /\ DerivedInv /\ [Next]_vars
           => [\A d \in Device :
                  Import(d) /\ data[d] \in marked /\ data[d] = job[d].found
                     => data[d] \in uploaded]_vars
    <2>. SUFFICES ASSUME TypeOK, DerivedInv, NEW d \in Device, Import(d),
                         data[d] \in marked, data[d] = job[d].found
                  PROVE  data[d] \in uploaded
      OBVIOUS
    <2>1. data[d] # None BY WebDavAssumption DEF TypeOK
    <2>2. FoundUnmarked(d) /\ job[d].at = "import" BY DEF DerivedInv, Import
    <2>. QED BY <2>1, <2>2 DEF FoundUnmarked, Sent
  <1>. QED BY <1>1, DerivedCorrect, PTL DEF MarkedKept, Spec
==============================================================================
