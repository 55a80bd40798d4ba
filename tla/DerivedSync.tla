----------------------------- MODULE DerivedSync -----------------------------
(***************************************************************************)
(* Sync of one archive of derived data (OCR or reflowed text of a PDF) of  *)
(* one book between devices: sync/derived.rs.  An archive is two files on  *)
(* the server, a zip that is written unconditionally and a manifest with   *)
(* the checksum of the zip, the object of WebDavObject.  On each device a  *)
(* task that derives data writes it and then marks it with a new revision, *)
(* while a job may be anywhere between two of its steps.                   *)
(*                                                                         *)
(* The n-th write of derived data by any device is version n, which stands *)
(* for the content, its checksum and the revision of the mark.  Partial    *)
(* downloads, archives of an incompatible version and the merged metadata  *)
(* documents are left out.  marked and uploaded are history: the versions  *)
(* that were ever marked, and those whose two files were both written.     *)
(***************************************************************************)
EXTENDS WebDavObject

CONSTANTS MaxWrites,  \* bound: versions derived by all devices
          MaxFaults   \* bound: processes killed and manifests lost

ASSUME DerivedAssumption ==
    /\ MaxWrites \in Nat /\ MaxFaults \in Nat
    /\ Value = 1..MaxWrites

Known == Value \cup {None}

Job ==
    [at : {"idle", "export", "compare", "zip", "manifest", "download", "check", "import", "ack"},
     rev : Known,     \* the revision read when planning began
     listed : Known,  \* the manifest in the listing
     local : Known,   \* the archive that was exported
     remote : Known,  \* the manifest that was fetched
     found : Known]   \* the local data when the download was checked

NoJob ==
    [at |-> "idle", rev |-> None, listed |-> None, local |-> None, remote |-> None,
     found |-> None]

VARIABLES data,      \* the derived data of each device
          rev,       \* the dirty marker
          ack,       \* the revision acknowledged for the account
          writing,   \* a version that is written and not marked yet
          zip,       \* the zip on the server
          job,
          writes, faults, marked, uploaded

vars == <<object, cached, put, data, rev, ack, writing, zip, job, writes, faults, marked, uploaded>>

local == <<data, rev, writing, writes, marked>>

Init ==
    /\ WebDavInit
    /\ data = [d \in Device |-> None]
    /\ rev = [d \in Device |-> None]
    /\ ack = [d \in Device |-> None]
    /\ writing = [d \in Device |-> None]
    /\ zip = None
    /\ job = [d \in Device |-> NoJob]
    /\ writes = 0 /\ faults = 0
    /\ marked = {} /\ uploaded = {}

\* is_dirty.
Dirty(d) == rev[d] # None /\ ack[d] # rev[d]

Go(d, at) == job' = [job EXCEPT ![d].at = at]

\* Mutant: the PUT of a job that ends stays open.
LeaveOpen(d) == job' = [job EXCEPT ![d] = NoJob] /\ UNCHANGED put

\* A job ends: its error, or its last step.
Leave(d) == job' = [job EXCEPT ![d] = NoJob] /\ put' = [put EXCEPT ![d] = None]
------------------------------------------------------------------------------
(* The task that derives data.                                             *)

Write(d) ==
    /\ writing[d] = None /\ writes < MaxWrites
    /\ writes' = writes + 1
    /\ data' = [data EXCEPT ![d] = writes']
    /\ writing' = [writing EXCEPT ![d] = writes']
    /\ UNCHANGED <<object, cached, put, rev, ack, zip, job, faults, marked, uploaded>>

\* mark_derived_dirty.
Mark(d) ==
    /\ writing[d] # None
    /\ rev' = [rev EXCEPT ![d] = writing[d]]
    /\ marked' = marked \cup {writing[d]}
    /\ writing' = [writing EXCEPT ![d] = None]
    /\ UNCHANGED <<object, cached, put, data, ack, zip, job, writes, faults, uploaded>>
------------------------------------------------------------------------------
(* Planning.                                                               *)

\* The directory is listed, then the revision is read, before the data.
Begin(d) ==
    /\ job[d].at = "idle"
    /\ job' = [job EXCEPT ![d].at = "export", ![d].rev = rev[d], ![d].listed = object]
    /\ UNCHANGED <<object, cached, put, ack, zip, faults, uploaded>> /\ UNCHANGED local

\* cached_ocr_archive, if the data does not change while it is packed.
Export(d) ==
    /\ job[d].at = "export"
    /\ job' = [job EXCEPT ![d].at = "compare", ![d].local = data[d]]
    /\ UNCHANGED <<object, cached, put, ack, zip, faults, uploaded>> /\ UNCHANGED local

\* Mutant: acknowledge_derived takes the revision of the moment.
AckedNow(d) ==
    ack' = IF rev[d] = None THEN ack ELSE [ack EXCEPT ![d] = rev[d]]

\* acknowledge_derived.
Acked(d) ==
    ack' = IF job[d].rev = None THEN ack ELSE [ack EXCEPT ![d] = job[d].rev]

\* New data of this device is uploaded, other data is downloaded.
Plan(d, remote) ==
    /\ job' = [job EXCEPT ![d].remote = remote,
                          ![d].at = IF job[d].local # None /\ (remote = None \/ Dirty(d))
                                    THEN "zip" ELSE "download"]
    /\ UNCHANGED <<put, ack>>

\* Mutant: data that is there already is not acknowledged.
DecideUnacked(d, remote) ==
    IF job[d].local = remote THEN Leave(d) /\ UNCHANGED ack
    ELSE Plan(d, remote)

\* Mutant: a device that has data of its own leaves the remote data alone.
DecideOwn(d, remote) ==
    IF job[d].local = remote \/ (job[d].local # None /\ remote # None /\ ~Dirty(d))
    THEN Leave(d) /\ Acked(d)
    ELSE Plan(d, remote)

\* Equal data, or none on both sides, is acknowledged.
Decide(d, remote) ==
    IF job[d].local = remote THEN Leave(d) /\ Acked(d)
    ELSE Plan(d, remote)

\* collect_ocr_operation, from the answer of the GET on.
Compare(d) ==
    /\ job[d].at = "compare"
    /\ IF job[d].listed = None THEN Decide(d, None) /\ UNCHANGED cached
       ELSE \E remote \in Answers(d, job[d].listed) : Decide(d, remote) /\ Remember(d, remote)
    /\ UNCHANGED <<object, zip, faults, uploaded>> /\ UNCHANGED local
------------------------------------------------------------------------------
(* Transfers.                                                              *)

PutZip(d) ==
    /\ job[d].at = "zip"
    /\ zip' = job[d].local
    /\ Open(d, job[d].local)
    /\ Go(d, "manifest")
    /\ UNCHANGED <<object, cached, ack, faults, uploaded>> /\ UNCHANGED local

PutManifest(d) ==
    /\ job[d].at = "manifest"
    /\ \/ (Ask(d) \/ Refused(d)) /\ UNCHANGED <<job, uploaded>>
       \/ /\ Equal(d) \/ Accepted(d)
          /\ put' = [put EXCEPT ![d] = None]
          /\ Go(d, "ack")
          /\ uploaded' = uploaded \cup {job[d].local}
       \/ GivenUp(d) /\ Leave(d) /\ UNCHANGED <<object, cached, uploaded>>
    /\ UNCHANGED <<ack, zip, faults>> /\ UNCHANGED local

\* The zip arrives and has the checksum of the manifest, or the job fails.
Download(d) ==
    /\ job[d].at = "download"
    /\ IF zip = job[d].remote THEN Go(d, "check") /\ UNCHANGED put ELSE Leave(d)
    /\ UNCHANGED <<object, cached, ack, zip, faults, uploaded>> /\ UNCHANGED local

\* The data of a device, if it is not being written.
Still(d) == IF writing[d] = None THEN data[d] ELSE None

\* Mutant: the data is not looked at again.
CheckNothing(d) ==
    /\ job[d].at = "check"
    /\ job' = [job EXCEPT ![d].at = "import", ![d].found = Still(d)]
    /\ UNCHANGED put
    /\ UNCHANGED <<object, cached, ack, zip, faults, uploaded>> /\ UNCHANGED local

\* require_unchanged.
Check(d) ==
    /\ job[d].at = "check"
    /\ IF rev[d] = job[d].rev
       THEN job' = [job EXCEPT ![d].at = "import", ![d].found = Still(d)] /\ UNCHANGED put
       ELSE Leave(d)
    /\ UNCHANGED <<object, cached, ack, zip, faults, uploaded>> /\ UNCHANGED local

Import(d) ==
    /\ job[d].at = "import"
    /\ data' = [data EXCEPT ![d] = job[d].remote]
    /\ Go(d, "ack")
    /\ UNCHANGED <<object, cached, put, rev, ack, writing, zip, writes, faults, marked, uploaded>>

Acknowledge(d) ==
    /\ job[d].at = "ack"
    /\ Acked(d)
    /\ Leave(d)
    /\ UNCHANGED <<object, cached, zip, faults, uploaded>> /\ UNCHANGED local

\* The process ends, in the middle of a job or of a write.
Kill(d) ==
    /\ faults < MaxFaults
    /\ faults' = faults + 1
    /\ job[d].at # "idle" \/ writing[d] # None
    /\ Leave(d)
    /\ writing' = [writing EXCEPT ![d] = None]
    /\ UNCHANGED <<object, cached, data, rev, ack, zip, writes, marked, uploaded>>

LoseManifest ==
    /\ faults < MaxFaults
    /\ Lose
    /\ faults' = faults + 1
    /\ UNCHANGED <<ack, zip, job, uploaded>> /\ UNCHANGED local

Run(d) ==
    \/ Begin(d) \/ Export(d) \/ Compare(d)
    \/ PutZip(d) \/ PutManifest(d)
    \/ Download(d) \/ Check(d) \/ Import(d) \/ Acknowledge(d)

Next ==
    \/ \E d \in Device : Write(d) \/ Mark(d) \/ Run(d) \/ Kill(d)
    \/ LoseManifest

Spec == Init /\ [][Next]_vars

\* A job is started again and again and comes to its end, and no write hangs.
FairSpec == Spec /\ \A d \in Device : WF_vars(Run(d)) /\ WF_vars(Mark(d))
------------------------------------------------------------------------------
(* Properties.                                                             *)

TypeOK ==
    /\ WebDavTypeOK
    /\ data \in [Device -> Known] /\ rev \in [Device -> Known]
    /\ ack \in [Device -> Known] /\ writing \in [Device -> Known]
    /\ zip \in Known
    /\ job \in [Device -> Job]
    /\ \A d \in Device : put[d] # None <=> job[d].at = "manifest"
    /\ writes \in 0..MaxWrites /\ faults \in 0..MaxFaults
    /\ marked \subseteq Value /\ uploaded \subseteq Value

\* Data that a device has marked and holds to be synchronised was uploaded, by
\* the device or by the one it came from, although it may be written while it
\* is exported, compared, sent or replaced.
AckedUploaded ==
    \A d \in Device :
        data[d] \in marked /\ ~Dirty(d) /\ writing[d] = None => data[d] \in uploaded

\* A download does not replace data that was marked before the check of the
\* revision and never uploaded, however late after planning it was marked.
MarkedKept ==
    [][\A d \in Device :
          Import(d) /\ data[d] \in marked /\ data[d] = job[d].found => data[d] \in uploaded]_vars

\* Marked data does not stay dirty, although PUTs race, jobs fail their checks
\* or are killed, and manifests get lost.
DirtyAcked == \A d \in Device : Dirty(d) ~> ~Dirty(d)

\* The two files match and no device has anything to upload.
Settled ==
    /\ object # None /\ zip = object
    /\ \A d \in Device : ~Dirty(d) /\ writing[d] = None /\ job[d].at \notin {"zip", "manifest"}

\* Once the server has one archive that nobody will replace, every device comes
\* to hold it, one that had other data of its own too.
Converges == Settled ~> ~Settled \/ \A d \in Device : data[d] = zip
==============================================================================
