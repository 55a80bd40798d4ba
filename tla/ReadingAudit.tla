----------------------------- MODULE ReadingAudit -----------------------------
(***************************************************************************)
(* The periodic audit of a full job.  Every RECHECK_MS a job compares all  *)
(* books with the server even though no index announced a change, because  *)
(* an index is only a hint.  This module observes ReadingSync: audited is  *)
(* the set of books whose remote files a device has listed since its audit *)
(* fell due.                                                               *)
(***************************************************************************)
EXTENDS ReadingSync

VARIABLE audited    \* history: [Device -> SUBSET Book]

AuditInit == Init /\ audited = [d \in Device |-> {}]

\* The device lists the remote files of a book: it takes a planned book, or
\* it lists the book it has just uploaded.
Compares(d) ==
    \/ pc[d] \in {"download", "plan"} /\ pc'[d] \in {"put", "merge"}
    \/ pc[d] = "list" /\ pc'[d] = "merge"

AuditNext ==
    /\ Next
    /\ audited' = [d \in Device |->
          IF auditDue'[d] /\ ~auditDue[d] THEN {}
          ELSE IF Compares(d) THEN audited[d] \cup {book'[d]}
          ELSE audited[d]]

AuditSpec == AuditInit /\ [][AuditNext]_<<vars, audited>>

\* "A periodic audit still checks payloads even with unchanged indexes", and
\* of completed work "new remote revisions or a new audit do" invalidate it
\* (changes.rs): the time of an audit is advanced only after every planned
\* book has been compared with the server since the audit fell due.
AuditComparesAll ==
    \A d \in Device : pc[d] = "ackAudit" => plan[d].books \subseteq audited[d]
==============================================================================
