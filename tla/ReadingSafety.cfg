\* A reader writes twice while jobs stop, books leave shelves and audits fall due.
SPECIFICATION Spec
CONSTANTS
    Device = {d1, d2}
    Book = {b1}
    Editors = {d1}
    Planners = {d2}
    Owners = {d1}
    Joined = {d1}
    Auditors = {d2}
    MaxRevision = 2
    MaxAborts = 1
    MaxMoves = 1
    MaxLosses = 0
    MaxFaults = 1
INVARIANTS TypeOK AckedUploaded IndexBacked AckedSignalled AppliedMerged CaughtUp AuditCheckpointed
\* The bounds let every job, edit and failure come to an end.
CHECK_DEADLOCK FALSE
