\* An audit falls due after a job stopped half way.
SPECIFICATION AuditSpec
CONSTANTS
    Device = {d1, d2}
    Book = {b1}
    Editors = {d1}
    Planners = {d2}
    Owners = {d1, d2}
    Joined = {d1, d2}
    Auditors = {d2}
    MaxRevision = 1
    MaxAborts = 1
    MaxMoves = 0
    MaxLosses = 0
    MaxFaults = 1
INVARIANT AuditComparesAll
\* The bounds let every job, edit and failure come to an end.
CHECK_DEADLOCK FALSE
