\* Every change arrives although a job stopped half way or a file was lost.
SPECIFICATION FairSpec
CONSTANTS
    Device = {d1, d2}
    Book = {b1}
    Editors = {d1}
    Planners = {d1, d2}
    Owners = {d1, d2}
    Joined = {d1, d2}
    Auditors = {d1}
    MaxRevision = 1
    MaxAborts = 1
    MaxMoves = 0
    MaxLosses = 1
    MaxFaults = 1
PROPERTIES Delivered DeliverySpec
\* The bounds let every job, edit and failure come to an end.
CHECK_DEADLOCK FALSE
