\* One clock is ahead until it is set right.
SPECIFICATION Spec
CONSTANTS
    Device = {1, 2}
    Rank <- IdRank
    Ahead = {1}
    AheadBy = 2
    Latency = 1
    MaxTime = 3
    MaxSaves = 2
    MaxNotes = 1
PROPERTY NewestWins
\* The bounds let every device come to rest.
CHECK_DEADLOCK FALSE
