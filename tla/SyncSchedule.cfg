\* Short delays that differ: a retry after one tick, a limit of two, reading
\* delayed by two at most, and a full check after four.
CONSTANTS
    FullAfter = 4
    ReadingDelay = 2
    RetryDelay = 1
    LimitDelay = 2
    None = None
SPECIFICATION FairSpec
INVARIANTS TypeOK NothingForgotten
PROPERTIES LimitRespected FullStaysDue FullNotPostponed
