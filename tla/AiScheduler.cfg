\* Four calls, a queue of two, and a reader who moves between two places.
CONSTANTS
    body = body
    again = again
    contents = contents
    structure = structure
    here = here
    there = there
    Call <- MCCall
    Place = {here, there}
    KindOf <- MCKindOf
    PlaceOf <- MCPlaceOf
    KeyOf <- MCKeyOf
    MaxQueued = 2
    ClockTears = FALSE
SPECIFICATION FairSpec
INVARIANTS TypeOK LaneExclusive EvictedTold QueueBounded NoLostWakeup
PROPERTIES PaidRequestKept Served
