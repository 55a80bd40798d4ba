\* The same calls, where a deadline may pass between the two looks at the clock.
CONSTANTS
    body = body
    again = again
    contents = contents
    structure = structure
    here = here
    there = there
    Call <- MCCall
    Place = {here, there}
    KindOf <- MCKindOf
    PlaceOf <- MCPlaceOf
    KeyOf <- MCKeyOf
    MaxQueued = 2
    ClockTears = TRUE
SPECIFICATION FairSpec
PROPERTY Served
