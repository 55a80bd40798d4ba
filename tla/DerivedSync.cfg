\* Two devices that derive the archive two times in all, and one process that is
\* killed or one manifest that gets lost.
CONSTANTS
    d1 = d1
    d2 = d2
    None = None
    Device <- MCDevice
    Value <- MCValue
    Attempts = 2
    MaxWrites = 2
    MaxFaults = 1
SPECIFICATION FairSpec
INVARIANTS TypeOK AckedUploaded
PROPERTIES MarkedKept DirtyAcked Converges
