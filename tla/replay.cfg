CONSTANTS
    None = None
    Garbage = Garbage
    Procs = {p1, p2}
    MaxEvents = 3
    MaxDamage = 1
    Contents = {c1, c2}
SYMMETRY MCSymmetry
SPECIFICATION StoreSpec
INVARIANTS
    LogVerifies
    SnapshotsAreHonest
    AckedIsKept
    BlobsAreThere
PROPERTIES
    KeepsAHistory
