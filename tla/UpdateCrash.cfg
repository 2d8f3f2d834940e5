CONSTANTS
    v1 = v1
    v2 = v2
    Apps = {a1, a2}
    Images = {v1}
    ImageSize <- MCImageSize
    MaxEntries = 1
    Faults <- PowerFaults
    Console = FALSE
    Absent = Absent
    NoFile = NoFile
    NoSeed = NoSeed
    Idle = Idle
    None = None
SYMMETRY Symmetry
SPECIFICATION Spec
INVARIANTS
    NoStuckTransition
    RollbackIntentDurable
    NothingOutlivesItsEntry
