CONSTANTS
    v1 = v1
    v2 = v2
    Apps = {a1}
    Images = {v1, v2}
    ImageSize <- MCImageSize
    MaxEntries = 1
    Faults <- PowerFaults
    Console = FALSE
    Absent = Absent
    NoFile = NoFile
    NoSeed = NoSeed
    Idle = Idle
    None = None
SPECIFICATION Spec
INVARIANTS
    NoPartialVerified
