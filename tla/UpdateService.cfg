CONSTANTS
    v1 = v1
    v2 = v2
    Apps = {a1}
    Images = {v1, v2}
    ImageSize <- MCImageSize
    MaxEntries = 1
    Faults <- RuntimeFaults
    Console = TRUE
    Absent = Absent
    NoFile = NoFile
    NoSeed = NoSeed
    Idle = Idle
    None = None
SPECIFICATION FairSpec
PROPERTIES
    ActivatesWhatWasVerified
    RequestsAreAnswered
