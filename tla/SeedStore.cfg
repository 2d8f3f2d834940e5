\* Every call of a save and of a load may fail, and power between any two.
CONSTANTS
    MaxSaves = 4
    CallFaults <- AllCallFaults
    NoSeedFile = NoSeedFile
    NoCall = NoCall
SPECIFICATION SeedSpec
INVARIANTS
    Recoverable
    SettledIsLastSaved
PROPERTY
    ImplementsAtomicSeed
