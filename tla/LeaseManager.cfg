CONSTANTS
    MaxEntries = 2
    Resources = {r1, r2, r3}
    Holders = {h1, h2}
    Priorities = {1, 2}
    Ttls = {1}
    ClientIds = {}
    NoId = NoId
    Free = Free
    None = None
    MaxUptime = 2
SYMMETRY Symmetry
SPECIFICATION Spec
INVARIANTS
    OneLeasePerResource
    AuthorisedIsExclusive
PROPERTIES
    ImplementsLeaseTable
    HeldUntilExpiry
    FullOnlyWhenAllRunning
    HolderCanRelease
