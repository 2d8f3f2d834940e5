\* The remote interface and the console, loads and callbacks that fail, and
\* room for both applications to run or for one.
SPECIFICATION FairControlSpec
CONSTANTS
    Apps = {a1, a2}
    PrioritySymbols <- MCSymbols
    Policies <- NoPolicies
    Faults = TRUE
    NoSymbol = NoSymbol
    NoLimit = 9
    NotLoaded = NotLoaded
    MaxCommands = 2
    Console = TRUE
    Boots <- MCBoots
    Idle = Idle
INVARIANTS EnabledIsRunning
PROPERTIES RequestsEnd
