\* Three applications, policies that let one or two of them run, all calls
\* in every order, loads and callbacks that fail.
SPECIFICATION Spec
CONSTANTS
    Apps = {a1, a2, a3}
    PrioritySymbols <- MCSymbols
    Policies <- MCPolicies
    Faults = TRUE
    NoSymbol = NoSymbol
    NoLimit = 9
    NotLoaded = NotLoaded
SYMMETRY Symmetry
INVARIANTS RunningWithinLimit StaticBufferOwned
PROPERTIES PreemptsLeastImportant
