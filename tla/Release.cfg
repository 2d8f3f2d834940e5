CONSTANTS
    Operators = {alice, bob}
    MaxCommands = 3
    MaxSpans = 3
    SpanLimit = 2
    NotSupplied = NotSupplied
    NoCommand = NoCommand
    NoFile = NoFile
    Torn = Torn
SPECIFICATION Spec
SYMMETRY Symmetry
CHECK_DEADLOCK FALSE
INVARIANTS
    OkMeansSettled
    ValidatedRestsOnSources
    NoChangeIsLost
