\* Two operators and one request, lost replies, timeouts and crashes.
SPECIFICATION Spec
CONSTANTS
    Requests = {r1}
    Operators = {o1, o2}
    Contracts <- MCContracts
    LeaseIds = {l1, l2}
    Unreliable = TRUE
    Crashes = TRUE
    MaxTries = 3
    NoRequest = NoRequest
    NoLease = NoLease
    Idle = Idle
SYMMETRY Symmetry
INVARIANTS ExactWhenClean ApprovedIsRecorded OkMeansDone
