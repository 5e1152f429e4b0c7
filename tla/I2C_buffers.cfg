CONSTANTS
    Objects = {wire, wire1}
    SIZE = 3
    MaxRequests = 3
    MaxQueued = 5
SPECIFICATION Spec
INVARIANTS
    TypeOK
    PendingExact
    OneAnswer
    DrainedServed
PROPERTIES
    NoByteTwice
SYMMETRY Symmetry
