CONSTANTS
    Threads = {th1, th2}
    Objects = {spi1, spi2}
    Paths = {dev1, dev2}
    Chips = {chip1, chip2}
    Speeds = {slow, fast}
    NoChip = NoChip
    SimChip = SimChip
    NoPath = NoPath
    NoThread = NoThread
    NoSpeed = NoSpeed
    NDebug = FALSE
    NoObject = NoObject
SPECIFICATION Spec
INVARIANTS
    SpeedApplied
SYMMETRY Symmetry
CHECK_DEADLOCK FALSE
