CONSTANTS
    Threads = {th1, th2}
    Objects = {spi1, spi2}
    Paths = {dev1, dev2}
    Chips = {chip1, chip2}
    Speeds = {slow, fast}
    NoChip = NoChip
    SimChip = SimChip
    NoPath = NoPath
    NoThread = NoThread
    NoSpeed = NoSpeed
    NoObject = NoObject
    NDebug = FALSE
SPECIFICATION FairSpec
INVARIANTS
    MutualExclusion
    NoForeignSpeed
    RestoredWhenQuiet
PROPERTIES
    BusGranted
CONSTRAINT OneDefault
CHECK_DEADLOCK FALSE
