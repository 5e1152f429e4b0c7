CONSTANTS
    Tasks = {t1, t2}
    PeerPackets = {p1}
    Payloads = {a, zero}
    Empty = zero
    AppThreads = {app}
    IoThread = io
    Handlers = {cb}
    NoHandler = NoHandler
    NoTask = NoTask
    NoData = NoData
    RcvCap = 2
    ReadBatch = 2
    Faults = {"loss", "late"}
SPECIFICATION FairSpec
PROPERTIES
    EveryWriteSent
    CopyEndsWait
    WatchdogEndsWait
    DestructorJoins
    BufferDrained
CHECK_DEADLOCK FALSE
